----------------------- MODULE ConnectorRegistryProofs -----------------------
(***************************************************************************)
(* Proofs about the connector daemon's registry: a command runs on the     *)
(* device whose entry it was given, a loss removes the registration it     *)
(* names, and discovery that has caught up knows exactly the attached      *)
(* devices, for every number of devices, identifiers, plugs and requests.  *)
(***************************************************************************)
EXTENDS ConnectorRegistry, TLAPS

Candidates == [id : UsbIds, serial : Serials]
HotplugEvents == [kind : {"connected", "disconnected"}, id : UsbIds,
                  serial : Serials \cup {NoSerial}]
DeviceEntries == [serial : Serials, kind : {"usb", "i2c"}, id : UsbIds \cup {NoSerial},
                  generation : Nat, legacyOnly : BOOLEAN, handle : Nat,
                  holder : CommandIds \cup {NoSerial}]
DeviceRecords == [status : Statuses, kind : {"none", "usb", "i2c"}, generation : Nat, entry : Nat]
Discoverers == [pc : {"start", "list", "events", "register", "stopped"},
                todo : SUBSET Candidates, complete : BOOLEAN,
                candidate : [id : UsbIds \cup {NoSerial}, serial : Serials \cup {NoSerial}],
                handle : Nat, generation : Nat]
HttpCommands == [pc : {"new", "found", "running", "done"}, api : {"none", "device", "legacy"},
                 entry : Nat]

(***************************************************************************)
(* The parts of the inductive invariant                                    *)
(***************************************************************************)
UsbShape ==
    /\ settings \in Configurations
    /\ plugs \in Seq(Serials) /\ usb \in [UsbIds -> 0..Len(plugs)]
    /\ hotplug \in Seq(HotplugEvents)
    /\ discoverer \in Discoverers
StateShape ==
    /\ devices \in [Serials -> DeviceRecords]
    /\ serialById \in [UsbIds -> Serials \cup {NoSerial}]
    /\ generations \in [Serials -> Nat]
    /\ legacySerial \in Serials \cup {NoSerial}
    /\ entries \in Seq(DeviceEntries)
    /\ attempts \subseteq pending /\ pending \subseteq I2cSerials
    /\ lost \in Seq([serial : Serials, generation : Nat])
CommandShape ==
    /\ httpCommands \in [CommandIds -> HttpCommands]
    /\ ranOn \in [CommandIds -> Seq(Serials)]

\* A handle is one of the entry's device, which the daemon may claim.
EntryFits(entry) ==
    /\ entry.legacyOnly <=> ~AllowsSerial(entry.serial)
    /\ ShouldClaim(entry.serial)
    /\ entry.kind = "usb" =>
           /\ entry.id \in UsbIds
           /\ entry.handle # 0 => entry.handle \in 1..Len(plugs) /\ plugs[entry.handle] = entry.serial
EntriesFit == \A i \in 1..Len(entries) : EntryFits(entries[i])

\* The record of a serial, and the entry behind it.
RecordsFit ==
    \A s \in Serials :
        /\ devices[s].kind = "none" <=> devices[s].status = "none"
        /\ devices[s].kind = "i2c" => s \in I2cSerials
        /\ devices[s].status = "claimed" =>
               devices[s].entry \in 1..Len(entries) /\ entries[devices[s].entry].serial = s

\* What a request may hold, and what has run for it.
CommandFits(command, ran) ==
    /\ command.pc \in {"found", "running"} \/ (command.pc = "done" /\ ran # <<>>) =>
           /\ command.entry \in 1..Len(entries)
           /\ command.api = "legacy" \/ (command.api = "device" /\ ~entries[command.entry].legacyOnly)
    /\ command.pc # "done" => ran = <<>>
    /\ ran # <<>> => ran = <<entries[command.entry].serial>>
CommandsFit == \A c \in CommandIds : CommandFits(httpCommands[c], ranOn[c])

\* A configured endpoint has its record or is pending.
EndpointsKept == \A s \in I2cSerials : s \in pending \/ devices[s].kind = "i2c"

\* serial_by_id and the USB records name each other.
LinksFit ==
    /\ \A id \in UsbIds : serialById[id] # NoSerial => devices[serialById[id]].kind = "usb"
    /\ \A id, other \in UsbIds :
           serialById[id] # NoSerial /\ serialById[id] = serialById[other] => id = other
    /\ \A s \in Serials : devices[s].kind = "usb" => \E id \in UsbIds : serialById[id] = s

\* The device s is at the identifier; its departure is still in the queue.
Live(id, s) == usb[id] # 0 /\ plugs[usb[id]] = s
GoneAt(j, id) == hotplug[j].kind = "disconnected" /\ hotplug[j].id = id
CameAt(i, id, s) == hotplug[i].kind = "connected" /\ hotplug[i].id = id /\ hotplug[i].serial = s
Placed(id, s) == Live(id, s) \/ \E j \in 1..Len(hotplug) : GoneAt(j, id)

\* What the discovery task knows of an identifier is there, or its end is queued.
PlacesFit ==
    /\ \A id, other \in UsbIds : usb[id] # 0 /\ usb[other] # 0 /\ plugs[usb[id]] = plugs[usb[other]]
           => id = other
    /\ \A id \in UsbIds, s \in Serials : serialById[id] = s => Placed(id, s)
    /\ \A candidate \in discoverer.todo : Placed(candidate.id, candidate.serial)
    /\ \A i \in 1..Len(hotplug), id \in UsbIds, s \in Serials : CameAt(i, id, s) =>
           Live(id, s) \/ \E j \in (i + 1)..Len(hotplug) : GoneAt(j, id)
    /\ \A j \in 1..Len(hotplug), id \in UsbIds : GoneAt(j, id) => usb[id] = 0
    /\ \A i \in 1..Len(hotplug) : hotplug[i].kind = "connected" => hotplug[i].serial \in Serials

\* Where the discovery task stands.
DiscovererFits ==
    /\ discoverer.pc \in {"start", "stopped"} => hotplug = <<>>
    /\ discoverer.pc \in {"start", "list", "stopped"} =>
           discoverer.todo = {} /\ \A id \in UsbIds : serialById[id] = NoSerial
    /\ discoverer.pc = "register" =>
           /\ discoverer.candidate \in Candidates
           /\ serialById[discoverer.candidate.id] = NoSerial
           /\ ShouldClaim(discoverer.candidate.serial)
           /\ Placed(discoverer.candidate.id, discoverer.candidate.serial)
           /\ discoverer.handle # 0 =>
                  /\ discoverer.handle \in 1..Len(plugs)
                  /\ plugs[discoverer.handle] = discoverer.candidate.serial

Listed(id, s) == \E candidate \in discoverer.todo : candidate.id = id /\ candidate.serial = s
Registering(id, s) ==
    discoverer.pc = "register" /\ discoverer.candidate.id = id /\ discoverer.candidate.serial = s
Holds(id, s) == serialById[id] = s \/ Listed(id, s) \/ Registering(id, s)

\* A device that is there is not hidden behind an older place of it: the end of the
\* older place is taken from the queue first.
OrderFits ==
    /\ \A id, other \in UsbIds, s \in Serials :
           (Listed(id, s) \/ Registering(id, s)) /\ Live(id, s) /\ Holds(other, s) => other = id
    /\ \A i \in 1..Len(hotplug), id, other \in UsbIds, s \in Serials :
           CameAt(i, id, s) /\ Live(id, s) /\ other # id =>
               /\ Holds(other, s) => \E j \in 1..(i - 1) : GoneAt(j, other)
               /\ \A k \in 1..(i - 1) : CameAt(k, other, s) =>
                      \E j \in (k + 1)..(i - 1) : GoneAt(j, other)

\* Every attached device is known or will be.
NoneMissed ==
    discoverer.pc \in {"events", "register"} /\ discoverer.complete =>
        \A id \in UsbIds, s \in Serials : Live(id, s) /\ s \notin I2cSerials =>
            Holds(id, s) \/ \E i \in 1..Len(hotplug) : CameAt(i, id, s)

RegInv ==
    /\ UsbShape /\ StateShape /\ CommandShape
    /\ EntriesFit /\ RecordsFit /\ CommandsFit /\ EndpointsKept /\ LinksFit
    /\ PlacesFit /\ DiscovererFits /\ OrderFits /\ NoneMissed

(***************************************************************************)
(* Sequences and records                                                   *)
(***************************************************************************)
\* What Tail leaves of a queue of events.
LEMMA QueueTail ==
    ASSUME NEW S, NEW q \in Seq(S), q # <<>>
    PROVE  /\ Head(q) = q[1] /\ Head(q) \in S /\ 1 \in 1..Len(q)
           /\ Tail(q) \in Seq(S) /\ Len(Tail(q)) = Len(q) - 1
           /\ \A i \in 1..Len(Tail(q)) : i + 1 \in 1..Len(q) /\ Tail(q)[i] = q[i + 1]
           /\ \A i \in 2..Len(q) : i - 1 \in 1..Len(Tail(q)) /\ Tail(q)[i - 1] = q[i]
  OBVIOUS

\* What Append adds to a queue, or to the entries created so far.
LEMMA QueueAppend ==
    ASSUME NEW S, NEW q \in Seq(S), NEW e \in S
    PROVE  /\ Append(q, e) \in Seq(S) /\ Len(Append(q, e)) = Len(q) + 1
           /\ Append(q, e)[Len(q) + 1] = e /\ Len(q) + 1 \in 1..Len(Append(q, e))
           /\ \A i \in 1..Len(q) : Append(q, e)[i] = q[i] /\ i \in 1..Len(Append(q, e))
           /\ \A i \in 1..Len(Append(q, e)) : i \in 1..Len(q) \/ i = Len(q) + 1
  OBVIOUS

\* A sequence with one element replaced.
LEMMA EntryReplaced ==
    ASSUME NEW S, NEW q \in Seq(S), NEW e \in 1..Len(q), NEW v \in S
    PROVE  /\ [q EXCEPT ![e] = v] \in Seq(S) /\ Len([q EXCEPT ![e] = v]) = Len(q)
           /\ [q EXCEPT ![e] = v][e] = v
           /\ \A i \in 1..Len(q) : i # e => [q EXCEPT ![e] = v][i] = q[i]
  OBVIOUS

\* The entries only grow, and keep what a request was given.
EntriesGrow ==
    /\ entries' \in Seq(DeviceEntries) /\ Len(entries) <= Len(entries')
    /\ \A i \in 1..Len(entries) : /\ entries'[i].serial = entries[i].serial
                                  /\ entries'[i].legacyOnly = entries[i].legacyOnly

\* Steps that leave the requests alone.
LEMMA CommandsSame ==
    ASSUME RegInv, EntriesGrow, UNCHANGED <<httpCommands, ranOn>>
    PROVE  CommandShape' /\ CommandsFit'
<1>1. CommandShape /\ CommandsFit /\ Len(entries) \in Nat /\ Len(entries') \in Nat
  BY DEF RegInv, StateShape, EntriesGrow
<1>2. CommandShape'
  BY <1>1 DEF CommandShape
<1>3. ASSUME NEW c \in CommandIds
      PROVE  CommandFits(httpCommands[c], ranOn[c])'
  <2>1. CommandFits(httpCommands[c], ranOn[c])
    BY <1>1 DEF CommandsFit
  <2>2. /\ httpCommands'[c] = httpCommands[c] /\ ranOn'[c] = ranOn[c]
        /\ httpCommands[c].entry \in Nat
        /\ httpCommands[c].pc \in {"new", "found", "running", "done"}
    BY <1>1 DEF CommandShape, HttpCommands
  <2>3. httpCommands[c].entry \in 1..Len(entries) =>
            /\ httpCommands[c].entry \in 1..Len(entries')
            /\ entries'[httpCommands[c].entry].serial = entries[httpCommands[c].entry].serial
            /\ entries'[httpCommands[c].entry].legacyOnly = entries[httpCommands[c].entry].legacyOnly
    BY <1>1 DEF EntriesGrow
  <2> QED
    BY <2>1, <2>2, <2>3 DEF CommandFits
<1> QED
  BY <1>2, <1>3 DEF CommandsFit

\* Steps that leave the records alone.
LEMMA RecordsSame ==
    ASSUME RegInv, EntriesGrow, devices' = devices
    PROVE  RecordsFit'
<1>1. RecordsFit /\ StateShape /\ Len(entries) \in Nat /\ Len(entries') \in Nat
  BY DEF RegInv, StateShape, EntriesGrow
<1> QED
  BY <1>1 DEF RecordsFit, EntriesGrow

\* Steps that leave the entries alone.
LEMMA EntriesSame ==
    ASSUME RegInv, UNCHANGED <<settings, plugs, entries>>
    PROVE  EntriesGrow /\ EntriesFit'
<1>1. StateShape /\ EntriesFit /\ Len(entries) \in Nat
  BY DEF RegInv, StateShape
<1>2. EntriesGrow
  BY <1>1 DEF StateShape, EntriesGrow
<1>3. EntriesFit'
  BY <1>1 DEF EntriesFit, EntryFits, AllowsSerial, ShouldClaim
<1> QED
  BY <1>2, <1>3

\* Steps that leave the discovery task and the USB devices alone.
LEMMA DiscoverySame ==
    ASSUME RegInv, UNCHANGED <<settings, usb, plugs, hotplug, discoverer, serialById>>
    PROVE  UsbShape' /\ PlacesFit' /\ DiscovererFits' /\ OrderFits' /\ NoneMissed'
<1>1. UsbShape' /\ DiscovererFits'
  BY DEF RegInv, UsbShape, DiscovererFits, ShouldClaim, AllowsSerial, Placed, Live, GoneAt
<1>2. PlacesFit'
  BY DEF RegInv, PlacesFit, Placed, Live, GoneAt, CameAt
<1>3. OrderFits'
  BY DEF RegInv, OrderFits, Live, GoneAt, CameAt, Listed, Registering, Holds
<1>4. NoneMissed'
  BY DEF RegInv, NoneMissed, Live, CameAt, Listed, Registering, Holds
<1> QED
  BY <1>1, <1>2, <1>3, <1>4

\* Steps that leave the records and their identifiers alone.
LEMMA LinksSame ==
    ASSUME RegInv, UNCHANGED <<devices, serialById>>
    PROVE  LinksFit'
  BY DEF RegInv, LinksFit

\* The types of what the steps read.
LEMMA RegTypes ==
    ASSUME RegInv
    PROVE  /\ settings \in Configurations /\ NoSerial \notin Serials
           /\ plugs \in Seq(Serials) /\ usb \in [UsbIds -> 0..Len(plugs)]
           /\ Len(plugs) \in Nat /\ Len(hotplug) \in Nat /\ Len(entries) \in Nat
           /\ hotplug \in Seq(HotplugEvents) /\ entries \in Seq(DeviceEntries)
           /\ \A i \in 1..Len(hotplug) : hotplug[i] \in HotplugEvents
           /\ \A i \in 1..Len(entries) : entries[i] \in DeviceEntries
           /\ \A i \in 1..Len(plugs) : plugs[i] \in Serials
           /\ discoverer \in Discoverers
           /\ devices \in [Serials -> DeviceRecords]
           /\ serialById \in [UsbIds -> Serials \cup {NoSerial}]
           /\ generations \in [Serials -> Nat]
           /\ legacySerial \in Serials \cup {NoSerial}
           /\ attempts \subseteq pending /\ pending \subseteq I2cSerials /\ I2cSerials \subseteq Serials
           /\ lost \in Seq([serial : Serials, generation : Nat])
           /\ httpCommands \in [CommandIds -> HttpCommands]
           /\ ranOn \in [CommandIds -> Seq(Serials)]
  BY RegAssumption DEF RegInv, UsbShape, StateShape, CommandShape

(***************************************************************************)
(* The requests                                                            *)
(***************************************************************************)
\* A request finds a claimed device, whose entry it may use, or is refused.
LEMMA LooksUpKeeps ==
    ASSUME RegInv, LooksUp
    PROVE  RegInv'
<1>1. PICK c \in CommandIds, api \in {"device", "legacy"} :
          /\ httpCommands[c].pc = "new"
          /\ \/ \E s \in Serials :
                     /\ Finds(api, s)
                     /\ httpCommands' = [httpCommands EXCEPT ![c] = [pc |-> "found", api |-> api,
                                                             entry |-> devices[s].entry]]
             \/ httpCommands' = Finished(c, <<>>)
  BY DEF LooksUp
<1>2. UNCHANGED <<settings, usb, plugs, hotplug, discoverer, devices, serialById, generations,
                  legacySerial, entries, pending, attempts, lost, ranOn>>
  BY DEF LooksUp, usbVars, stateVars, i2cVars
<1>3. /\ StateShape /\ CommandShape /\ CommandsFit /\ RecordsFit /\ EndpointsKept
      /\ ranOn[c] = <<>>
  BY <1>1 DEF RegInv, CommandsFit, CommandFits
<1>4. \E command \in HttpCommands :
          /\ httpCommands' = [httpCommands EXCEPT ![c] = command]
          /\ CommandFits(command, <<>>)
  <2>1. CASE \E s \in Serials :
                 /\ Finds(api, s)
                 /\ httpCommands' = [httpCommands EXCEPT ![c] = [pc |-> "found", api |-> api,
                                                         entry |-> devices[s].entry]]
    <3>1. PICK s \in Serials :
              /\ Finds(api, s)
              /\ httpCommands' = [httpCommands EXCEPT ![c] = [pc |-> "found", api |-> api,
                                                      entry |-> devices[s].entry]]
      BY <2>1
    <3>2. devices[s].entry \in 1..Len(entries) /\ devices[s].entry \in Nat
      BY <1>3, <3>1 DEF Finds, RecordsFit, StateShape
    <3>3. api = "legacy" \/ (api = "device" /\ ~entries[devices[s].entry].legacyOnly)
      BY <1>1, <3>1 DEF Finds
    <3>4. PICK command \in HttpCommands : command = [pc |-> "found", api |-> api,
                                                     entry |-> devices[s].entry]
      BY <3>2 DEF HttpCommands
    <3>5. CommandFits(command, <<>>)
      BY <3>2, <3>3, <3>4 DEF CommandFits
    <3> QED
      BY <3>1, <3>4, <3>5
  <2>2. CASE httpCommands' = Finished(c, <<>>)
    <3>1. PICK command \in HttpCommands : command = [NewCommand EXCEPT !.pc = "done"]
      BY DEF HttpCommands, NewCommand
    <3>2. CommandFits(command, <<>>)
      BY <3>1 DEF CommandFits, NewCommand
    <3> QED
      BY <2>2, <3>1, <3>2 DEF Finished
  <2> QED
    BY <1>1, <2>1, <2>2
<1>5. PICK command \in HttpCommands :
          /\ httpCommands' = [httpCommands EXCEPT ![c] = command]
          /\ CommandFits(command, <<>>)
  BY <1>4
<1>6. CommandShape'
  BY <1>2, <1>3, <1>5 DEF CommandShape
<1>7. CommandsFit'
  <2>1. /\ httpCommands'[c] = command
        /\ \A d \in CommandIds : d # c => httpCommands'[d] = httpCommands[d]
    BY <1>3, <1>5 DEF CommandShape
  <2> QED
    BY <1>2, <1>3, <1>5, <2>1 DEF CommandsFit, CommandFits
<1>8. StateShape' /\ EndpointsKept'
  BY <1>2, <1>3 DEF StateShape, EndpointsKept
<1>9. EntriesGrow /\ EntriesFit' /\ LinksFit'
  BY <1>2, EntriesSame, LinksSame
<1>10. RecordsFit' /\ UsbShape' /\ PlacesFit' /\ DiscovererFits' /\ OrderFits' /\ NoneMissed'
  BY <1>2, <1>9, RecordsSame, DiscoverySame
<1> QED
  BY <1>6, <1>7, <1>8, <1>9, <1>10 DEF RegInv

\* A step of a request that has an entry: the transport of the entry may change hands
\* or be dropped or reopened for the same device, and the request stays with the entry.
LEMMA CommandStep ==
    ASSUME RegInv, NEW c \in CommandIds, NEW e \in 1..Len(entries), NEW new \in DeviceEntries,
           NEW command \in HttpCommands, NEW run \in Seq(Serials),
           entries' = [entries EXCEPT ![e] = new],
           new.serial = entries[e].serial, new.legacyOnly = entries[e].legacyOnly,
           EntryFits(new),
           httpCommands' = [httpCommands EXCEPT ![c] = command],
           ranOn' = [ranOn EXCEPT ![c] = run],
           CommandFits(command, run),
           lost' \in Seq([serial : Serials, generation : Nat]),
           UNCHANGED <<settings, usb, plugs, hotplug, discoverer, devices, serialById,
                       generations, legacySerial, pending, attempts>>
    PROVE  RegInv'
<1> USE RegTypes
<1>1. /\ StateShape /\ CommandShape /\ CommandsFit /\ EntriesFit /\ EndpointsKept
  BY DEF RegInv
<1>2. /\ entries' \in Seq(DeviceEntries) /\ Len(entries') = Len(entries) /\ entries'[e] = new
      /\ \A i \in 1..Len(entries) : i # e => entries'[i] = entries[i]
  BY EntryReplaced
<1>3. EntriesGrow
  BY <1>2 DEF EntriesGrow
<1>4. EntriesFit'
  BY <1>1, <1>2 DEF EntriesFit, EntryFits, AllowsSerial, ShouldClaim
<1>5. StateShape' /\ EndpointsKept'
  BY <1>1, <1>2 DEF StateShape, EndpointsKept
<1>6. /\ httpCommands'[c] = command /\ ranOn'[c] = run
      /\ \A d \in CommandIds : d # c => httpCommands'[d] = httpCommands[d] /\ ranOn'[d] = ranOn[d]
      /\ CommandShape'
  BY <1>1 DEF CommandShape
<1>7. ASSUME NEW com \in HttpCommands, NEW r, CommandFits(com, r)
      PROVE  CommandFits(com, r)'
  BY <1>2, <1>3, <1>7 DEF CommandFits, EntriesGrow, HttpCommands
<1>8. CommandsFit'
  BY <1>1, <1>6, <1>7 DEF CommandsFit, CommandShape
<1>9. RecordsFit' /\ LinksFit'
  BY <1>3, RecordsSame, LinksSame
<1>10. UsbShape' /\ PlacesFit' /\ DiscovererFits' /\ OrderFits' /\ NoneMissed'
  BY DiscoverySame
<1> QED
  BY <1>4, <1>5, <1>6, <1>8, <1>9, <1>10 DEF RegInv

\* What a request that found an entry has.
LEMMA CommandHas ==
    ASSUME RegInv, NEW c \in CommandIds, httpCommands[c].pc \in {"found", "running"}
    PROVE  /\ httpCommands[c] \in HttpCommands
           /\ httpCommands[c].entry \in 1..Len(entries)
           /\ entries[httpCommands[c].entry] \in DeviceEntries
           /\ EntryFits(entries[httpCommands[c].entry])
           /\ ranOn[c] = <<>> /\ ranOn[c] \in Seq(Serials)
           /\ CommandFits(httpCommands[c], <<>>)
           /\ ranOn = [ranOn EXCEPT ![c] = ranOn[c]]
<1>1. CommandFits(httpCommands[c], ranOn[c])
  BY DEF RegInv, CommandsFit
<1>2. httpCommands[c].entry \in 1..Len(entries) /\ ranOn[c] = <<>>
  BY <1>1 DEF CommandFits
<1>3. entries[httpCommands[c].entry] \in DeviceEntries
  BY <1>2, RegTypes
<1>4. EntryFits(entries[httpCommands[c].entry])
  BY <1>2 DEF RegInv, EntriesFit
<1> QED
  BY <1>1, <1>2, <1>3, <1>4, RegTypes

\* The transport is taken; a handle that is opened again is one of the same device.
LEMMA CommandStartsKeeps ==
    ASSUME RegInv, CommandStarts
    PROVE  RegInv'
<1> USE RegTypes
<1>1. PICK c \in CommandIds :
          LET e == httpCommands[c].entry
          IN  /\ httpCommands[c].pc = "found" /\ entries[e].holder = NoSerial
              /\ \E handle \in (IF entries[e].handle # 0 THEN {entries[e].handle}
                                                         ELSE Reopened(entries[e])) :
                     entries' = [entries EXCEPT ![e].handle = handle, ![e].holder = c]
              /\ httpCommands' = [httpCommands EXCEPT ![c].pc = "running"]
  BY DEF CommandStarts
<1>2. PICK e : e = httpCommands[c].entry
  OBVIOUS
<1>3. PICK handle \in (IF entries[e].handle # 0 THEN {entries[e].handle} ELSE Reopened(entries[e])) :
          entries' = [entries EXCEPT ![e].handle = handle, ![e].holder = c]
  BY <1>1, <1>2
<1>4. /\ e \in 1..Len(entries) /\ entries[e] \in DeviceEntries /\ EntryFits(entries[e])
      /\ httpCommands[c] \in HttpCommands /\ ranOn[c] = <<>> /\ ranOn[c] \in Seq(Serials)
      /\ CommandFits(httpCommands[c], <<>>)
      /\ ranOn = [ranOn EXCEPT ![c] = ranOn[c]]
  BY <1>1, <1>2, CommandHas
<1>5. /\ handle \in Nat
      /\ entries[e].kind = "usb" /\ handle # 0 =>
             handle \in 1..Len(plugs) /\ plugs[handle] = entries[e].serial
  <2>1. CASE entries[e].handle # 0
    BY <1>3, <1>4, <2>1, ZenonT(30) DEF EntryFits, DeviceEntries
  <2>2. CASE entries[e].handle = 0 /\ entries[e].kind = "usb"
    <3>1. entries[e].id \in UsbIds /\ usb[entries[e].id] \in 0..Len(plugs)
      BY <1>4, <2>2 DEF EntryFits
    <3> QED
      BY <1>3, <2>2, <3>1 DEF Reopened
  <2>3. CASE entries[e].handle = 0 /\ entries[e].kind # "usb"
    BY <1>3, <2>3 DEF Reopened
  <2> QED
    BY <2>1, <2>2, <2>3
<1>6. PICK new \in DeviceEntries : new = [entries[e] EXCEPT !.handle = handle, !.holder = c]
  BY <1>4, <1>5 DEF DeviceEntries
<1>7. /\ new.serial = entries[e].serial /\ new.legacyOnly = entries[e].legacyOnly
      /\ new.kind = entries[e].kind /\ new.id = entries[e].id /\ new.handle = handle
      /\ new.legacyOnly \in BOOLEAN
  BY <1>4, <1>6 DEF DeviceEntries
<1>8. EntryFits(new)
  BY <1>4, <1>5, <1>7 DEF EntryFits
<1>9. entries' = [entries EXCEPT ![e] = new]
  BY <1>3, <1>4, <1>6
<1>10. PICK command \in HttpCommands : command = [httpCommands[c] EXCEPT !.pc = "running"]
  BY <1>4 DEF HttpCommands
<1>11. httpCommands' = [httpCommands EXCEPT ![c] = command]
  BY <1>1, <1>10
<1>12. CommandFits(command, ranOn[c])
  BY <1>1, <1>4, <1>10 DEF CommandFits, HttpCommands
<1>13. /\ lost' \in Seq([serial : Serials, generation : Nat])
       /\ ranOn' = [ranOn EXCEPT ![c] = ranOn[c]]
       /\ UNCHANGED <<settings, usb, plugs, hotplug, discoverer, devices, serialById,
                      generations, legacySerial, pending, attempts>>
  BY <1>4 DEF CommandStarts, usbVars, stateVars, i2cVars
<1> HIDE RegTypes
<1>14. PICK run \in Seq(Serials) : run = ranOn[c]
  BY <1>4
<1> QED
  BY <1>4, <1>7, <1>8, <1>9, <1>11, <1>12, <1>13, <1>14, CommandStep

\* The end of a request that ran nothing, or ran on the device of its entry.
LEMMA CommandEnds ==
    ASSUME RegInv, NEW c \in CommandIds, httpCommands[c].pc \in {"found", "running"},
           NEW run \in {<<>>, <<entries[httpCommands[c].entry].serial>>}
    PROVE  /\ run \in Seq(Serials)
           /\ \E command \in HttpCommands :
                  /\ Finished(c, run) = [httpCommands EXCEPT ![c] = command]
                  /\ CommandFits(command, run)
<1>1. /\ httpCommands[c] \in HttpCommands
      /\ httpCommands[c].entry \in 1..Len(entries)
      /\ entries[httpCommands[c].entry].serial \in Serials
      /\ CommandFits(httpCommands[c], <<>>)
      /\ httpCommands \in [CommandIds -> HttpCommands]
  BY CommandHas, RegTypes DEF DeviceEntries
<1>2. PICK command : command = IF run = <<>> THEN [NewCommand EXCEPT !.pc = "done"]
                                             ELSE [httpCommands[c] EXCEPT !.pc = "done"]
  OBVIOUS
<1>3. command \in HttpCommands
  BY <1>1, <1>2 DEF HttpCommands, NewCommand
<1>4. Finished(c, run) = [httpCommands EXCEPT ![c] = command]
  BY <1>1, <1>2 DEF Finished
<1>5. run \in Seq(Serials)
  <2>1. ASSUME NEW s \in Serials
        PROVE  <<s>> \in Seq(Serials) /\ <<>> \in Seq(Serials)
    OBVIOUS
  <2> QED
    BY <1>1, <2>1
<1>6. CASE run = <<>>
  <2>1. command.pc = "done"
    BY <1>2, <1>6 DEF NewCommand
  <2>2. CommandFits(command, run)
    BY <1>6, <2>1 DEF CommandFits
  <2> QED
    BY <1>3, <1>4, <1>5, <2>2
<1>7. CASE run # <<>>
  <2>1. /\ command.pc = "done" /\ command.api = httpCommands[c].api
        /\ command.entry = httpCommands[c].entry
        /\ run = <<entries[httpCommands[c].entry].serial>>
    BY <1>1, <1>2, <1>7 DEF HttpCommands
  <2>2. CommandFits(command, run)
    BY <1>1, <2>1 DEF CommandFits
  <2> QED
    BY <1>3, <1>4, <1>5, <2>2
<1> QED
  BY <1>6, <1>7

\* What a command that is sent through its transport leaves: it ran nowhere, or on the
\* device of its entry.
LEMMA CommandRuns ==
    ASSUME RegInv, NEW c \in CommandIds, httpCommands[c].pc = "running",
           \/ UNCHANGED ranOn
           \/ /\ Connected(entries[httpCommands[c].entry])
              /\ ranOn' = [ranOn EXCEPT ![c] = Append(@, Behind(entries[httpCommands[c].entry]))]
    PROVE  \E run \in {<<>>, <<entries[httpCommands[c].entry].serial>>} :
               ranOn' = [ranOn EXCEPT ![c] = run] /\ ranOn'[c] = run
<1>1. /\ EntryFits(entries[httpCommands[c].entry]) /\ ranOn[c] = <<>>
      /\ entries[httpCommands[c].entry] \in DeviceEntries
      /\ ranOn = [ranOn EXCEPT ![c] = ranOn[c]] /\ ranOn \in [CommandIds -> Seq(Serials)]
  BY CommandHas, RegTypes
<1>2. CASE UNCHANGED ranOn
  BY <1>1, <1>2
<1>3. CASE /\ Connected(entries[httpCommands[c].entry])
           /\ ranOn' = [ranOn EXCEPT ![c] = Append(@, Behind(entries[httpCommands[c].entry]))]
  <2>1. Behind(entries[httpCommands[c].entry]) = entries[httpCommands[c].entry].serial
    BY <1>1, <1>3 DEF Behind, Connected, EntryFits
  <2>2. ranOn' = [ranOn EXCEPT ![c] = <<entries[httpCommands[c].entry].serial>>]
    BY <1>1, <1>3, <2>1
  <2> QED
    BY <1>1, <2>2
<1> QED
  BY <1>2, <1>3

\* A device that cannot be opened again refuses the request.
LEMMA ReopenFailsKeeps ==
    ASSUME RegInv, ReopenFails
    PROVE  RegInv'
<1>1. PICK c \in CommandIds : httpCommands[c].pc = "found" /\ httpCommands' = Finished(c, ranOn[c])
  BY DEF ReopenFails
<1>2. PICK e : e = httpCommands[c].entry
  OBVIOUS
<1>3. /\ e \in 1..Len(entries) /\ entries[e] \in DeviceEntries /\ EntryFits(entries[e])
      /\ ranOn[c] = <<>> /\ ranOn = [ranOn EXCEPT ![c] = ranOn[c]]
  BY <1>1, <1>2, CommandHas
<1>4. PICK run \in {<<>>, <<entries[httpCommands[c].entry].serial>>} : run = ranOn[c]
  BY <1>3
<1>5. /\ run \in Seq(Serials)
      /\ \E command \in HttpCommands :
             /\ Finished(c, run) = [httpCommands EXCEPT ![c] = command]
             /\ CommandFits(command, run)
  BY <1>1, CommandEnds
<1>6. PICK command \in HttpCommands : /\ httpCommands' = [httpCommands EXCEPT ![c] = command]
                                      /\ CommandFits(command, run)
  BY <1>1, <1>4, <1>5
<1>7. PICK new \in DeviceEntries : new = entries[e]
  BY <1>3
<1>8. entries = [entries EXCEPT ![e] = new]
  BY <1>3, <1>7, RegTypes
<1>9. /\ lost' \in Seq([serial : Serials, generation : Nat])
      /\ ranOn' = [ranOn EXCEPT ![c] = run]
      /\ entries' = [entries EXCEPT ![e] = new]
      /\ UNCHANGED <<settings, usb, plugs, hotplug, discoverer, devices, serialById,
                     generations, legacySerial, pending, attempts>>
  BY <1>3, <1>4, <1>8, RegTypes DEF ReopenFails, usbVars, stateVars, i2cVars
<1>10. /\ EntryFits(new) /\ new.serial = entries[e].serial
       /\ new.legacyOnly = entries[e].legacyOnly
  BY <1>3, <1>7
<1> QED
  BY <1>3, <1>5, <1>6, <1>9, <1>10, CommandStep

\* A command ran once, on the device of its entry, or did not run; a failure drops the
\* handle and may report the endpoint as lost.
LEMMA TransmitsKeeps ==
    ASSUME RegInv, Transmits \/ TransmitFails
    PROVE  RegInv'
<1>1. PICK c \in CommandIds :
          /\ httpCommands[c].pc = "running"
          /\ \/ UNCHANGED ranOn
             \/ /\ Connected(entries[httpCommands[c].entry])
                /\ ranOn' = [ranOn EXCEPT ![c] = Append(@, Behind(entries[httpCommands[c].entry]))]
          /\ httpCommands' = Finished(c, ranOn'[c])
          /\ \/ /\ entries' = [entries EXCEPT ![httpCommands[c].entry].holder = NoSerial]
                /\ lost' = lost
             \/ /\ entries' = [entries EXCEPT ![httpCommands[c].entry].holder = NoSerial,
                                              ![httpCommands[c].entry].handle = 0]
                /\ \/ UNCHANGED lost
                   \/ lost' = Append(lost, [serial |-> entries[httpCommands[c].entry].serial,
                                            generation |-> entries[httpCommands[c].entry].generation])
  BY DEF Transmits, TransmitFails, i2cVars
<1>2. PICK e : e = httpCommands[c].entry
  OBVIOUS
<1>3. /\ e \in 1..Len(entries) /\ entries[e] \in DeviceEntries /\ EntryFits(entries[e])
  BY <1>1, <1>2, CommandHas
<1>4. PICK run \in {<<>>, <<entries[httpCommands[c].entry].serial>>} :
          ranOn' = [ranOn EXCEPT ![c] = run] /\ ranOn'[c] = run
  BY <1>1, CommandRuns
<1>5. /\ run \in Seq(Serials)
      /\ \E command \in HttpCommands :
             /\ Finished(c, run) = [httpCommands EXCEPT ![c] = command]
             /\ CommandFits(command, run)
  BY <1>1, CommandEnds
<1>6. PICK command \in HttpCommands : /\ httpCommands' = [httpCommands EXCEPT ![c] = command]
                                      /\ CommandFits(command, run)
  BY <1>1, <1>4, <1>5, SMTT(30)
<1>7. PICK new \in DeviceEntries :
          /\ entries' = [entries EXCEPT ![e] = new]
          /\ new.serial = entries[e].serial /\ new.legacyOnly = entries[e].legacyOnly
          /\ new.kind = entries[e].kind /\ new.id = entries[e].id
          /\ new.handle \in {entries[e].handle, 0}
  <2>1. CASE entries' = [entries EXCEPT ![e].holder = NoSerial]
    <3>1. PICK new \in DeviceEntries : new = [entries[e] EXCEPT !.holder = NoSerial]
      BY <1>3 DEF DeviceEntries
    <3>2. entries' = [entries EXCEPT ![e] = new]
      BY <1>3, <2>1, <3>1
    <3> QED
      BY <1>3, <3>1, <3>2 DEF DeviceEntries
  <2>2. CASE entries' = [entries EXCEPT ![e].holder = NoSerial, ![e].handle = 0]
    <3>1. PICK new \in DeviceEntries : new = [entries[e] EXCEPT !.holder = NoSerial, !.handle = 0]
      BY <1>3 DEF DeviceEntries
    <3>2. entries' = [entries EXCEPT ![e] = new]
      BY <1>3, <2>2, <3>1
    <3> QED
      BY <1>3, <3>1, <3>2 DEF DeviceEntries
  <2> QED
    BY <1>1, <1>2, <2>1, <2>2
<1>8. EntryFits(new)
  BY <1>3, <1>7 DEF EntryFits
<1>9. lost' \in Seq([serial : Serials, generation : Nat])
  <2>1. PICK S : S = [serial : Serials, generation : Nat]
    OBVIOUS
  <2>2. PICK loss \in S : loss = [serial |-> entries[e].serial, generation |-> entries[e].generation]
    BY <1>3, <2>1 DEF DeviceEntries
  <2>3. lost \in Seq(S)
    BY <2>1, RegTypes
  <2>4. lost' = lost \/ lost' = Append(lost, loss)
    BY <1>1, <1>2, <2>2
  <2>5. Append(lost, loss) \in Seq(S)
    BY <2>3, QueueAppend, SMTT(30)
  <2> QED
    BY <2>1, <2>3, <2>4, <2>5
<1>10. UNCHANGED <<settings, usb, plugs, hotplug, discoverer, devices, serialById,
                   generations, legacySerial, pending, attempts>>
  BY DEF Transmits, TransmitFails, usbVars, stateVars, i2cVars
<1> QED
  BY <1>3, <1>4, <1>5, <1>6, <1>7, <1>8, <1>9, <1>10, CommandStep

(***************************************************************************)
(* Records and entries                                                     *)
(***************************************************************************)
\* A new entry for a device that the daemon may claim.
LEMMA EntryAdded ==
    ASSUME RegInv, NEW s \in Serials, ShouldClaim(s), NEW kind \in {"usb", "i2c"},
           NEW id \in UsbIds \cup {NoSerial}, NEW generation \in Nat, NEW handle \in Nat,
           kind = "usb" => id \in UsbIds /\ handle \in 1..Len(plugs) /\ plugs[handle] = s,
           entries' = Append(entries, Entry(s, kind, id, generation, handle)),
           UNCHANGED <<settings, plugs>>
    PROVE  /\ EntriesGrow /\ EntriesFit'
           /\ Len(entries') = Len(entries) + 1 /\ entries'[Len(entries) + 1].serial = s
<1> USE RegTypes
<1>1. PICK entry : entry = Entry(s, kind, id, generation, handle)
  OBVIOUS
<1>2. /\ entry.serial = s /\ entry.kind = kind /\ entry.id = id /\ entry.handle = handle
      /\ entry.legacyOnly = ~AllowsSerial(s)
  BY <1>1 DEF Entry
<1>3. entry \in DeviceEntries
  <2>1. (~AllowsSerial(s)) \in BOOLEAN
    BY DEF AllowsSerial
  <2> QED
    BY <1>1, <2>1 DEF Entry, DeviceEntries
<1>4. /\ entries' \in Seq(DeviceEntries) /\ Len(entries') = Len(entries) + 1
      /\ entries'[Len(entries) + 1] = entry
      /\ \A i \in 1..Len(entries) : entries'[i] = entries[i]
      /\ \A i \in 1..Len(entries') : i \in 1..Len(entries) \/ i = Len(entries) + 1
  BY <1>1, <1>3, QueueAppend
<1>5. EntriesGrow
  BY <1>4 DEF EntriesGrow
<1>6. EntryFits(entry)
  BY <1>2 DEF EntryFits
<1>7. EntriesFit'
  <2>1. \A i \in 1..Len(entries') : EntryFits(entries'[i])
    BY <1>4, <1>6 DEF RegInv, EntriesFit
  <2> QED
    BY <2>1 DEF EntriesFit, EntryFits, AllowsSerial, ShouldClaim
<1> QED
  BY <1>2, <1>4, <1>5, <1>7

\* A record for a serial that has none.
LEMMA RecordPut ==
    ASSUME RegInv, EntriesGrow, NEW s \in Serials, ~Taken(s), NEW record \in DeviceRecords,
           record.kind # "none", record.status # "none",
           record.kind = "i2c" => s \in I2cSerials,
           record.status = "claimed" =>
               record.entry \in 1..Len(entries') /\ entries'[record.entry].serial = s,
           devices' = [devices EXCEPT ![s] = record]
    PROVE  /\ RecordsFit' /\ devices' \in [Serials -> DeviceRecords]
           /\ devices[s].kind = "none" /\ devices'[s] = record
           /\ \A t \in Serials : t # s => devices'[t] = devices[t]
<1> USE RegTypes
<1>1. RecordsFit /\ Len(entries') \in Nat
  BY DEF RegInv, EntriesGrow
<1>2. /\ devices' \in [Serials -> DeviceRecords] /\ devices'[s] = record
      /\ \A t \in Serials : t # s => devices'[t] = devices[t]
  OBVIOUS
<1>3. devices[s].kind = "none"
  BY <1>1 DEF Taken, RecordsFit
<1>4. RecordsFit'
  <2>1. SUFFICES ASSUME NEW t \in Serials
                 PROVE  /\ devices'[t].kind = "none" <=> devices'[t].status = "none"
                        /\ devices'[t].kind = "i2c" => t \in I2cSerials
                        /\ devices'[t].status = "claimed" =>
                              /\ devices'[t].entry \in 1..Len(entries')
                              /\ entries'[devices'[t].entry].serial = t
    BY DEF RecordsFit
  <2>2. CASE t = s
    BY <1>2, <2>2
  <2>3. CASE t # s
    <3>1. /\ devices[t].kind = "none" <=> devices[t].status = "none"
          /\ devices[t].kind = "i2c" => t \in I2cSerials
          /\ devices[t].status = "claimed" =>
                 devices[t].entry \in 1..Len(entries) /\ entries[devices[t].entry].serial = t
      BY <1>1 DEF RecordsFit
    <3> QED
      BY <1>1, <1>2, <2>3, <3>1, SMTT(30) DEF EntriesGrow
  <2> QED
    BY <2>2, <2>3
<1> QED
  BY <1>2, <1>3, <1>4

\* A record that is removed.
LEMMA RecordGone ==
    ASSUME RegInv, entries' = entries, NEW s \in Serials,
           devices' = [devices EXCEPT ![s] = NoDevice]
    PROVE  /\ RecordsFit' /\ devices' \in [Serials -> DeviceRecords]
           /\ devices'[s].kind = "none"
           /\ \A t \in Serials : t # s => devices'[t] = devices[t]
<1> USE RegTypes
<1>1. RecordsFit
  BY DEF RegInv
<1>2. NoDevice \in DeviceRecords /\ NoDevice.kind = "none" /\ NoDevice.status = "none"
  BY DEF NoDevice, DeviceRecords, Statuses
<1>3. /\ devices' \in [Serials -> DeviceRecords] /\ devices'[s] = NoDevice
      /\ \A t \in Serials : t # s => devices'[t] = devices[t]
  BY <1>2
<1>4. RecordsFit'
  BY <1>1, <1>2, <1>3 DEF RecordsFit
<1> QED
  BY <1>2, <1>3, <1>4

\* Steps on a record that is not a USB device's.
LEMMA LinksKept ==
    ASSUME RegInv, serialById' = serialById, NEW s \in Serials,
           devices[s].kind # "usb", devices'[s].kind # "usb",
           \A t \in Serials : t # s => devices'[t] = devices[t]
    PROVE  LinksFit'
<1>1. LinksFit
  BY DEF RegInv
<1>2. ASSUME NEW id \in UsbIds, serialById[id] # NoSerial
      PROVE  devices'[serialById[id]].kind = "usb"
  <2>1. serialById[id] \in Serials /\ devices[serialById[id]].kind = "usb"
    BY <1>1, <1>2, RegTypes DEF LinksFit
  <2> QED
    BY <2>1
<1>3. ASSUME NEW t \in Serials, devices'[t].kind = "usb"
      PROVE  \E id \in UsbIds : serialById[id] = t
  <2>1. devices[t].kind = "usb"
    BY <1>3
  <2> QED
    BY <1>1, <2>1 DEF LinksFit
<1> QED
  BY <1>1, <1>2, <1>3 DEF LinksFit

(***************************************************************************)
(* The coordinator                                                         *)
(***************************************************************************)
\* An endpoint gets its record when no device has its serial.
LEMMA RegistersI2cKeeps ==
    ASSUME RegInv, RegistersI2c
    PROVE  RegInv'
<1> USE RegTypes
<1>1. PICK s \in attempts :
          /\ ~Taken(s) /\ NextGeneration(s)
          /\ IF ShouldClaim(s)
             THEN /\ devices' = [devices EXCEPT ![s] =
                                    Record("claimed", "i2c", generations'[s], Len(entries) + 1)]
                  /\ entries' = Append(entries, Entry(s, "i2c", NoSerial, generations'[s], 1))
                  /\ legacySerial' = IF legacySerial = NoSerial THEN s ELSE legacySerial
             ELSE /\ devices' = [devices EXCEPT ![s] = Record("filtered", "i2c", generations'[s], 0)]
                  /\ UNCHANGED <<entries, legacySerial>>
          /\ pending' = pending \ {s} /\ attempts' = attempts \ {s}
  BY DEF RegistersI2c
<1>2. UNCHANGED <<settings, usb, plugs, hotplug, discoverer, serialById, lost, httpCommands, ranOn>>
  BY DEF RegistersI2c, usbVars
<1>3. /\ s \in I2cSerials /\ s \in Serials
      /\ generations' = [generations EXCEPT ![s] = generations[s] + 1]
      /\ generations' \in [Serials -> Nat]
  BY <1>1 DEF NextGeneration
<1>4. PICK generation \in Nat : generation = generations'[s]
  BY <1>3
<1>5. /\ RecordsFit' /\ devices' \in [Serials -> DeviceRecords] /\ devices[s].kind = "none"
      /\ devices'[s].kind = "i2c" /\ \A t \in Serials : t # s => devices'[t] = devices[t]
      /\ EntriesGrow /\ EntriesFit' /\ legacySerial' \in Serials \cup {NoSerial}
  <2>1. CASE ShouldClaim(s)
    <3>1. /\ EntriesGrow /\ EntriesFit'
          /\ Len(entries') = Len(entries) + 1 /\ entries'[Len(entries) + 1].serial = s
      <4>1. /\ entries' = Append(entries, Entry(s, "i2c", NoSerial, generation, 1))
            /\ UNCHANGED <<settings, plugs>>
        BY <1>1, <1>2, <1>4, <2>1
      <4>2. /\ "i2c" \in {"usb", "i2c"} /\ NoSerial \in UsbIds \cup {NoSerial} /\ 1 \in Nat
        OBVIOUS
      <4> QED
        BY <1>3, <2>1, <4>1, <4>2, EntryAdded
    <3>2. PICK record : record = Record("claimed", "i2c", generation, Len(entries) + 1)
      OBVIOUS
    <3>3. /\ record \in DeviceRecords /\ record.kind = "i2c" /\ record.status = "claimed"
          /\ record.entry = Len(entries) + 1
      BY <3>2 DEF Record, DeviceRecords, Statuses
    <3>4. devices' = [devices EXCEPT ![s] = record]
      BY <1>1, <1>4, <2>1, <3>2
    <3>5. record.entry \in 1..Len(entries') /\ entries'[record.entry].serial = s
      BY <3>1, <3>3
    <3>6. /\ RecordsFit' /\ devices' \in [Serials -> DeviceRecords]
          /\ devices[s].kind = "none" /\ devices'[s] = record
          /\ \A t \in Serials : t # s => devices'[t] = devices[t]
      BY <1>1, <1>3, <3>1, <3>3, <3>4, <3>5, RecordPut
    <3> QED
      BY <1>1, <1>3, <2>1, <3>1, <3>3, <3>6
  <2>2. CASE ~ShouldClaim(s)
    <3>1. EntriesGrow /\ EntriesFit'
      BY <1>1, <1>2, <2>2, EntriesSame
    <3>2. PICK record : record = Record("filtered", "i2c", generation, 0)
      OBVIOUS
    <3>3. /\ record \in DeviceRecords /\ record.kind = "i2c" /\ record.status = "filtered"
      BY <3>2 DEF Record, DeviceRecords, Statuses
    <3>4. devices' = [devices EXCEPT ![s] = record]
      BY <1>1, <1>4, <2>2, <3>2
    <3>5. /\ RecordsFit' /\ devices' \in [Serials -> DeviceRecords]
          /\ devices[s].kind = "none" /\ devices'[s] = record
          /\ \A t \in Serials : t # s => devices'[t] = devices[t]
      BY <1>1, <1>3, <3>1, <3>3, <3>4, RecordPut
    <3> QED
      BY <1>1, <2>2, <3>1, <3>3, <3>5
  <2> QED
    BY <2>1, <2>2
<1>6. StateShape'
  BY <1>1, <1>2, <1>3, <1>5 DEF StateShape, EntriesGrow
<1>7. EndpointsKept'
  BY <1>1, <1>5 DEF RegInv, EndpointsKept
<1>8. LinksFit'
  BY <1>2, <1>3, <1>5, LinksKept
<1>9. CommandShape' /\ CommandsFit'
  BY <1>2, <1>5, CommandsSame
<1>10. UsbShape' /\ PlacesFit' /\ DiscovererFits' /\ OrderFits' /\ NoneMissed'
  BY <1>2, DiscoverySame
<1> QED
  BY <1>5, <1>6, <1>7, <1>8, <1>9, <1>10 DEF RegInv

\* A registration that fails, and the next round of them.
LEMMA RetriesKeeps ==
    ASSUME RegInv, RegistrationFails \/ Retries
    PROVE  RegInv'
<1>1. /\ attempts' \subseteq pending' /\ pending' = pending
      /\ UNCHANGED <<settings, usb, plugs, hotplug, discoverer, devices, serialById, generations,
                     legacySerial, entries, lost, httpCommands, ranOn>>
  BY RegTypes DEF RegistrationFails, Retries, usbVars, stateVars
<1>2. StateShape' /\ EndpointsKept'
  BY <1>1 DEF RegInv, StateShape, EndpointsKept
<1>3. EntriesGrow /\ EntriesFit' /\ LinksFit'
  BY <1>1, EntriesSame, LinksSame
<1>4. CommandShape' /\ CommandsFit' /\ RecordsFit'
  BY <1>1, <1>3, CommandsSame, RecordsSame
<1>5. UsbShape' /\ PlacesFit' /\ DiscovererFits' /\ OrderFits' /\ NoneMissed'
  BY <1>1, DiscoverySame
<1> QED
  BY <1>2, <1>3, <1>4, <1>5 DEF RegInv

\* A loss removes the registration it names, whose endpoint becomes pending.
LEMMA HandlesLostKeeps ==
    ASSUME RegInv, HandlesLost
    PROVE  RegInv'
<1> USE RegTypes
<1>1. /\ lost # <<>> /\ lost' = Tail(lost) /\ attempts' = attempts
      /\ UNCHANGED <<settings, usb, plugs, hotplug, discoverer, serialById, generations, entries,
                     httpCommands, ranOn>>
  BY DEF HandlesLost, usbVars
<1>2. PICK S : S = [serial : Serials, generation : Nat]
  OBVIOUS
<1>3. Head(lost) \in S /\ lost' \in Seq(S)
  BY <1>1, <1>2, QueueTail
<1>4. PICK s \in Serials : s = Head(lost).serial
  BY <1>2, <1>3
<1>5. EntriesGrow /\ EntriesFit'
  BY <1>1, EntriesSame
<1>6. CommandShape' /\ CommandsFit'
  BY <1>1, <1>5, CommandsSame
<1>7. UsbShape' /\ PlacesFit' /\ DiscovererFits' /\ OrderFits' /\ NoneMissed'
  BY <1>1, DiscoverySame
<1>8. CASE devices[s].kind = "i2c" /\ devices[s].generation = Head(lost).generation
  <2>1. /\ devices' = [devices EXCEPT ![s] = NoDevice] /\ pending' = pending \cup {s}
        /\ legacySerial' = IF legacySerial = s THEN NoSerial ELSE legacySerial
    BY <1>4, <1>8 DEF HandlesLost
  <2>2. /\ RecordsFit' /\ devices' \in [Serials -> DeviceRecords]
        /\ devices'[s].kind = "none"
        /\ \A t \in Serials : t # s => devices'[t] = devices[t]
    BY <1>1, <2>1, RecordGone
  <2>3. s \in I2cSerials
    BY <1>8 DEF RegInv, RecordsFit
  <2>4. StateShape'
    BY <1>1, <1>2, <1>3, <2>1, <2>2, <2>3 DEF StateShape
  <2>5. EndpointsKept'
    BY <2>1, <2>2 DEF RegInv, EndpointsKept
  <2>6. LinksFit'
    BY <1>1, <1>8, <2>2, LinksKept
  <2> QED
    BY <1>5, <1>6, <1>7, <2>2, <2>4, <2>5, <2>6 DEF RegInv
<1>9. CASE ~(devices[s].kind = "i2c" /\ devices[s].generation = Head(lost).generation)
  <2>1. UNCHANGED <<devices, legacySerial, pending>>
    BY <1>4, <1>9 DEF HandlesLost
  <2>2. StateShape' /\ EndpointsKept'
    BY <1>1, <1>2, <1>3, <2>1 DEF RegInv, StateShape, EndpointsKept
  <2>3. RecordsFit' /\ LinksFit'
    BY <1>1, <1>5, <2>1, RecordsSame, LinksSame
  <2> QED
    BY <1>5, <1>6, <1>7, <2>2, <2>3 DEF RegInv
<1> QED
  BY <1>8, <1>9

(***************************************************************************)
(* Hot-plug events                                                         *)
(***************************************************************************)
\* An event that is queued.
LEMMA EventQueued ==
    ASSUME RegInv, NEW event \in HotplugEvents, hotplug' = Append(hotplug, event)
    PROVE  /\ hotplug' \in Seq(HotplugEvents) /\ Len(hotplug') = Len(hotplug) + 1
           /\ \A j \in 1..Len(hotplug) :
                  /\ hotplug'[j] = hotplug[j]
                  /\ \A id : GoneAt(j, id)' <=> GoneAt(j, id)
                  /\ \A id, s : CameAt(j, id, s)' <=> CameAt(j, id, s)
           /\ \A j : j = Len(hotplug) + 1 =>
                  /\ hotplug'[j] = event
                  /\ \A id : GoneAt(j, id)' <=> (event.kind = "disconnected" /\ event.id = id)
                  /\ \A id, s : CameAt(j, id, s)' <=>
                         (event.kind = "connected" /\ event.id = id /\ event.serial = s)
<1>1. hotplug \in Seq(HotplugEvents) /\ Len(hotplug) \in Nat
  BY RegTypes
<1>2. /\ hotplug' \in Seq(HotplugEvents) /\ Len(hotplug') = Len(hotplug) + 1
      /\ hotplug'[Len(hotplug) + 1] = event
      /\ \A i \in 1..Len(hotplug) : hotplug'[i] = hotplug[i]
  BY <1>1, QueueAppend
<1> QED
  BY <1>1, <1>2 DEF GoneAt, CameAt

\* The oldest event, when it is taken.
LEMMA EventTaken ==
    ASSUME RegInv, hotplug # <<>>, hotplug' = Tail(hotplug)
    PROVE  /\ hotplug' \in Seq(HotplugEvents) /\ Len(hotplug') = Len(hotplug) - 1
           /\ Head(hotplug) = hotplug[1] /\ hotplug[1] \in HotplugEvents /\ 1 \in 1..Len(hotplug)
           /\ Len(hotplug) \in Nat
           /\ \A j \in 1..Len(hotplug') :
                  /\ j + 1 \in 2..Len(hotplug) /\ hotplug'[j] = hotplug[j + 1]
                  /\ \A id : GoneAt(j, id)' <=> GoneAt(j + 1, id)
                  /\ \A id, s : CameAt(j, id, s)' <=> CameAt(j + 1, id, s)
           /\ \A j \in 2..Len(hotplug) :
                  /\ j - 1 \in 1..Len(hotplug') /\ hotplug'[j - 1] = hotplug[j]
                  /\ \A id : GoneAt(j - 1, id)' <=> GoneAt(j, id)
                  /\ \A id, s : CameAt(j - 1, id, s)' <=> CameAt(j, id, s)
<1>1. hotplug \in Seq(HotplugEvents) /\ Len(hotplug) \in Nat
  BY RegTypes
<1>2. /\ Head(hotplug) = hotplug[1] /\ Head(hotplug) \in HotplugEvents /\ 1 \in 1..Len(hotplug)
      /\ hotplug' \in Seq(HotplugEvents) /\ Len(hotplug') = Len(hotplug) - 1
      /\ \A i \in 1..Len(hotplug') : i + 1 \in 1..Len(hotplug) /\ hotplug'[i] = hotplug[i + 1]
      /\ \A i \in 2..Len(hotplug) : i - 1 \in 1..Len(hotplug') /\ hotplug'[i - 1] = hotplug[i]
  BY <1>1, QueueTail
<1> QED
  BY <1>1, <1>2 DEF GoneAt, CameAt

\* The entries of the registry when devices come and go: a plug number keeps its serial.
LEMMA EntriesKept ==
    ASSUME RegInv, UNCHANGED <<settings, entries>>, Len(plugs') \in Nat, Len(plugs) <= Len(plugs'),
           \A i \in 1..Len(plugs) : plugs'[i] = plugs[i]
    PROVE  EntriesGrow /\ EntriesFit'
<1> USE RegTypes
<1>1. EntriesGrow
  BY DEF EntriesGrow
<1>2. ASSUME NEW i \in 1..Len(entries)
      PROVE  EntryFits(entries[i])'
  <2>1. EntryFits(entries[i])
    BY DEF RegInv, EntriesFit
  <2> QED
    BY <2>1, SMTT(30) DEF EntryFits, AllowsSerial, ShouldClaim
<1> QED
  BY <1>1, <1>2 DEF EntriesFit

\* Nothing changes but what is attached, the queue and the discovery task.
LEMMA StateSame ==
    ASSUME RegInv, UNCHANGED <<settings, devices, serialById, generations, legacySerial, entries,
                               pending, attempts, lost, httpCommands, ranOn>>,
           Len(plugs') \in Nat, Len(plugs) <= Len(plugs'),
           \A i \in 1..Len(plugs) : plugs'[i] = plugs[i]
    PROVE  /\ StateShape' /\ CommandShape' /\ EntriesFit' /\ RecordsFit' /\ CommandsFit'
           /\ EndpointsKept' /\ LinksFit'
<1>1. EntriesGrow /\ EntriesFit'
  BY EntriesKept
<1>2. CommandShape' /\ CommandsFit' /\ RecordsFit' /\ LinksFit'
  BY <1>1, CommandsSame, RecordsSame, LinksSame
<1>3. StateShape' /\ EndpointsKept'
  BY DEF RegInv, StateShape, EndpointsKept
<1> QED
  BY <1>1, <1>2, <1>3

\* A device is attached at an identifier that no event or candidate names.
LEMMA PlugInKeeps ==
    ASSUME RegInv, PlugIn
    PROVE  RegInv'
<1> USE RegTypes
<1>1. PICK id \in UsbIds, s \in Serials :
          /\ usb[id] = 0 /\ ~InUse(id) /\ ~Attached(s)
          /\ plugs' = Append(plugs, s)
          /\ usb' = [usb EXCEPT ![id] = Len(plugs')]
          /\ hotplug' = Event("connected", id, s)
  BY DEF PlugIn
<1>2. UNCHANGED <<settings, discoverer, devices, serialById, generations, legacySerial, entries,
                  pending, attempts, lost, httpCommands, ranOn>>
  BY DEF PlugIn, stateVars, i2cVars
<1>3. /\ plugs' \in Seq(Serials) /\ Len(plugs') = Len(plugs) + 1
      /\ plugs'[Len(plugs) + 1] = s /\ \A i \in 1..Len(plugs) : plugs'[i] = plugs[i]
  BY <1>1, QueueAppend
<1>4. /\ usb' \in [UsbIds -> 0..Len(plugs')] /\ usb'[id] = Len(plugs) + 1
      /\ \A x \in UsbIds : x # id => usb'[x] = usb[x]
  BY <1>1, <1>3
<1>5. /\ StateShape' /\ CommandShape' /\ EntriesFit' /\ RecordsFit' /\ CommandsFit'
      /\ EndpointsKept' /\ LinksFit'
  BY <1>2, <1>3, StateSame
<1>6. \A x \in UsbIds : \A t : /\ x # id => (Live(x, t)' <=> Live(x, t))
                               /\ x = id => (Live(x, t)' <=> t = s) /\ ~Live(x, t)
  BY <1>1, <1>3, <1>4 DEF Live
<1>7. \A x \in UsbIds : \A t : /\ Listed(x, t)' <=> Listed(x, t)
                               /\ Registering(x, t)' <=> Registering(x, t)
                               /\ Holds(x, t)' <=> Holds(x, t)
  BY <1>2 DEF Holds, Listed, Registering
<1>8. /\ \A j \in 1..Len(hotplug) : \A t : ~GoneAt(j, id) /\ ~CameAt(j, id, t)
      /\ \A t : ~Listed(id, t) /\ ~Registering(id, t)
      /\ \A candidate \in discoverer.todo : candidate.id # id
      /\ discoverer.pc = "register" => discoverer.candidate.id # id
  BY <1>1 DEF InUse, GoneAt, CameAt, Listed, Registering
<1>9. \A x, y \in UsbIds : usb'[x] # 0 /\ usb'[y] # 0 /\ plugs'[usb'[x]] = plugs'[usb'[y]] => x = y
  <2>1. \A x, y \in UsbIds : usb[x] # 0 /\ usb[y] # 0 /\ plugs[usb[x]] = plugs[usb[y]] => x = y
    BY DEF RegInv, PlacesFit
  <2>2. \A x \in UsbIds : usb[x] # 0 => plugs[usb[x]] # s
    BY <1>1 DEF Attached
  <2>3. \A x \in UsbIds : x # id /\ usb'[x] # 0 => plugs'[usb'[x]] = plugs[usb[x]]
    BY <1>3, <1>4, SMTT(30)
  <2>4. plugs'[usb'[id]] = s
    BY <1>3, <1>4
  <2>5. SUFFICES ASSUME NEW x \in UsbIds, NEW y \in UsbIds, usb'[x] # 0, usb'[y] # 0,
                        plugs'[usb'[x]] = plugs'[usb'[y]], x # id
                 PROVE  x = y
    BY <2>1, <2>2, <2>3, <2>4
  <2>6. usb[x] # 0 /\ plugs'[usb'[x]] = plugs[usb[x]]
    BY <1>4, <2>3, <2>5
  <2>7. y # id
    BY <2>2, <2>4, <2>5, <2>6
  <2>8. usb[y] # 0 /\ plugs'[usb'[y]] = plugs[usb[y]]
    BY <1>4, <2>3, <2>5, <2>7
  <2> QED
    BY <2>1, <2>5, <2>6, <2>8
<1>10. \A x \in UsbIds, t \in Serials : serialById[x] = t => x # id /\ Placed(x, t)
  <2>1. \A x \in UsbIds, t \in Serials : serialById[x] = t => Placed(x, t)
    BY DEF RegInv, PlacesFit
  <2>2. \A t : ~Placed(id, t)
    BY <1>6, <1>8 DEF Placed
  <2> QED
    BY <2>1, <2>2
<1>11. CASE ~Watching
  <2>1. /\ hotplug' = hotplug /\ hotplug = <<>> /\ discoverer.todo = {}
        /\ discoverer.pc \in {"start", "stopped"}
        /\ \A x \in UsbIds : serialById[x] = NoSerial
    BY <1>1, <1>11 DEF Event, Watching, RegInv, DiscovererFits, Discoverers
  <2>2. Len(hotplug') = 0 /\ 1..Len(hotplug') = {}
    BY <2>1
  <2>3. UsbShape'
    BY <1>2, <1>3, <1>4, <2>1 DEF RegInv, UsbShape
  <2>4. PlacesFit' /\ DiscovererFits' /\ NoneMissed'
    BY <1>2, <1>9, <2>1, <2>2 DEF PlacesFit, DiscovererFits, NoneMissed
  <2>5. OrderFits'
    BY <1>2, <2>1, <2>2 DEF OrderFits, Listed, Registering
  <2> QED
    BY <1>5, <2>3, <2>4, <2>5 DEF RegInv
<1>12. CASE Watching
  <2>1. PICK event \in HotplugEvents : event = [kind |-> "connected", id |-> id, serial |-> s]
    BY DEF HotplugEvents
  <2>2. hotplug' = Append(hotplug, event)
    BY <1>1, <1>12, <2>1 DEF Event
  <2>3. /\ hotplug' \in Seq(HotplugEvents) /\ Len(hotplug') = Len(hotplug) + 1
        /\ \A j \in 1..Len(hotplug) :
               /\ hotplug'[j] = hotplug[j]
               /\ \A x : GoneAt(j, x)' <=> GoneAt(j, x)
               /\ \A x, t : CameAt(j, x, t)' <=> CameAt(j, x, t)
        /\ \A j : j = Len(hotplug) + 1 =>
               /\ hotplug'[j] = event
               /\ \A x : ~GoneAt(j, x)'
               /\ \A x, t : CameAt(j, x, t)' <=> (x = id /\ t = s)
    <3>1. /\ event.kind = "connected" /\ event.id = id /\ event.serial = s
      BY <2>1
    <3>2. /\ hotplug' \in Seq(HotplugEvents) /\ Len(hotplug') = Len(hotplug) + 1
          /\ \A j \in 1..Len(hotplug) :
                 /\ hotplug'[j] = hotplug[j]
                 /\ \A x : GoneAt(j, x)' <=> GoneAt(j, x)
                 /\ \A x, t : CameAt(j, x, t)' <=> CameAt(j, x, t)
          /\ \A j : j = Len(hotplug) + 1 =>
                 /\ hotplug'[j] = event
                 /\ \A x : GoneAt(j, x)' <=> (event.kind = "disconnected" /\ event.id = x)
                 /\ \A x, t : CameAt(j, x, t)' <=>
                        (event.kind = "connected" /\ event.id = x /\ event.serial = t)
      BY <2>2, EventQueued
    <3> QED
      BY <3>1, <3>2
  <2>4. UsbShape'
    BY <1>2, <1>3, <1>4, <2>3 DEF RegInv, UsbShape
  <2>5. \A x \in UsbIds : \A t : x # id /\ Placed(x, t) => Placed(x, t)'
    BY <1>6, <2>3 DEF Placed
  <2>6. PlacesFit'
    <3>1. \A x \in UsbIds, t \in Serials : serialById'[x] = t => Placed(x, t)'
      BY <1>2, <1>10, <2>5
    <3>2. \A candidate \in discoverer'.todo : Placed(candidate.id, candidate.serial)'
      <4>1. SUFFICES ASSUME NEW candidate \in discoverer.todo
                     PROVE  Placed(candidate.id, candidate.serial)'
        BY <1>2
      <4>2. candidate.id \in UsbIds /\ Placed(candidate.id, candidate.serial)
        BY DEF RegInv, PlacesFit, Discoverers, Candidates
      <4> QED
        BY <1>8, <2>5, <4>2
    <3>3. ASSUME NEW i \in 1..Len(hotplug'), NEW x \in UsbIds, NEW t \in Serials, CameAt(i, x, t)'
          PROVE  Live(x, t)' \/ \E j \in (i + 1)..Len(hotplug') : GoneAt(j, x)'
      <4>1. CASE i \in 1..Len(hotplug)
        <5>1. CameAt(i, x, t) /\ x # id
          BY <1>8, <2>3, <3>3, <4>1
        <5>2. Live(x, t) \/ \E j \in (i + 1)..Len(hotplug) : GoneAt(j, x)
          BY <4>1, <5>1 DEF RegInv, PlacesFit
        <5> QED
          BY <1>6, <2>3, <4>1, <5>1, <5>2, SMTT(30)
      <4>2. CASE i = Len(hotplug) + 1
        BY <1>6, <2>3, <3>3, <4>2
      <4> QED
        BY <2>3, <4>1, <4>2
    <3>4. ASSUME NEW j \in 1..Len(hotplug'), NEW x \in UsbIds, GoneAt(j, x)'
          PROVE  usb'[x] = 0
      <4>1. j \in 1..Len(hotplug) /\ GoneAt(j, x)
        BY <2>3, <3>4
      <4>2. x # id /\ usb[x] = 0
        BY <1>8, <4>1 DEF RegInv, PlacesFit
      <4> QED
        BY <1>4, <4>2
    <3>5. ASSUME NEW i \in 1..Len(hotplug'), hotplug'[i].kind = "connected"
          PROVE  hotplug'[i].serial \in Serials
      <4>1. CASE i \in 1..Len(hotplug)
        <5>1. hotplug'[i] = hotplug[i]
          BY <2>3, <4>1
        <5> QED
          BY <3>5, <4>1, <5>1 DEF RegInv, PlacesFit
      <4>2. CASE i = Len(hotplug) + 1
        <5>1. hotplug'[i] = event /\ event.serial = s
          BY <2>1, <2>3, <4>2
        <5> QED
          BY <5>1
      <4> QED
        BY <2>3, <4>1, <4>2
    <3> QED
      BY <1>9, <3>1, <3>2, <3>3, <3>4, <3>5 DEF PlacesFit
  <2>7. DiscovererFits'
    <3>1. DiscovererFits /\ discoverer.pc \notin {"start", "stopped"}
      BY <1>12 DEF RegInv, Watching
    <3>2. discoverer.pc = "register" => Placed(discoverer.candidate.id, discoverer.candidate.serial)'
      <4>1. SUFFICES ASSUME discoverer.pc = "register"
                     PROVE  Placed(discoverer.candidate.id, discoverer.candidate.serial)'
        OBVIOUS
      <4>2. PICK x \in UsbIds, t \in Serials :
                x = discoverer.candidate.id /\ t = discoverer.candidate.serial
        BY <3>1, <4>1 DEF DiscovererFits, Candidates
      <4>3. Placed(x, t)'
        BY <1>8, <2>5, <3>1, <4>1, <4>2 DEF DiscovererFits
      <4> QED
        BY <1>2, <4>2, <4>3
    <3>3. discoverer.pc = "register" =>
              /\ ShouldClaim(discoverer.candidate.serial)'
              /\ discoverer.handle # 0 =>
                     /\ discoverer.handle \in 1..Len(plugs')
                     /\ plugs'[discoverer.handle] = discoverer.candidate.serial
      BY <1>2, <1>3, <3>1, SMTT(30) DEF DiscovererFits, ShouldClaim, AllowsSerial
    <3> QED
      BY <1>2, <3>1, <3>2, <3>3 DEF DiscovererFits
  <2>8. OrderFits'
    <3>1. ASSUME NEW x \in UsbIds, NEW y \in UsbIds, NEW t \in Serials,
                 Listed(x, t)' \/ Registering(x, t)', Live(x, t)', Holds(y, t)'
          PROVE  y = x
      <4>1. /\ Listed(x, t) \/ Registering(x, t)
            /\ Holds(y, t) /\ x # id
        BY <1>7, <1>8, <3>1
      <4>2. Live(x, t)
        BY <1>6, <3>1, <4>1
      <4> QED
        BY <4>1, <4>2 DEF RegInv, OrderFits
    <3>2. ASSUME NEW i \in 1..Len(hotplug'), NEW x \in UsbIds, NEW y \in UsbIds, NEW t \in Serials,
                 CameAt(i, x, t)', Live(x, t)', y # x
          PROVE  /\ Holds(y, t)' => \E j \in 1..(i - 1) : GoneAt(j, y)'
                 /\ \A k \in 1..(i - 1) : CameAt(k, y, t)' =>
                        \E j \in (k + 1)..(i - 1) : GoneAt(j, y)'
      <4>1. CASE i \in 1..Len(hotplug)
        <5>1. CameAt(i, x, t) /\ x # id
          BY <1>8, <2>3, <3>2, <4>1
        <5>2. Live(x, t)
          BY <1>6, <3>2, <5>1
        <5>3. /\ Holds(y, t) => \E j \in 1..(i - 1) : GoneAt(j, y)
              /\ \A k \in 1..(i - 1) : CameAt(k, y, t) => \E j \in (k + 1)..(i - 1) : GoneAt(j, y)
          BY <3>2, <4>1, <5>1, <5>2 DEF RegInv, OrderFits
        <5>4. \A k \in 1..(i - 1) : k \in 1..Len(hotplug) /\ \A j \in (k + 1)..(i - 1) : j \in 1..Len(hotplug)
          BY <4>1, SMTT(30)
        <5> QED
          BY <1>7, <2>3, <5>3, <5>4
      <4>2. CASE i = Len(hotplug) + 1
        <5>1. x = id /\ t = s /\ i - 1 = Len(hotplug)
          BY <2>3, <3>2, <4>2
        <5>2. ~Live(y, s)
          BY <1>1 DEF Live, Attached
        <5>3. Holds(y, s) => \E j \in 1..Len(hotplug) : GoneAt(j, y)
          <6>1. SUFFICES ASSUME Holds(y, s)
                         PROVE  Placed(y, s)
            BY <5>2 DEF Placed
          <6>2. CASE serialById[y] = s
            BY <6>2 DEF RegInv, PlacesFit
          <6>3. CASE Listed(y, s)
            BY <6>3 DEF Listed, RegInv, PlacesFit
          <6>4. CASE Registering(y, s)
            BY <6>4 DEF Registering, RegInv, DiscovererFits
          <6> QED
            BY <6>1, <6>2, <6>3, <6>4 DEF Holds
        <5>4. \A k \in 1..Len(hotplug) : CameAt(k, y, s) =>
                  \E j \in (k + 1)..Len(hotplug) : GoneAt(j, y)
          BY <5>2 DEF RegInv, PlacesFit
        <5>5. Holds(y, t)' => \E j \in 1..(i - 1) : GoneAt(j, y)'
          BY <1>7, <2>3, <5>1, <5>3
        <5>6. \A k \in 1..(i - 1) : CameAt(k, y, t)' => \E j \in (k + 1)..(i - 1) : GoneAt(j, y)'
          <6>1. SUFFICES ASSUME NEW k \in 1..Len(hotplug), CameAt(k, y, s)'
                         PROVE  \E j \in (k + 1)..Len(hotplug) : GoneAt(j, y)'
            BY <5>1
          <6>2. PICK j \in (k + 1)..Len(hotplug) : GoneAt(j, y)
            BY <2>3, <5>4, <6>1
          <6>3. j \in 1..Len(hotplug)
            BY <6>1, <6>2
          <6>4. GoneAt(j, y)'
            BY <2>3, <6>2, <6>3
          <6> QED
            BY <6>4
        <5> QED
          BY <5>5, <5>6
      <4> QED
        BY <2>3, <4>1, <4>2
    <3> QED
      BY <3>1, <3>2 DEF OrderFits
  <2>9. NoneMissed'
    <3>1. SUFFICES ASSUME discoverer.pc \in {"events", "register"}, discoverer.complete,
                          NEW x \in UsbIds, NEW t \in Serials, Live(x, t)', t \notin I2cSerials
                   PROVE  Holds(x, t)' \/ \E i \in 1..Len(hotplug') : CameAt(i, x, t)'
      BY <1>2 DEF NoneMissed
    <3>2. CASE x = id
      <4>1. Len(hotplug) + 1 \in 1..Len(hotplug')
        BY <2>3
      <4> QED
        BY <1>6, <2>3, <3>1, <3>2, <4>1
    <3>3. CASE x # id
      <4>1. Live(x, t)
        BY <1>6, <3>1, <3>3
      <4>2. Holds(x, t) \/ \E i \in 1..Len(hotplug) : CameAt(i, x, t)
        BY <3>1, <4>1 DEF RegInv, NoneMissed
      <4> QED
        BY <1>7, <2>3, <4>2
    <3> QED
      BY <3>2, <3>3
  <2> QED
    BY <1>5, <2>4, <2>6, <2>7, <2>8, <2>9 DEF RegInv
<1> QED
  BY <1>11, <1>12

\* A device is pulled out: whoever knows of it finds its end in the queue.
LEMMA PullOutKeeps ==
    ASSUME RegInv, PullOut
    PROVE  RegInv'
<1> USE RegTypes
<1>1. PICK id \in UsbIds :
          /\ usb[id] # 0 /\ usb' = [usb EXCEPT ![id] = 0]
          /\ hotplug' = Event("disconnected", id, NoSerial)
  BY DEF PullOut
<1>2. UNCHANGED <<settings, plugs, discoverer, devices, serialById, generations, legacySerial,
                  entries, pending, attempts, lost, httpCommands, ranOn>>
  BY DEF PullOut, stateVars, i2cVars
<1>3. /\ StateShape' /\ CommandShape' /\ EntriesFit' /\ RecordsFit' /\ CommandsFit'
      /\ EndpointsKept' /\ LinksFit'
  BY <1>2, StateSame
<1>4. /\ usb' \in [UsbIds -> 0..Len(plugs)] /\ usb'[id] = 0
      /\ \A x \in UsbIds : x # id => usb'[x] = usb[x]
  BY <1>1
<1>5. \A x \in UsbIds : \A t : Live(x, t)' <=> (x # id /\ Live(x, t))
  BY <1>2, <1>4 DEF Live
<1>6. \A x \in UsbIds : \A t : /\ Listed(x, t)' <=> Listed(x, t)
                               /\ Registering(x, t)' <=> Registering(x, t)
                               /\ Holds(x, t)' <=> Holds(x, t)
  BY <1>2 DEF Holds, Listed, Registering
<1>7. \A x, y \in UsbIds : usb'[x] # 0 /\ usb'[y] # 0 /\ plugs'[usb'[x]] = plugs'[usb'[y]] => x = y
  BY <1>2, <1>4, ZenonT(30) DEF RegInv, PlacesFit
<1>8. CASE ~Watching
  <2>1. /\ hotplug' = hotplug /\ hotplug = <<>> /\ discoverer.todo = {}
        /\ discoverer.pc \in {"start", "stopped"}
        /\ \A x \in UsbIds : serialById[x] = NoSerial
    BY <1>1, <1>8 DEF Event, Watching, RegInv, DiscovererFits, Discoverers
  <2>2. Len(hotplug') = 0 /\ 1..Len(hotplug') = {}
    BY <2>1
  <2>3. UsbShape'
    BY <1>2, <1>4, <2>1 DEF RegInv, UsbShape
  <2>4. PlacesFit' /\ DiscovererFits' /\ NoneMissed'
    BY <1>2, <1>7, <2>1, <2>2 DEF PlacesFit, DiscovererFits, NoneMissed
  <2>5. OrderFits'
    BY <1>2, <2>1, <2>2 DEF OrderFits, Listed, Registering
  <2> QED
    BY <1>3, <2>3, <2>4, <2>5 DEF RegInv
<1>9. CASE Watching
  <2>1. PICK event \in HotplugEvents :
            event = [kind |-> "disconnected", id |-> id, serial |-> NoSerial]
    BY DEF HotplugEvents
  <2>2. hotplug' = Append(hotplug, event)
    BY <1>1, <1>9, <2>1 DEF Event
  <2>3. /\ hotplug' \in Seq(HotplugEvents) /\ Len(hotplug') = Len(hotplug) + 1
        /\ \A j \in 1..Len(hotplug) :
               /\ hotplug'[j] = hotplug[j]
               /\ \A x : GoneAt(j, x)' <=> GoneAt(j, x)
               /\ \A x, t : CameAt(j, x, t)' <=> CameAt(j, x, t)
        /\ \A j : j = Len(hotplug) + 1 =>
               /\ hotplug'[j] = event
               /\ \A x : GoneAt(j, x)' <=> x = id
               /\ \A x, t : ~CameAt(j, x, t)'
    <3>1. /\ event.kind = "disconnected" /\ event.id = id
      BY <2>1
    <3>2. /\ hotplug' \in Seq(HotplugEvents) /\ Len(hotplug') = Len(hotplug) + 1
          /\ \A j \in 1..Len(hotplug) :
                 /\ hotplug'[j] = hotplug[j]
                 /\ \A x : GoneAt(j, x)' <=> GoneAt(j, x)
                 /\ \A x, t : CameAt(j, x, t)' <=> CameAt(j, x, t)
          /\ \A j : j = Len(hotplug) + 1 =>
                 /\ hotplug'[j] = event
                 /\ \A x : GoneAt(j, x)' <=> (event.kind = "disconnected" /\ event.id = x)
                 /\ \A x, t : CameAt(j, x, t)' <=>
                        (event.kind = "connected" /\ event.id = x /\ event.serial = t)
      BY <2>2, EventQueued
    <3> QED
      BY <3>1, <3>2
  <2>4. UsbShape'
    BY <1>2, <1>4, <2>3 DEF RegInv, UsbShape
  <2>5. PICK n \in 1..Len(hotplug') : n = Len(hotplug) + 1 /\ GoneAt(n, id)'
    BY <2>3
  <2>6. \A x \in UsbIds : \A t : Placed(x, t) => Placed(x, t)'
    <3>1. SUFFICES ASSUME NEW x \in UsbIds, NEW t, Placed(x, t)
                   PROVE  Live(x, t)' \/ \E j \in 1..Len(hotplug') : GoneAt(j, x)'
      BY DEF Placed
    <3>2. CASE Live(x, t)
      BY <1>5, <2>5, <3>2
    <3>3. CASE \E j \in 1..Len(hotplug) : GoneAt(j, x)
      <4>1. PICK j \in 1..Len(hotplug) : GoneAt(j, x)
        BY <3>3
      <4>2. j \in 1..Len(hotplug') /\ GoneAt(j, x)'
        BY <2>3, <4>1
      <4> QED
        BY <4>2
    <3> QED
      BY <3>1, <3>2, <3>3 DEF Placed
  <2>7. PlacesFit'
    <3>1. \A x \in UsbIds, t \in Serials : serialById'[x] = t => Placed(x, t)'
      BY <1>2, <2>6 DEF RegInv, PlacesFit
    <3>2. \A candidate \in discoverer'.todo : Placed(candidate.id, candidate.serial)'
      <4>1. SUFFICES ASSUME NEW candidate \in discoverer.todo
                     PROVE  Placed(candidate.id, candidate.serial)'
        BY <1>2
      <4>2. candidate.id \in UsbIds /\ Placed(candidate.id, candidate.serial)
        BY DEF RegInv, PlacesFit, Discoverers, Candidates
      <4> QED
        BY <2>6, <4>2
    <3>3. ASSUME NEW i \in 1..Len(hotplug'), NEW x \in UsbIds, NEW t \in Serials, CameAt(i, x, t)'
          PROVE  Live(x, t)' \/ \E j \in (i + 1)..Len(hotplug') : GoneAt(j, x)'
      <4>1. i \in 1..Len(hotplug) /\ CameAt(i, x, t) /\ n \in (i + 1)..Len(hotplug')
        BY <2>3, <2>5, <3>3, SMTT(30)
      <4>2. CASE Live(x, t)
        BY <1>5, <2>5, <4>1, <4>2
      <4>3. CASE \E j \in (i + 1)..Len(hotplug) : GoneAt(j, x)
        <5>1. PICK j \in (i + 1)..Len(hotplug) : GoneAt(j, x)
          BY <4>3
        <5>2. j \in 1..Len(hotplug) /\ j \in (i + 1)..Len(hotplug')
          BY <2>3, <4>1
        <5> QED
          BY <2>3, <5>1, <5>2
      <4> QED
        BY <4>1, <4>2, <4>3 DEF RegInv, PlacesFit
    <3>4. ASSUME NEW j \in 1..Len(hotplug'), NEW x \in UsbIds, GoneAt(j, x)'
          PROVE  usb'[x] = 0
      <4>1. x = id \/ (j \in 1..Len(hotplug) /\ GoneAt(j, x))
        <5>1. j \in 1..Len(hotplug) \/ j = Len(hotplug) + 1
          BY <2>3
        <5>2. CASE j \in 1..Len(hotplug)
          BY <2>3, <3>4, <5>2
        <5>3. CASE j = Len(hotplug) + 1
          BY <2>3, <3>4, <5>3
        <5> QED
          BY <5>1, <5>2, <5>3
      <4>2. x = id \/ usb[x] = 0
        BY <4>1 DEF RegInv, PlacesFit
      <4> QED
        BY <1>4, <4>2
    <3>5. \A i \in 1..Len(hotplug') : hotplug'[i].kind = "connected" => hotplug'[i].serial \in Serials
      <4>1. event.kind # "connected"
        BY <2>1
      <4> QED
        BY <2>3, <4>1 DEF RegInv, PlacesFit
    <3> QED
      BY <1>7, <3>1, <3>2, <3>3, <3>4, <3>5 DEF PlacesFit
  <2>8. DiscovererFits'
    <3>1. DiscovererFits /\ discoverer.pc \notin {"start", "stopped"}
      BY <1>9 DEF RegInv, Watching
    <3>2. discoverer.pc = "register" => Placed(discoverer.candidate.id, discoverer.candidate.serial)'
      <4>1. SUFFICES ASSUME discoverer.pc = "register"
                     PROVE  Placed(discoverer.candidate.id, discoverer.candidate.serial)'
        OBVIOUS
      <4>2. PICK x \in UsbIds, t \in Serials :
                x = discoverer.candidate.id /\ t = discoverer.candidate.serial
        BY <3>1, <4>1 DEF DiscovererFits, Candidates
      <4>3. Placed(x, t)'
        BY <2>6, <3>1, <4>1, <4>2 DEF DiscovererFits
      <4> QED
        BY <1>2, <4>2, <4>3
    <3>3. discoverer.pc = "register" =>
              /\ ShouldClaim(discoverer.candidate.serial)'
              /\ discoverer.handle # 0 =>
                     /\ discoverer.handle \in 1..Len(plugs')
                     /\ plugs'[discoverer.handle] = discoverer.candidate.serial
      BY <1>2, <3>1 DEF DiscovererFits, ShouldClaim, AllowsSerial
    <3> QED
      BY <1>2, <3>1, <3>2, <3>3 DEF DiscovererFits
  <2>9. OrderFits'
    <3>1. ASSUME NEW x \in UsbIds, NEW y \in UsbIds, NEW t \in Serials,
                 Listed(x, t)' \/ Registering(x, t)', Live(x, t)', Holds(y, t)'
          PROVE  y = x
      <4>1. /\ Listed(x, t) \/ Registering(x, t)
            /\ Holds(y, t) /\ Live(x, t)
        BY <1>5, <1>6, <3>1
      <4> QED
        BY <4>1 DEF RegInv, OrderFits
    <3>2. ASSUME NEW i \in 1..Len(hotplug'), NEW x \in UsbIds, NEW y \in UsbIds, NEW t \in Serials,
                 CameAt(i, x, t)', Live(x, t)', y # x
          PROVE  /\ Holds(y, t)' => \E j \in 1..(i - 1) : GoneAt(j, y)'
                 /\ \A k \in 1..(i - 1) : CameAt(k, y, t)' =>
                        \E j \in (k + 1)..(i - 1) : GoneAt(j, y)'
      <4>1. i \in 1..Len(hotplug) /\ CameAt(i, x, t) /\ Live(x, t)
        BY <1>5, <2>3, <3>2
      <4>2. /\ Holds(y, t) => \E j \in 1..(i - 1) : GoneAt(j, y)
            /\ \A k \in 1..(i - 1) : CameAt(k, y, t) => \E j \in (k + 1)..(i - 1) : GoneAt(j, y)
        BY <3>2, <4>1 DEF RegInv, OrderFits
      <4>3. \A k \in 1..(i - 1) : k \in 1..Len(hotplug) /\ \A j \in (k + 1)..(i - 1) : j \in 1..Len(hotplug)
        BY <4>1, SMTT(30)
      <4> QED
        BY <1>6, <2>3, <4>2, <4>3
    <3> QED
      BY <3>1, <3>2 DEF OrderFits
  <2>10. NoneMissed'
    <3>1. SUFFICES ASSUME discoverer.pc \in {"events", "register"}, discoverer.complete,
                          NEW x \in UsbIds, NEW t \in Serials, Live(x, t)', t \notin I2cSerials
                   PROVE  Holds(x, t)' \/ \E i \in 1..Len(hotplug') : CameAt(i, x, t)'
      BY <1>2 DEF NoneMissed
    <3>2. Live(x, t)
      BY <1>5, <3>1
    <3>3. Holds(x, t) \/ \E i \in 1..Len(hotplug) : CameAt(i, x, t)
      BY <3>1, <3>2 DEF RegInv, NoneMissed
    <3> QED
      BY <1>6, <2>3, <3>3
  <2> QED
    BY <1>3, <2>4, <2>7, <2>8, <2>9, <2>10 DEF RegInv
<1> QED
  BY <1>8, <1>9

(***************************************************************************)
(* The discovery task                                                      *)
(***************************************************************************)
\* The watch starts, before anything is known or queued, or fails.
LEMMA WatchStartsKeeps ==
    ASSUME RegInv, WatchStarts
    PROVE  RegInv'
<1> USE RegTypes
<1>1. PICK pc \in {"list", "stopped"} : discoverer' = [discoverer EXCEPT !.pc = pc]
  BY DEF WatchStarts
<1>2. /\ discoverer.pc = "start"
      /\ UNCHANGED <<settings, usb, plugs, hotplug, devices, serialById, generations, legacySerial,
                     entries, pending, attempts, lost, httpCommands, ranOn>>
  BY DEF WatchStarts, usbVars, stateVars, i2cVars
<1>3. /\ discoverer' \in Discoverers /\ discoverer'.pc = pc /\ discoverer'.todo = discoverer.todo
  BY <1>1 DEF Discoverers
<1>4. /\ StateShape' /\ CommandShape' /\ EntriesFit' /\ RecordsFit' /\ CommandsFit'
      /\ EndpointsKept' /\ LinksFit'
  BY <1>2, StateSame
<1>5. /\ hotplug = <<>> /\ discoverer.todo = {} /\ \A x \in UsbIds : serialById[x] = NoSerial
  BY <1>2 DEF RegInv, DiscovererFits
<1>6. Len(hotplug') = 0 /\ 1..Len(hotplug') = {}
  BY <1>2, <1>5
<1>7. UsbShape'
  BY <1>2, <1>3 DEF RegInv, UsbShape
<1>8. PlacesFit'
  BY <1>2, <1>3, <1>5, <1>6 DEF RegInv, PlacesFit
<1>9. DiscovererFits' /\ NoneMissed'
  BY <1>2, <1>3, <1>5 DEF DiscovererFits, NoneMissed
<1>10. OrderFits'
  BY <1>2, <1>3, <1>5, <1>6 DEF OrderFits, Listed, Registering
<1> QED
  BY <1>4, <1>7, <1>8, <1>9, <1>10 DEF RegInv

\* What the discovery task knows of a device is there, or its end is queued.
LEMMA HoldsPlaced ==
    ASSUME RegInv, NEW x \in UsbIds, NEW t \in Serials, Holds(x, t)
    PROVE  Placed(x, t)
<1>1. CASE serialById[x] = t
  BY <1>1 DEF RegInv, PlacesFit
<1>2. CASE Listed(x, t)
  BY <1>2 DEF Listed, RegInv, PlacesFit
<1>3. CASE Registering(x, t)
  BY <1>3 DEF Registering, RegInv, DiscovererFits
<1> QED
  BY <1>1, <1>2, <1>3 DEF Holds

\* The list holds what is attached at that moment; later events are in the queue.
LEMMA ListsDevicesKeeps ==
    ASSUME RegInv, ListsDevices
    PROVE  RegInv'
<1> USE RegTypes
<1> DEFINE attached == {[id |-> id, serial |-> plugs[usb[id]]] : id \in {u \in UsbIds : usb[u] # 0}}
<1>1. PICK complete \in BOOLEAN :
          discoverer' = [discoverer EXCEPT !.pc = "events", !.complete = complete,
                                           !.todo = IF complete THEN attached ELSE {}]
  BY DEF ListsDevices
<1>2. /\ discoverer.pc = "list"
      /\ UNCHANGED <<settings, usb, plugs, hotplug, devices, serialById, generations, legacySerial,
                     entries, pending, attempts, lost, httpCommands, ranOn>>
  BY DEF ListsDevices, usbVars, stateVars, i2cVars
<1>3. attached \subseteq Candidates
  BY DEF Candidates
<1>4. /\ discoverer' \in Discoverers /\ discoverer'.pc = "events"
      /\ discoverer'.todo = (IF complete THEN attached ELSE {})
      /\ discoverer'.complete = complete
  <2>1. (IF complete THEN attached ELSE {}) \in SUBSET Candidates
    BY <1>3
  <2> QED
    BY <1>1, <2>1 DEF Discoverers
<1>5. /\ StateShape' /\ CommandShape' /\ EntriesFit' /\ RecordsFit' /\ CommandsFit'
      /\ EndpointsKept' /\ LinksFit'
  BY <1>2, StateSame
<1>6. /\ discoverer.todo = {} /\ \A x \in UsbIds : serialById[x] = NoSerial
  BY <1>2 DEF RegInv, DiscovererFits
<1>7. \A candidate \in attached : candidate.id \in UsbIds /\ Live(candidate.id, candidate.serial)
  <2>1. SUFFICES ASSUME NEW x \in {u \in UsbIds : usb[u] # 0}
                 PROVE  x \in UsbIds /\ Live(x, plugs[usb[x]])
    OBVIOUS
  <2> QED
    BY DEF Live
<1>8. \A x \in UsbIds, t \in Serials : Live(x, t) => [id |-> x, serial |-> t] \in attached
  <2>1. SUFFICES ASSUME NEW x \in UsbIds, NEW t \in Serials, Live(x, t)
                 PROVE  [id |-> x, serial |-> t] \in attached
    OBVIOUS
  <2>2. x \in {u \in UsbIds : usb[u] # 0} /\ t = plugs[usb[x]]
    BY <2>1 DEF Live
  <2> QED
    BY <2>2
<1> HIDE DEF attached
<1>9. \A x, t : ~Registering(x, t)'
  BY <1>4 DEF Registering
<1>10. \A x, t : Listed(x, t)' => Live(x, t)
  BY <1>4, <1>7 DEF Listed
<1>11. complete => \A x \in UsbIds, t \in Serials : Live(x, t) => Listed(x, t)'
  <2>1. SUFFICES ASSUME complete, NEW x \in UsbIds, NEW t \in Serials, Live(x, t)
                 PROVE  Listed(x, t)'
    OBVIOUS
  <2>2. PICK candidate : candidate = [id |-> x, serial |-> t]
    OBVIOUS
  <2>3. candidate \in discoverer'.todo /\ candidate.id = x /\ candidate.serial = t
    BY <1>4, <1>8, <2>1, <2>2
  <2> QED
    BY <2>3 DEF Listed
<1>12. \A x \in UsbIds, t \in Serials : Holds(x, t)' => Live(x, t)
  BY <1>2, <1>6, <1>9, <1>10 DEF Holds
<1>13. \A x, y \in UsbIds, t \in Serials : Live(x, t) /\ Live(y, t) => x = y
  BY DEF Live, RegInv, PlacesFit
<1>14. /\ \A x, t : Live(x, t)' <=> Live(x, t)
       /\ \A j, x : GoneAt(j, x)' <=> GoneAt(j, x)
       /\ \A j, x, t : CameAt(j, x, t)' <=> CameAt(j, x, t)
  BY <1>2 DEF Live, GoneAt, CameAt
<1>15. UsbShape'
  BY <1>2, <1>4 DEF RegInv, UsbShape
<1>16. PlacesFit'
  <2>1. \A candidate \in discoverer'.todo : Placed(candidate.id, candidate.serial)'
    BY <1>4, <1>7, <1>14 DEF Placed
  <2>2. \A x \in UsbIds, t \in Serials : serialById'[x] # t
    BY <1>2, <1>6
  <2> QED
    BY <1>2, <1>14, <2>1, <2>2 DEF RegInv, PlacesFit
<1>17. DiscovererFits'
  BY <1>4 DEF DiscovererFits
<1>18. OrderFits'
  <2>1. \A x, y \in UsbIds, t \in Serials : Live(x, t) /\ Holds(y, t)' => y = x
    BY <1>12, <1>13
  <2>2. \A i \in 1..Len(hotplug), x, y \in UsbIds, t \in Serials :
            CameAt(i, x, t) /\ Live(x, t) /\ y # x =>
                \A k \in 1..(i - 1) : CameAt(k, y, t) => \E j \in (k + 1)..(i - 1) : GoneAt(j, y)
    BY DEF RegInv, OrderFits
  <2> QED
    BY <1>2, <1>14, <2>1, <2>2, SMTT(30) DEF OrderFits
<1>19. NoneMissed'
  BY <1>4, <1>11, <1>14 DEF NoneMissed, Holds
<1> QED
  BY <1>5, <1>15, <1>16, <1>17, <1>18, <1>19 DEF RegInv

\* register links a serial without a record to its identifier, and leaves one with a
\* record alone.
LEMMA RegisterStep ==
    ASSUME RegInv, EntriesGrow, NEW id \in UsbIds, NEW s \in Serials, serialById[id] = NoSerial,
           NEW record \in DeviceRecords, record.kind = "usb", record.status # "none",
           record.status = "claimed" /\ ~Taken(s) =>
               record.entry \in 1..Len(entries') /\ entries'[record.entry].serial = s,
           Register(id, s, record), pending' = pending
    PROVE  /\ RecordsFit' /\ LinksFit' /\ EndpointsKept'
           /\ devices' \in [Serials -> DeviceRecords]
           /\ serialById' \in [UsbIds -> Serials \cup {NoSerial}]
           /\ legacySerial' \in Serials \cup {NoSerial}
           /\ IF Taken(s) THEN serialById' = serialById
                          ELSE serialById' = [serialById EXCEPT ![id] = s]
<1> USE RegTypes
<1>1. CASE Taken(s)
  <2>1. UNCHANGED <<devices, serialById, legacySerial>>
    BY <1>1 DEF Register
  <2>2. RecordsFit' /\ LinksFit'
    BY <2>1, RecordsSame, LinksSame
  <2>3. EndpointsKept'
    BY <2>1 DEF RegInv, EndpointsKept
  <2> QED
    BY <1>1, <2>1, <2>2, <2>3
<1>2. CASE ~Taken(s)
  <2>1. /\ devices' = [devices EXCEPT ![s] = record]
        /\ serialById' = [serialById EXCEPT ![id] = s]
        /\ legacySerial' \in {s, legacySerial}
    BY <1>2 DEF Register
  <2>2. /\ RecordsFit' /\ devices' \in [Serials -> DeviceRecords]
        /\ devices[s].kind = "none" /\ devices'[s] = record
        /\ \A t \in Serials : t # s => devices'[t] = devices[t]
    BY <1>2, <2>1, RecordPut
  <2>3. /\ serialById' \in [UsbIds -> Serials \cup {NoSerial}] /\ serialById'[id] = s
        /\ \A x \in UsbIds : x # id => serialById'[x] = serialById[x]
    BY <2>1
  <2>4. LinksFit
    BY DEF RegInv
  <2>5. \A x \in UsbIds : serialById[x] # s
    BY <2>2, <2>4, ZenonT(30) DEF LinksFit
  <2>6. ASSUME NEW x \in UsbIds, serialById'[x] # NoSerial
        PROVE  devices'[serialById'[x]].kind = "usb"
    <3>1. CASE x = id
      BY <2>2, <2>3, <3>1
    <3>2. CASE x # id
      <4>1. /\ serialById'[x] = serialById[x] /\ serialById[x] \in Serials /\ serialById[x] # s
            /\ devices[serialById[x]].kind = "usb"
        BY <2>3, <2>4, <2>5, <2>6, <3>2 DEF LinksFit
      <4> QED
        BY <2>2, <4>1
    <3> QED
      BY <3>1, <3>2
  <2>7. ASSUME NEW x \in UsbIds, NEW y \in UsbIds, serialById'[x] # NoSerial,
               serialById'[x] = serialById'[y]
        PROVE  x = y
    <3>1. CASE x = id \/ y = id
      BY <2>3, <2>5, <2>7, <3>1
    <3>2. CASE x # id /\ y # id
      BY <2>3, <2>4, <2>7, <3>2 DEF LinksFit
    <3> QED
      BY <3>1, <3>2
  <2>8. ASSUME NEW t \in Serials, devices'[t].kind = "usb"
        PROVE  \E x \in UsbIds : serialById'[x] = t
    <3>1. CASE t = s
      BY <2>3, <3>1
    <3>2. CASE t # s
      <4>1. PICK x \in UsbIds : serialById[x] = t
        BY <2>2, <2>4, <2>8, <3>2 DEF LinksFit
      <4>2. x # id
        BY <4>1
      <4> QED
        BY <2>3, <4>1, <4>2
    <3> QED
      BY <3>1, <3>2
  <2>9. LinksFit'
    BY <2>6, <2>7, <2>8 DEF LinksFit
  <2>10. EndpointsKept'
    BY <2>2 DEF RegInv, EndpointsKept
  <2> QED
    BY <1>2, <2>1, <2>2, <2>3, <2>9, <2>10
<1> QED
  BY <1>1, <1>2

\* An identifier that something names is of no other device while it is in use.
LEMMA PlacedLive ==
    ASSUME RegInv, NEW x \in UsbIds, NEW t \in Serials, Placed(x, t), usb[x] # 0
    PROVE  Live(x, t) /\ plugs[usb[x]] = t
<1>1. ~\E j \in 1..Len(hotplug) : GoneAt(j, x)
  BY DEF RegInv, PlacesFit
<1> QED
  BY <1>1 DEF Placed, Live

\* A device whose serial has a USB record is where that record says, if nothing else
\* may hold the serial.
LEMMA TakenElsewhere ==
    ASSUME RegInv, NEW id \in UsbIds, NEW s \in Serials, s \notin I2cSerials, Taken(s),
           \A other \in UsbIds : serialById[other] = s => other = id
    PROVE  serialById[id] = s
<1>1. devices[s].kind = "usb"
  BY RegTypes DEF Taken, RegInv, RecordsFit, DeviceRecords
<1> QED
  BY <1>1 DEF RegInv, LinksFit

\* attach_candidate up to the claim: what it does to the registry, to the identifier and
\* to the discovery task.
LEMMA AttachOutcome ==
    ASSUME RegInv, NEW candidate \in Candidates, NEW id \in UsbIds, NEW s \in Serials,
           id = candidate.id, s = candidate.serial, discoverer.pc = "events",
           AttachCandidate(candidate),
           UNCHANGED <<settings, usb, plugs, pending, attempts, lost, httpCommands, ranOn>>,
           usb[id] # 0 => plugs[usb[id]] = s,
           Live(id, s) => \A other \in UsbIds : serialById[other] = s => other = id
    PROVE  /\ StateShape' /\ CommandShape' /\ EntriesFit' /\ RecordsFit' /\ CommandsFit'
           /\ EndpointsKept' /\ LinksFit'
           /\ discoverer' \in Discoverers /\ discoverer'.complete = discoverer.complete
           /\ discoverer'.todo = discoverer.todo \ {candidate}
           /\ \/ discoverer'.pc = "events"
              \/ /\ discoverer'.pc = "register" /\ discoverer'.candidate = candidate
                 /\ ShouldClaim(s)' /\ serialById'[id] = NoSerial
                 /\ discoverer'.handle # 0 =>
                        discoverer'.handle \in 1..Len(plugs) /\ plugs[discoverer'.handle] = s
           /\ \/ serialById' = serialById
              \/ serialById' = [serialById EXCEPT ![id] = s] /\ serialById[id] = NoSerial
           /\ Live(id, s) /\ s \notin I2cSerials => Holds(id, s)'
<1> USE RegTypes
<1>1. entries' = entries /\ EntriesGrow /\ EntriesFit'
  <2>1. entries' = entries
    BY DEF AttachCandidate
  <2> QED
    BY <2>1, EntriesSame
<1>2. CommandShape' /\ CommandsFit'
  BY <1>1, CommandsSame
<1>3. discoverer.todo \ {candidate} \in SUBSET Candidates
  BY DEF Discoverers
<1>4. CASE serialById[id] # NoSerial
  <2>1. /\ discoverer' = [discoverer EXCEPT !.todo = @ \ {candidate}]
        /\ UNCHANGED <<devices, serialById, generations, legacySerial>>
    BY <1>4 DEF AttachCandidate, stateVars
  <2>2. /\ discoverer' \in Discoverers /\ discoverer'.complete = discoverer.complete
        /\ discoverer'.todo = discoverer.todo \ {candidate} /\ discoverer'.pc = "events"
    BY <1>3, <2>1 DEF Discoverers
  <2>3. StateShape' /\ EndpointsKept'
    BY <1>1, <2>1 DEF RegInv, StateShape, EndpointsKept
  <2>4. RecordsFit' /\ LinksFit'
    BY <1>1, <2>1, RecordsSame, LinksSame
  <2>5. Live(id, s) => Holds(id, s)'
    <3>1. SUFFICES ASSUME Live(id, s)
                   PROVE  serialById[id] = s
      BY <2>1 DEF Holds
    <3>2. PICK t \in Serials : t = serialById[id]
      BY <1>4
    <3>3. Placed(id, t) /\ usb[id] # 0
      BY <3>1, <3>2 DEF RegInv, PlacesFit, Live
    <3> QED
      BY <3>1, <3>2, <3>3, PlacedLive DEF Live
  <2> QED
    BY <1>1, <1>2, <2>1, <2>2, <2>3, <2>4, <2>5
<1>5. CASE serialById[id] = NoSerial /\ ShouldClaim(s)
  <2>1. /\ generations' = [generations EXCEPT ![s] = generations[s] + 1]
        /\ UNCHANGED <<devices, serialById, legacySerial>>
        /\ \E handle \in {0, usb[id]} :
               discoverer' = [discoverer EXCEPT !.pc = "register", !.handle = handle,
                                 !.todo = @ \ {candidate}, !.candidate = candidate,
                                 !.generation = generations'[s]]
    BY <1>5 DEF AttachCandidate, NextGeneration
  <2>2. generations' \in [Serials -> Nat]
    BY <2>1
  <2>3. PICK generation \in Nat : generation = generations'[s]
    BY <2>2
  <2>4. PICK handle \in {0, usb[id]} :
            discoverer' = [discoverer EXCEPT !.pc = "register", !.handle = handle,
                              !.todo = @ \ {candidate}, !.candidate = candidate,
                              !.generation = generation]
    BY <2>1, <2>3
  <2>5. handle \in Nat /\ (handle # 0 => handle \in 1..Len(plugs) /\ plugs[handle] = s)
    BY <2>4, SMTT(30)
  <2>6. /\ discoverer' \in Discoverers /\ discoverer'.complete = discoverer.complete
        /\ discoverer'.todo = discoverer.todo \ {candidate} /\ discoverer'.pc = "register"
        /\ discoverer'.candidate = candidate /\ discoverer'.handle = handle
    <3>1. candidate \in [id : UsbIds \cup {NoSerial}, serial : Serials \cup {NoSerial}]
      BY DEF Candidates
    <3> QED
      BY <1>3, <2>4, <2>5, <3>1 DEF Discoverers
  <2>7. StateShape' /\ EndpointsKept'
    BY <1>1, <2>1, <2>2 DEF RegInv, StateShape, EndpointsKept
  <2>8. RecordsFit' /\ LinksFit'
    BY <1>1, <2>1, RecordsSame, LinksSame
  <2>9. ShouldClaim(s)'
    BY <1>5 DEF ShouldClaim, AllowsSerial
  <2>10. Holds(id, s)'
    BY <2>6 DEF Holds, Registering
  <2> QED
    BY <1>1, <1>2, <1>5, <2>1, <2>5, <2>6, <2>7, <2>8, <2>9, <2>10
<1>6. CASE serialById[id] = NoSerial /\ ~ShouldClaim(s)
  <2>1. /\ generations' = [generations EXCEPT ![s] = generations[s] + 1]
        /\ Register(id, s, Record("filtered", "usb", generations'[s], 0))
        /\ discoverer' = [discoverer EXCEPT !.todo = @ \ {candidate}]
    BY <1>6 DEF AttachCandidate, NextGeneration
  <2>2. generations' \in [Serials -> Nat]
    BY <2>1
  <2>3. PICK generation \in Nat : generation = generations'[s]
    BY <2>2
  <2>4. PICK record : record = Record("filtered", "usb", generation, 0)
    OBVIOUS
  <2>5. record \in DeviceRecords /\ record.kind = "usb" /\ record.status = "filtered"
    BY <2>4 DEF Record, DeviceRecords, Statuses
  <2>6. Register(id, s, record)
    BY <2>1, <2>3, <2>4
  <2>7. /\ RecordsFit' /\ LinksFit' /\ EndpointsKept'
        /\ devices' \in [Serials -> DeviceRecords]
        /\ serialById' \in [UsbIds -> Serials \cup {NoSerial}]
        /\ legacySerial' \in Serials \cup {NoSerial}
        /\ IF Taken(s) THEN serialById' = serialById
                       ELSE serialById' = [serialById EXCEPT ![id] = s]
    BY <1>1, <1>6, <2>5, <2>6, RegisterStep
  <2>8. /\ discoverer' \in Discoverers /\ discoverer'.complete = discoverer.complete
        /\ discoverer'.todo = discoverer.todo \ {candidate} /\ discoverer'.pc = "events"
    BY <1>3, <2>1 DEF Discoverers
  <2>9. StateShape'
    BY <1>1, <2>2, <2>7 DEF RegInv, StateShape
  <2>10. Live(id, s) /\ s \notin I2cSerials => Holds(id, s)'
    <3>1. SUFFICES ASSUME Live(id, s), s \notin I2cSerials
                   PROVE  serialById'[id] = s
      BY DEF Holds
    <3>2. ~Taken(s)
      <4>1. SUFFICES ASSUME Taken(s)
                     PROVE  FALSE
        OBVIOUS
      <4>2. \A other \in UsbIds : serialById[other] = s => other = id
        BY <3>1
      <4>3. serialById[id] = s
        BY <3>1, <4>1, <4>2, TakenElsewhere
      <4> QED
        BY <1>6, <4>3
    <3> QED
      BY <2>7, <3>2
  <2> QED
    BY <1>1, <1>2, <1>6, <2>7, <2>8, <2>9, <2>10
<1> QED
  BY <1>4, <1>5, <1>6

\* A step of the discovery task on a device that it holds already, with the queue as it is.
LEMMA HeldStep ==
    ASSUME RegInv, UNCHANGED <<settings, usb, plugs, hotplug>>,
           discoverer' \in Discoverers,
           discoverer.pc \in {"events", "register"}, discoverer'.pc \in {"events", "register"},
           discoverer'.complete = discoverer.complete,
           serialById' \in [UsbIds -> Serials \cup {NoSerial}],
           NEW id \in UsbIds, NEW s \in Serials,
           \A x \in UsbIds, t \in Serials : Holds(x, t)' => Holds(x, t),
           \A x \in UsbIds, t \in Serials : Listed(x, t)' \/ Registering(x, t)' =>
               Listed(x, t) \/ Registering(x, t),
           \A x \in UsbIds, t \in Serials : Holds(x, t) => Holds(x, t)' \/ (x = id /\ t = s),
           Live(id, s) /\ s \notin I2cSerials => Holds(id, s)'
    PROVE  UsbShape' /\ PlacesFit' /\ OrderFits' /\ NoneMissed'
<1> USE RegTypes
<1>1. /\ \A x, t : Live(x, t)' <=> Live(x, t)
      /\ \A j, x : GoneAt(j, x)' <=> GoneAt(j, x)
      /\ \A j, x, t : CameAt(j, x, t)' <=> CameAt(j, x, t)
      /\ \A x, t : Placed(x, t)' <=> Placed(x, t)
  BY DEF Live, GoneAt, CameAt, Placed
<1>2. UsbShape'
  BY DEF RegInv, UsbShape
<1>3. PlacesFit'
  <2>1. \A x \in UsbIds, t \in Serials : serialById'[x] = t => Placed(x, t)'
    <3>1. SUFFICES ASSUME NEW x \in UsbIds, NEW t \in Serials, serialById'[x] = t
                   PROVE  Placed(x, t)
      BY <1>1
    <3>2. Holds(x, t)'
      BY <3>1 DEF Holds
    <3> QED
      BY <3>2, HoldsPlaced
  <2>2. \A candidate \in discoverer'.todo : Placed(candidate.id, candidate.serial)'
    <3>1. SUFFICES ASSUME NEW candidate \in discoverer'.todo
                   PROVE  Placed(candidate.id, candidate.serial)
      BY <1>1
    <3>2. candidate.id \in UsbIds /\ candidate.serial \in Serials
      BY DEF Discoverers, Candidates
    <3>3. Holds(candidate.id, candidate.serial)'
      BY DEF Holds, Listed
    <3> QED
      BY <3>2, <3>3, HoldsPlaced
  <2> QED
    BY <1>1, <2>1, <2>2, SMTT(30) DEF RegInv, PlacesFit
<1>4. OrderFits'
  <2>1. OrderFits
    BY DEF RegInv
  <2>2. ASSUME NEW x \in UsbIds, NEW y \in UsbIds, NEW t \in Serials,
               Listed(x, t)' \/ Registering(x, t)', Live(x, t)', Holds(y, t)'
        PROVE  y = x
    <3>1. /\ Listed(x, t) \/ Registering(x, t)
          /\ Live(x, t) /\ Holds(y, t)
      BY <1>1, <2>2
    <3> QED
      BY <2>1, <3>1 DEF OrderFits
  <2>3. ASSUME NEW i \in 1..Len(hotplug), NEW x \in UsbIds, NEW y \in UsbIds, NEW t \in Serials,
               CameAt(i, x, t), Live(x, t), y # x
        PROVE  /\ Holds(y, t)' => \E j \in 1..(i - 1) : GoneAt(j, y)
               /\ \A k \in 1..(i - 1) : CameAt(k, y, t) => \E j \in (k + 1)..(i - 1) : GoneAt(j, y)
    BY <2>1, <2>3 DEF OrderFits
  <2> QED
    BY <1>1, <2>2, <2>3, SMTT(30) DEF OrderFits
<1>5. NoneMissed'
  <2>1. SUFFICES ASSUME discoverer.complete, NEW x \in UsbIds, NEW t \in Serials, Live(x, t),
                        t \notin I2cSerials
                 PROVE  Holds(x, t)' \/ \E i \in 1..Len(hotplug) : CameAt(i, x, t)
    BY <1>1 DEF NoneMissed
  <2>2. Holds(x, t) \/ \E i \in 1..Len(hotplug) : CameAt(i, x, t)
    BY <2>1 DEF RegInv, NoneMissed
  <2> QED
    BY <2>1, <2>2
<1> QED
  BY <1>2, <1>3, <1>4, <1>5

\* A step of the discovery task on the oldest arrival in the queue.
LEMMA ArrivalStep ==
    ASSUME RegInv, UNCHANGED <<settings, usb, plugs>>,
           hotplug # <<>>, hotplug' = Tail(hotplug),
           discoverer' \in Discoverers, discoverer.todo = {}, discoverer.pc = "events",
           discoverer'.pc \in {"events", "register"}, discoverer'.todo = {},
           discoverer'.complete = discoverer.complete,
           serialById' \in [UsbIds -> Serials \cup {NoSerial}],
           NEW id \in UsbIds, NEW s \in Serials, CameAt(1, id, s),
           \A x \in UsbIds, t \in Serials : Holds(x, t)' => Holds(x, t) \/ (x = id /\ t = s),
           \A x \in UsbIds, t \in Serials : Registering(x, t)' => x = id /\ t = s,
           \A x \in UsbIds, t \in Serials : Holds(x, t) => Holds(x, t)',
           Live(id, s) /\ s \notin I2cSerials => Holds(id, s)'
    PROVE  /\ UsbShape' /\ PlacesFit' /\ OrderFits' /\ NoneMissed'
           /\ Placed(id, s)'
<1> USE RegTypes
<1>1. /\ hotplug' \in Seq(HotplugEvents) /\ Len(hotplug') = Len(hotplug) - 1
      /\ 1 \in 1..Len(hotplug) /\ Len(hotplug) \in Nat
      /\ \A j \in 1..Len(hotplug') :
             /\ j + 1 \in 2..Len(hotplug) /\ hotplug'[j] = hotplug[j + 1]
             /\ \A x : GoneAt(j, x)' <=> GoneAt(j + 1, x)
             /\ \A x, t : CameAt(j, x, t)' <=> CameAt(j + 1, x, t)
      /\ \A j \in 2..Len(hotplug) :
             /\ j - 1 \in 1..Len(hotplug') /\ hotplug'[j - 1] = hotplug[j]
             /\ \A x : GoneAt(j - 1, x)' <=> GoneAt(j, x)
             /\ \A x, t : CameAt(j - 1, x, t)' <=> CameAt(j, x, t)
  BY EventTaken
<1>2. /\ \A x, t : Live(x, t)' <=> Live(x, t)
      /\ \A x : ~GoneAt(1, x) /\ \A t : CameAt(1, x, t) => x = id /\ t = s
  BY DEF Live, GoneAt, CameAt
<1>3. UsbShape'
  BY <1>1 DEF RegInv, UsbShape
<1>4. ASSUME NEW x, NEW t, Placed(x, t)
      PROVE  Placed(x, t)'
  <2>1. CASE Live(x, t)
    BY <1>2, <2>1 DEF Placed
  <2>2. CASE \E j \in 1..Len(hotplug) : GoneAt(j, x)
    <3>1. PICK j \in 1..Len(hotplug) : GoneAt(j, x)
      BY <2>2
    <3>2. j \in 2..Len(hotplug)
      BY <1>1, <1>2, <3>1
    <3>3. j - 1 \in 1..Len(hotplug') /\ GoneAt(j - 1, x)'
      BY <1>1, <3>1, <3>2
    <3> QED
      BY <3>3 DEF Placed
  <2> QED
    BY <1>4, <2>1, <2>2 DEF Placed
<1>5. Placed(id, s)'
  <2>1. Live(id, s) \/ \E j \in 2..Len(hotplug) : GoneAt(j, id)
    BY <1>1 DEF RegInv, PlacesFit
  <2>2. Placed(id, s)
    BY <1>1, <2>1 DEF Placed
  <2> QED
    BY <1>4, <2>2
<1>6. PlacesFit'
  <2>1. \A x \in UsbIds, t \in Serials : serialById'[x] = t => Placed(x, t)'
    <3>1. SUFFICES ASSUME NEW x \in UsbIds, NEW t \in Serials, serialById'[x] = t
                   PROVE  Placed(x, t)'
      OBVIOUS
    <3>2. Holds(x, t)'
      BY <3>1 DEF Holds
    <3>3. CASE Holds(x, t)
      BY <1>4, <3>3, HoldsPlaced
    <3>4. CASE x = id /\ t = s
      BY <1>5, <3>4
    <3> QED
      BY <3>2, <3>3, <3>4
  <2>2. ASSUME NEW i \in 1..Len(hotplug'), NEW x \in UsbIds, NEW t \in Serials, CameAt(i, x, t)'
        PROVE  Live(x, t)' \/ \E j \in (i + 1)..Len(hotplug') : GoneAt(j, x)'
    <3>1. i + 1 \in 1..Len(hotplug) /\ CameAt(i + 1, x, t)
      BY <1>1, <2>2
    <3>2. CASE Live(x, t)
      BY <1>2, <3>2
    <3>3. CASE \E j \in (i + 1 + 1)..Len(hotplug) : GoneAt(j, x)
      <4>1. PICK j \in (i + 1 + 1)..Len(hotplug) : GoneAt(j, x)
        BY <3>3
      <4>2. j \in 2..Len(hotplug) /\ j - 1 \in (i + 1)..Len(hotplug')
        BY <1>1, <4>1
      <4>3. GoneAt(j - 1, x)'
        BY <1>1, <4>1, <4>2
      <4> QED
        BY <4>2, <4>3
    <3> QED
      BY <3>1, <3>2, <3>3 DEF RegInv, PlacesFit
  <2>3. ASSUME NEW j \in 1..Len(hotplug'), NEW x \in UsbIds, GoneAt(j, x)'
        PROVE  usb'[x] = 0
    <3>1. j + 1 \in 1..Len(hotplug) /\ GoneAt(j + 1, x)
      BY <1>1, <2>3
    <3> QED
      BY <3>1 DEF RegInv, PlacesFit
  <2>4. \A i \in 1..Len(hotplug') : hotplug'[i].kind = "connected" => hotplug'[i].serial \in Serials
    BY <1>1 DEF RegInv, PlacesFit
  <2>5. \A x, y \in UsbIds : usb'[x] # 0 /\ usb'[y] # 0 /\ plugs'[usb'[x]] = plugs'[usb'[y]] => x = y
    BY DEF RegInv, PlacesFit
  <2> QED
    BY <2>1, <2>2, <2>3, <2>4, <2>5 DEF PlacesFit
<1>7. \A x, t : ~Listed(x, t)'
  BY DEF Listed
<1>8. \A other \in UsbIds : Live(id, s) /\ Holds(other, s) => other = id
  <2>1. SUFFICES ASSUME NEW other \in UsbIds, Live(id, s), Holds(other, s), other # id
                 PROVE  FALSE
    OBVIOUS
  <2>2. \E j \in 1..(1 - 1) : GoneAt(j, other)
    BY <1>1, <2>1 DEF RegInv, OrderFits
  <2> QED
    BY <2>2
<1>9. OrderFits'
  <2>1. ASSUME NEW x \in UsbIds, NEW y \in UsbIds, NEW t \in Serials,
               Listed(x, t)' \/ Registering(x, t)', Live(x, t)', Holds(y, t)'
        PROVE  y = x
    BY <1>2, <1>7, <1>8, <2>1
  <2>2. ASSUME NEW i \in 1..Len(hotplug'), NEW x \in UsbIds, NEW y \in UsbIds, NEW t \in Serials,
               CameAt(i, x, t)', Live(x, t)', y # x
        PROVE  /\ Holds(y, t)' => \E j \in 1..(i - 1) : GoneAt(j, y)'
               /\ \A k \in 1..(i - 1) : CameAt(k, y, t)' => \E j \in (k + 1)..(i - 1) : GoneAt(j, y)'
    <3>1. i + 1 \in 1..Len(hotplug) /\ CameAt(i + 1, x, t) /\ Live(x, t)
      BY <1>1, <1>2, <2>2
    <3>2. /\ Holds(y, t) => \E j \in 1..((i + 1) - 1) : GoneAt(j, y)
          /\ \A k \in 1..((i + 1) - 1) : CameAt(k, y, t) =>
                 \E j \in (k + 1)..((i + 1) - 1) : GoneAt(j, y)
      BY <2>2, <3>1 DEF RegInv, OrderFits
    <3>3. ASSUME NEW m \in Nat, NEW j \in (m + 1)..i, GoneAt(j, y), m + 1 >= 2 \/ j # 1
          PROVE  j - 1 \in m..(i - 1) /\ j - 1 \in 1..(i - 1) /\ GoneAt(j - 1, y)'
      <4>1. j \in 2..Len(hotplug)
        BY <1>1, <3>1, <3>3
      <4> QED
        BY <1>1, <3>3, <4>1
    <3>4. Holds(y, t)' => \E j \in 1..(i - 1) : GoneAt(j, y)'
      <4>1. SUFFICES ASSUME Holds(y, t)'
                     PROVE  \E j \in 1..(i - 1) : GoneAt(j, y)'
        OBVIOUS
      <4>2. CASE Holds(y, t)
        <5>1. PICK j \in 1..i : GoneAt(j, y)
          BY <3>2, <4>2
        <5>2. j # 1 /\ j \in (0 + 1)..i
          BY <1>2, <5>1
        <5> QED
          BY <3>3, <5>1, <5>2
      <4>3. CASE y = id /\ t = s
        <5>1. 1 \in 1..((i + 1) - 1) /\ CameAt(1, y, t)
          BY <4>3
        <5>2. PICK j \in (1 + 1)..((i + 1) - 1) : GoneAt(j, y)
          BY <3>2, <5>1
        <5>3. j \in (1 + 1)..i /\ j # 1
          BY <5>2
        <5> QED
          BY <3>3, <5>2, <5>3
      <4> QED
        BY <4>1, <4>2, <4>3
    <3>5. ASSUME NEW k \in 1..(i - 1), CameAt(k, y, t)'
          PROVE  \E j \in (k + 1)..(i - 1) : GoneAt(j, y)'
      <4>1. k \in 1..Len(hotplug') /\ k + 1 \in 1..((i + 1) - 1)
        BY <1>1
      <4>2. CameAt(k + 1, y, t)
        BY <1>1, <3>5, <4>1
      <4>3. PICK j \in ((k + 1) + 1)..((i + 1) - 1) : GoneAt(j, y)
        BY <3>2, <4>1, <4>2
      <4>4. k + 1 \in Nat /\ j \in ((k + 1) + 1)..i /\ (k + 1) + 1 >= 2
        BY <4>3
      <4>5. j - 1 \in (k + 1)..(i - 1) /\ GoneAt(j - 1, y)'
        BY <3>3, <4>3, <4>4
      <4> QED
        BY <4>5
    <3> QED
      BY <3>4, <3>5
  <2> QED
    BY <2>1, <2>2 DEF OrderFits
<1>10. NoneMissed'
  <2>1. SUFFICES ASSUME discoverer.complete, NEW x \in UsbIds, NEW t \in Serials, Live(x, t),
                        t \notin I2cSerials
                 PROVE  Holds(x, t)' \/ \E i \in 1..Len(hotplug') : CameAt(i, x, t)'
    BY <1>2 DEF NoneMissed
  <2>2. Holds(x, t) \/ \E i \in 1..Len(hotplug) : CameAt(i, x, t)
    BY <2>1 DEF RegInv, NoneMissed
  <2>3. CASE Holds(x, t)
    BY <2>3
  <2>4. CASE \E i \in 1..Len(hotplug) : CameAt(i, x, t)
    <3>1. PICK i \in 1..Len(hotplug) : CameAt(i, x, t)
      BY <2>4
    <3>2. CASE i = 1
      BY <1>2, <2>1, <3>1, <3>2
    <3>3. CASE i \in 2..Len(hotplug)
      BY <1>1, <3>1, <3>3
    <3> QED
      BY <3>2, <3>3
  <2> QED
    BY <2>2, <2>3, <2>4
<1> QED
  BY <1>3, <1>5, <1>6, <1>9, <1>10

\* What attach_candidate adds to what the discovery task knows.
LEMMA HeldAfterAttach ==
    ASSUME RegInv, NEW candidate \in Candidates, NEW id \in UsbIds, NEW s \in Serials,
           id = candidate.id, s = candidate.serial, discoverer.pc = "events",
           discoverer'.todo = discoverer.todo \ {candidate},
           discoverer'.pc = "events" \/ discoverer'.candidate = candidate,
           \/ serialById' = serialById
           \/ serialById' = [serialById EXCEPT ![id] = s] /\ serialById[id] = NoSerial
    PROVE  /\ \A x \in UsbIds, t \in Serials : Holds(x, t)' => Holds(x, t) \/ (x = id /\ t = s)
           /\ \A x \in UsbIds, t \in Serials : Listed(x, t)' => Listed(x, t)
           /\ \A x \in UsbIds, t \in Serials : Registering(x, t)' => x = id /\ t = s
           /\ \A x \in UsbIds, t \in Serials :
                  Holds(x, t) => Holds(x, t)' \/ (Listed(x, t) /\ x = id /\ t = s)
<1> USE RegTypes
<1>1. \A x \in UsbIds, t \in Serials : Listed(x, t)' => Listed(x, t)
  BY DEF Listed
<1>2. \A x \in UsbIds, t \in Serials : Registering(x, t)' => x = id /\ t = s
  BY DEF Registering
<1>3. \A x \in UsbIds, t \in Serials :
          /\ serialById'[x] = t => serialById[x] = t \/ (x = id /\ t = s)
          /\ serialById[x] = t => serialById'[x] = t
  OBVIOUS
<1>4. ASSUME NEW x \in UsbIds, NEW t \in Serials, Listed(x, t)
      PROVE  Listed(x, t)' \/ (x = id /\ t = s)
  <2>1. PICK c \in discoverer.todo : c.id = x /\ c.serial = t
    BY <1>4 DEF Listed
  <2>2. CASE c = candidate
    BY <2>1, <2>2
  <2>3. CASE c # candidate
    <3>1. c \in discoverer'.todo
      BY <2>3
    <3> QED
      BY <2>1, <3>1 DEF Listed
  <2> QED
    BY <2>2, <2>3
<1>5. \A x, t : ~Registering(x, t)
  BY DEF Registering
<1> QED
  BY <1>1, <1>2, <1>3, <1>4, <1>5 DEF Holds

\* A listed device is attached.
LEMMA AttachesListedKeeps ==
    ASSUME RegInv, AttachesListed
    PROVE  RegInv'
<1> USE RegTypes
<1>1. PICK candidate \in discoverer.todo : AttachCandidate(candidate)
  BY DEF AttachesListed
<1>2. /\ discoverer.pc = "events" /\ hotplug' = hotplug
      /\ UNCHANGED <<settings, usb, plugs, pending, attempts, lost, httpCommands, ranOn>>
  BY DEF AttachesListed, usbVars, i2cVars
<1>3. candidate \in Candidates
  BY DEF Discoverers
<1>4. PICK id \in UsbIds, s \in Serials : id = candidate.id /\ s = candidate.serial
  BY <1>3 DEF Candidates
<1>5. Listed(id, s) /\ Holds(id, s) /\ Placed(id, s)
  BY <1>1, <1>4 DEF Listed, Holds, RegInv, PlacesFit
<1>6. usb[id] # 0 => plugs[usb[id]] = s
  BY <1>5, PlacedLive
<1>7. Live(id, s) => \A other \in UsbIds : serialById[other] = s => other = id
  BY <1>5 DEF RegInv, OrderFits, Holds
<1>8. /\ StateShape' /\ CommandShape' /\ EntriesFit' /\ RecordsFit' /\ CommandsFit'
      /\ EndpointsKept' /\ LinksFit'
      /\ discoverer' \in Discoverers /\ discoverer'.complete = discoverer.complete
      /\ discoverer'.todo = discoverer.todo \ {candidate}
      /\ \/ discoverer'.pc = "events"
         \/ /\ discoverer'.pc = "register" /\ discoverer'.candidate = candidate
            /\ ShouldClaim(s)' /\ serialById'[id] = NoSerial
            /\ discoverer'.handle # 0 =>
                   discoverer'.handle \in 1..Len(plugs) /\ plugs[discoverer'.handle] = s
      /\ \/ serialById' = serialById
         \/ serialById' = [serialById EXCEPT ![id] = s] /\ serialById[id] = NoSerial
      /\ Live(id, s) /\ s \notin I2cSerials => Holds(id, s)'
  BY <1>1, <1>2, <1>3, <1>4, <1>6, <1>7, AttachOutcome
<1>9. /\ \A x \in UsbIds, t \in Serials : Holds(x, t)' => Holds(x, t) \/ (x = id /\ t = s)
      /\ \A x \in UsbIds, t \in Serials : Listed(x, t)' => Listed(x, t)
      /\ \A x \in UsbIds, t \in Serials : Registering(x, t)' => x = id /\ t = s
      /\ \A x \in UsbIds, t \in Serials :
             Holds(x, t) => Holds(x, t)' \/ (Listed(x, t) /\ x = id /\ t = s)
  <2>1. /\ discoverer'.todo = discoverer.todo \ {candidate}
        /\ discoverer'.pc = "events" \/ discoverer'.candidate = candidate
        /\ \/ serialById' = serialById
           \/ serialById' = [serialById EXCEPT ![id] = s] /\ serialById[id] = NoSerial
        /\ discoverer.pc = "events" /\ id = candidate.id /\ s = candidate.serial
    BY <1>2, <1>4, <1>8
  <2> HIDE RegTypes
  <2> QED
    BY <1>3, <2>1, HeldAfterAttach
<1>10. /\ \A x \in UsbIds, t \in Serials : Holds(x, t)' => Holds(x, t)
       /\ \A x \in UsbIds, t \in Serials : Listed(x, t)' \/ Registering(x, t)' =>
              Listed(x, t) \/ Registering(x, t)
       /\ \A x \in UsbIds, t \in Serials : Holds(x, t) => Holds(x, t)' \/ (x = id /\ t = s)
  BY <1>5, <1>9
<1>11. serialById' \in [UsbIds -> Serials \cup {NoSerial}]
  BY <1>8 DEF StateShape
<1>12. UsbShape' /\ PlacesFit' /\ OrderFits' /\ NoneMissed'
  BY <1>2, <1>8, <1>10, <1>11, HeldStep
<1>13. DiscovererFits'
  <2>1. Placed(id, s)'
    BY <1>2, <1>5 DEF Placed, Live, GoneAt
  <2>2. discoverer'.pc = "register" =>
            Placed(discoverer.candidate.id, discoverer.candidate.serial)'
    BY <1>4, <1>8, <2>1 DEF Placed, Live, GoneAt
  <2>3. discoverer'.pc = "register" => ShouldClaim(discoverer.candidate.serial)'
    BY <1>4, <1>8 DEF ShouldClaim, AllowsSerial
  <2> QED
    BY <1>2, <1>3, <1>4, <1>8, <2>2, <2>3 DEF DiscovererFits
<1> QED
  BY <1>8, <1>12, <1>13 DEF RegInv

\* The device of the oldest event in the queue is attached.
LEMMA AttachesConnectedKeeps ==
    ASSUME RegInv, AttachesConnected
    PROVE  RegInv'
<1> USE RegTypes
<1>1. /\ discoverer.pc = "events" /\ discoverer.todo = {} /\ hotplug # <<>>
      /\ hotplug[1].kind = "connected" /\ hotplug' = Tail(hotplug) /\ 1 \in 1..Len(hotplug)
      /\ AttachCandidate([id |-> hotplug[1].id, serial |-> hotplug[1].serial])
      /\ UNCHANGED <<settings, usb, plugs, pending, attempts, lost, httpCommands, ranOn>>
  <2>1. hotplug # <<>> /\ Head(hotplug) = hotplug[1] /\ 1 \in 1..Len(hotplug)
    BY QueueTail DEF AttachesConnected
  <2> QED
    BY <2>1 DEF AttachesConnected, i2cVars
<1>2. PICK id \in UsbIds, s \in Serials : id = hotplug[1].id /\ s = hotplug[1].serial
  BY <1>1 DEF RegInv, PlacesFit, HotplugEvents
<1>3. PICK candidate \in Candidates : candidate = [id |-> id, serial |-> s]
  BY DEF Candidates
<1>4. id = candidate.id /\ s = candidate.serial /\ AttachCandidate(candidate)
  BY <1>1, <1>2, <1>3
<1>5. CameAt(1, id, s)
  BY <1>1, <1>2 DEF CameAt
<1>6. Placed(id, s)
  <2>1. Live(id, s) \/ \E j \in (1 + 1)..Len(hotplug) : GoneAt(j, id)
    BY <1>1, <1>5 DEF RegInv, PlacesFit
  <2> QED
    BY <2>1 DEF Placed
<1>7. usb[id] # 0 => plugs[usb[id]] = s
  BY <1>6, PlacedLive
<1>8. Live(id, s) => \A other \in UsbIds : serialById[other] = s => other = id
  <2>1. SUFFICES ASSUME Live(id, s), NEW other \in UsbIds, serialById[other] = s, other # id
                 PROVE  FALSE
    OBVIOUS
  <2>2. \E j \in 1..(1 - 1) : GoneAt(j, other)
    BY <1>1, <1>5, <2>1 DEF RegInv, OrderFits, Holds
  <2> QED
    BY <2>2
<1>9. /\ StateShape' /\ CommandShape' /\ EntriesFit' /\ RecordsFit' /\ CommandsFit'
      /\ EndpointsKept' /\ LinksFit'
      /\ discoverer' \in Discoverers /\ discoverer'.complete = discoverer.complete
      /\ discoverer'.todo = discoverer.todo \ {candidate}
      /\ \/ discoverer'.pc = "events"
         \/ /\ discoverer'.pc = "register" /\ discoverer'.candidate = candidate
            /\ ShouldClaim(s)' /\ serialById'[id] = NoSerial
            /\ discoverer'.handle # 0 =>
                   discoverer'.handle \in 1..Len(plugs) /\ plugs[discoverer'.handle] = s
      /\ \/ serialById' = serialById
         \/ serialById' = [serialById EXCEPT ![id] = s] /\ serialById[id] = NoSerial
      /\ Live(id, s) /\ s \notin I2cSerials => Holds(id, s)'
  BY <1>1, <1>4, <1>7, <1>8, AttachOutcome, SMTT(30)
<1>10. /\ \A x \in UsbIds, t \in Serials : Holds(x, t)' => Holds(x, t) \/ (x = id /\ t = s)
       /\ \A x \in UsbIds, t \in Serials : Listed(x, t)' => Listed(x, t)
       /\ \A x \in UsbIds, t \in Serials : Registering(x, t)' => x = id /\ t = s
       /\ \A x \in UsbIds, t \in Serials :
              Holds(x, t) => Holds(x, t)' \/ (Listed(x, t) /\ x = id /\ t = s)
  <2>1. /\ discoverer'.todo = discoverer.todo \ {candidate}
        /\ discoverer'.pc = "events" \/ discoverer'.candidate = candidate
        /\ \/ serialById' = serialById
           \/ serialById' = [serialById EXCEPT ![id] = s] /\ serialById[id] = NoSerial
        /\ discoverer.pc = "events" /\ id = candidate.id /\ s = candidate.serial
    BY <1>1, <1>4, <1>9
  <2> HIDE RegTypes
  <2> QED
    BY <2>1, HeldAfterAttach
<1>11. \A x \in UsbIds, t \in Serials : Holds(x, t) => Holds(x, t)'
  <2>1. \A x, t : ~Listed(x, t)
    BY <1>1 DEF Listed
  <2> QED
    BY <1>10, <2>1
<1>12. serialById' \in [UsbIds -> Serials \cup {NoSerial}] /\ discoverer'.todo = {}
  BY <1>1, <1>9 DEF StateShape
<1>13. UsbShape' /\ PlacesFit' /\ OrderFits' /\ NoneMissed' /\ Placed(id, s)'
  BY <1>1, <1>5, <1>9, <1>10, <1>11, <1>12, ArrivalStep
<1>14. DiscovererFits'
  <2>1. discoverer'.pc = "register" =>
            Placed(discoverer.candidate.id, discoverer.candidate.serial)'
    BY <1>4, <1>9, <1>13 DEF Placed, Live, GoneAt
  <2>2. discoverer'.pc = "register" => ShouldClaim(discoverer.candidate.serial)'
    BY <1>4, <1>9 DEF ShouldClaim, AllowsSerial
  <2> QED
    BY <1>1, <1>4, <1>9, <2>1, <2>2 DEF DiscovererFits
<1> QED
  BY <1>9, <1>13, <1>14 DEF RegInv

\* The end of attach_candidate: a record, with an entry if the device was claimed, unless
\* the serial has one.
LEMMA RegistersUsbKeeps ==
    ASSUME RegInv, RegistersUsb
    PROVE  RegInv'
<1> USE RegTypes
<1>1. /\ discoverer.pc = "register" /\ discoverer.candidate \in Candidates
      /\ serialById[discoverer.candidate.id] = NoSerial
      /\ ShouldClaim(discoverer.candidate.serial)
      /\ discoverer.handle # 0 =>
             /\ discoverer.handle \in 1..Len(plugs)
             /\ plugs[discoverer.handle] = discoverer.candidate.serial
      /\ discoverer.handle \in Nat /\ discoverer.generation \in Nat
  BY DEF RegistersUsb, RegInv, DiscovererFits, Discoverers
<1>2. PICK id \in UsbIds, s \in Serials, handle \in Nat, generation \in Nat :
          /\ id = discoverer.candidate.id /\ s = discoverer.candidate.serial
          /\ handle = discoverer.handle /\ generation = discoverer.generation
  BY <1>1 DEF Candidates
<1>3. PICK record : record = Record(IF handle # 0 THEN "claimed" ELSE "unclaimed", "usb", generation,
                                    IF handle # 0 THEN Len(entries) + 1 ELSE 0)
  OBVIOUS
<1>4. /\ record \in DeviceRecords /\ record.kind = "usb" /\ record.status # "none"
      /\ record.status = "claimed" => handle # 0 /\ record.entry = Len(entries) + 1
  <2>1. CASE handle # 0
    BY <1>3, <2>1 DEF Record, DeviceRecords, Statuses
  <2>2. CASE handle = 0
    BY <1>3, <2>2 DEF Record, DeviceRecords, Statuses
  <2> QED
    BY <2>1, <2>2
<1>5. /\ Register(id, s, record)
      /\ entries' = IF handle # 0 /\ ~Taken(s)
                    THEN Append(entries, Entry(s, "usb", id, generation, handle))
                    ELSE entries
      /\ discoverer' = [discoverer EXCEPT !.pc = "events", !.handle = 0, !.generation = 0,
                                          !.candidate = DiscoveryIdle.candidate]
      /\ UNCHANGED <<settings, usb, plugs, hotplug, generations, pending, attempts, lost,
                     httpCommands, ranOn>>
  BY <1>2, <1>3 DEF RegistersUsb, usbVars, i2cVars
<1>6. /\ EntriesGrow /\ EntriesFit'
      /\ handle # 0 /\ ~Taken(s) =>
             Len(entries') = Len(entries) + 1 /\ entries'[Len(entries) + 1].serial = s
  <2>1. CASE handle # 0 /\ ~Taken(s)
    <3>1. entries' = Append(entries, Entry(s, "usb", id, generation, handle))
      BY <1>5, <2>1
    <3>2. /\ ShouldClaim(s) /\ "usb" \in {"usb", "i2c"} /\ id \in UsbIds \cup {NoSerial}
          /\ handle \in 1..Len(plugs) /\ plugs[handle] = s
      BY <1>1, <1>2, <2>1
    <3> HIDE RegTypes
    <3> QED
      BY <1>5, <3>1, <3>2, EntryAdded
  <2>2. CASE ~(handle # 0 /\ ~Taken(s))
    BY <1>5, <2>2, EntriesSame
  <2> QED
    BY <2>1, <2>2
<1>7. /\ RecordsFit' /\ LinksFit' /\ EndpointsKept'
      /\ devices' \in [Serials -> DeviceRecords]
      /\ serialById' \in [UsbIds -> Serials \cup {NoSerial}]
      /\ legacySerial' \in Serials \cup {NoSerial}
      /\ IF Taken(s) THEN serialById' = serialById
                     ELSE serialById' = [serialById EXCEPT ![id] = s]
  <2>1. record.status = "claimed" /\ ~Taken(s) =>
            record.entry \in 1..Len(entries') /\ entries'[record.entry].serial = s
    BY <1>4, <1>6
  <2>2. serialById[id] = NoSerial /\ pending' = pending
    BY <1>1, <1>2, <1>5
  <2> HIDE RegTypes
  <2> QED
    BY <1>4, <1>5, <1>6, <2>1, <2>2, RegisterStep
<1>8. StateShape'
  BY <1>5, <1>6, <1>7 DEF RegInv, StateShape, EntriesGrow
<1>9. CommandShape' /\ CommandsFit'
  BY <1>5, <1>6, CommandsSame
<1>10. /\ discoverer' \in Discoverers /\ discoverer'.complete = discoverer.complete
       /\ discoverer'.todo = discoverer.todo /\ discoverer'.pc = "events"
  <2>1. DiscoveryIdle.candidate \in [id : UsbIds \cup {NoSerial}, serial : Serials \cup {NoSerial}]
    BY DEF DiscoveryIdle
  <2> QED
    BY <1>5, <2>1 DEF Discoverers
<1>11. Registering(id, s) /\ Holds(id, s)
  BY <1>1, <1>2 DEF Registering, Holds
<1>12. /\ \A x, t : Listed(x, t)' <=> Listed(x, t)
       /\ \A x, t : ~Registering(x, t)'
       /\ \A x, t : Registering(x, t) => x = id /\ t = s
  BY <1>2, <1>10 DEF Listed, Registering
<1>13. \A x \in UsbIds, t \in Serials :
           /\ serialById'[x] = t => serialById[x] = t \/ (x = id /\ t = s)
           /\ serialById[x] = t => serialById'[x] = t
  BY <1>1, <1>2, <1>7
<1>14. /\ \A x \in UsbIds, t \in Serials : Holds(x, t)' => Holds(x, t)
       /\ \A x \in UsbIds, t \in Serials : Listed(x, t)' \/ Registering(x, t)' =>
              Listed(x, t) \/ Registering(x, t)
       /\ \A x \in UsbIds, t \in Serials : Holds(x, t) => Holds(x, t)' \/ (x = id /\ t = s)
  BY <1>11, <1>12, <1>13 DEF Holds
<1>15. Live(id, s) /\ s \notin I2cSerials => Holds(id, s)'
  <2>1. SUFFICES ASSUME Live(id, s), s \notin I2cSerials
                 PROVE  serialById'[id] = s
    BY DEF Holds
  <2>2. \A other \in UsbIds : serialById[other] = s => other = id
    BY <1>11, <2>1 DEF RegInv, OrderFits, Holds
  <2>3. ~Taken(s)
    <3>1. SUFFICES ASSUME Taken(s)
                   PROVE  FALSE
      OBVIOUS
    <3>2. serialById[id] = s
      BY <2>1, <2>2, <3>1, TakenElsewhere
    <3> QED
      BY <1>1, <1>2, <3>2
  <2> QED
    BY <1>7, <2>3
<1>16. UsbShape' /\ PlacesFit' /\ OrderFits' /\ NoneMissed'
  <2>1. discoverer.pc \in {"events", "register"} /\ discoverer'.pc \in {"events", "register"}
    BY <1>1, <1>10
  <2> HIDE RegTypes
  <2> QED
    BY <1>5, <1>7, <1>10, <1>14, <1>15, <2>1, HeldStep
<1>17. DiscovererFits'
  BY <1>10 DEF DiscovererFits
<1> QED
  BY <1>6, <1>7, <1>8, <1>9, <1>16, <1>17 DEF RegInv

\* detach removes the record of the identifier, and nothing else.
LEMMA DetachesKeeps ==
    ASSUME RegInv, Detaches
    PROVE  RegInv'
<1> USE RegTypes
<1>1. /\ discoverer.pc = "events" /\ discoverer.todo = {} /\ hotplug # <<>>
      /\ hotplug[1].kind = "disconnected" /\ hotplug' = Tail(hotplug) /\ 1 \in 1..Len(hotplug)
      /\ devices' = (IF serialById[hotplug[1].id] = NoSerial THEN devices
                     ELSE [devices EXCEPT ![serialById[hotplug[1].id]] = NoDevice])
      /\ serialById' = [serialById EXCEPT ![hotplug[1].id] = NoSerial]
      /\ UNCHANGED <<settings, usb, plugs, discoverer, generations, legacySerial, entries, pending,
                     attempts, lost, httpCommands, ranOn>>
  <2>1. hotplug # <<>> /\ Head(hotplug) = hotplug[1] /\ 1 \in 1..Len(hotplug)
    BY QueueTail DEF Detaches
  <2> QED
    BY <2>1 DEF Detaches, i2cVars
<1>2. PICK id \in UsbIds : id = hotplug[1].id
  BY <1>1 DEF HotplugEvents
<1>3. /\ serialById' \in [UsbIds -> Serials \cup {NoSerial}] /\ serialById'[id] = NoSerial
      /\ \A x \in UsbIds : x # id => serialById'[x] = serialById[x]
  BY <1>1, <1>2
<1>4. EntriesGrow /\ EntriesFit'
  BY <1>1, EntriesSame
<1>5. CommandShape' /\ CommandsFit'
  BY <1>1, <1>4, CommandsSame
<1>6. RecordsFit' /\ LinksFit' /\ EndpointsKept' /\ devices' \in [Serials -> DeviceRecords]
  <2>1. LinksFit /\ EndpointsKept
    BY DEF RegInv
  <2>2. CASE serialById[id] = NoSerial
    <3>1. devices' = devices /\ serialById' = serialById
      BY <1>1, <1>2, <2>2
    <3>2. RecordsFit' /\ LinksFit'
      BY <1>4, <3>1, RecordsSame, LinksSame
    <3> QED
      BY <1>1, <2>1, <3>1, <3>2 DEF EndpointsKept
  <2>3. CASE serialById[id] # NoSerial
    <3>1. PICK s \in Serials : s = serialById[id]
      BY <2>3
    <3>2. devices' = [devices EXCEPT ![s] = NoDevice]
      BY <1>1, <1>2, <2>3, <3>1
    <3>3. /\ RecordsFit' /\ devices' \in [Serials -> DeviceRecords]
          /\ devices'[s].kind = "none"
          /\ \A t \in Serials : t # s => devices'[t] = devices[t]
      BY <1>1, <3>2, RecordGone
    <3>4. devices[s].kind = "usb"
      BY <2>1, <2>3, <3>1 DEF LinksFit
    <3>5. EndpointsKept'
      BY <1>1, <2>1, <3>3, <3>4 DEF EndpointsKept
    <3>6. ASSUME NEW x \in UsbIds, serialById'[x] # NoSerial
          PROVE  devices'[serialById'[x]].kind = "usb"
      <4>1. x # id /\ serialById'[x] = serialById[x]
        BY <1>3, <3>6
      <4>2. serialById[x] \in Serials /\ serialById[x] # s /\ devices[serialById[x]].kind = "usb"
        BY <2>1, <3>1, <3>6, <4>1 DEF LinksFit
      <4> QED
        BY <3>3, <4>1, <4>2
    <3>7. \A x, y \in UsbIds : serialById'[x] # NoSerial /\ serialById'[x] = serialById'[y] => x = y
      BY <1>3, <2>1 DEF LinksFit
    <3>8. ASSUME NEW t \in Serials, devices'[t].kind = "usb"
          PROVE  \E x \in UsbIds : serialById'[x] = t
      <4>1. t # s /\ devices[t].kind = "usb"
        BY <3>3, <3>8
      <4>2. PICK x \in UsbIds : serialById[x] = t
        BY <2>1, <4>1 DEF LinksFit
      <4> QED
        BY <1>3, <3>1, <4>1, <4>2
    <3>9. LinksFit'
      BY <3>6, <3>7, <3>8 DEF LinksFit
    <3> QED
      BY <3>3, <3>5, <3>9
  <2> QED
    BY <2>2, <2>3
<1>7. StateShape'
  BY <1>1, <1>3, <1>6 DEF RegInv, StateShape
<1>8. /\ hotplug' \in Seq(HotplugEvents) /\ Len(hotplug') = Len(hotplug) - 1
      /\ \A j \in 1..Len(hotplug') :
             /\ j + 1 \in 2..Len(hotplug) /\ hotplug'[j] = hotplug[j + 1]
             /\ \A x : GoneAt(j, x)' <=> GoneAt(j + 1, x)
             /\ \A x, t : CameAt(j, x, t)' <=> CameAt(j + 1, x, t)
      /\ \A j \in 2..Len(hotplug) :
             /\ j - 1 \in 1..Len(hotplug') /\ hotplug'[j - 1] = hotplug[j]
             /\ \A x : GoneAt(j - 1, x)' <=> GoneAt(j, x)
             /\ \A x, t : CameAt(j - 1, x, t)' <=> CameAt(j, x, t)
  BY <1>1, EventTaken
<1>9. /\ \A x, t : Live(x, t)' <=> Live(x, t)
      /\ \A x : GoneAt(1, x) <=> x = id
      /\ \A x, t : ~CameAt(1, x, t)
      /\ usb[id] = 0
  <2>1. /\ \A x, t : Live(x, t)' <=> Live(x, t)
        /\ \A x : GoneAt(1, x) <=> x = id
        /\ \A x, t : ~CameAt(1, x, t)
    BY <1>1, <1>2 DEF Live, GoneAt, CameAt
  <2>2. usb[id] = 0
    BY <1>1, <2>1 DEF RegInv, PlacesFit
  <2> QED
    BY <2>1, <2>2
<1>10. /\ \A x, t : ~Listed(x, t) /\ ~Listed(x, t)' /\ ~Registering(x, t) /\ ~Registering(x, t)'
       /\ \A x \in UsbIds, t \in Serials : Holds(x, t)' <=> (x # id /\ Holds(x, t))
  <2>1. \A x, t : ~Listed(x, t) /\ ~Listed(x, t)' /\ ~Registering(x, t) /\ ~Registering(x, t)'
    BY <1>1 DEF Listed, Registering
  <2> QED
    BY <1>3, <2>1 DEF Holds
<1>11. UsbShape'
  BY <1>1, <1>8 DEF RegInv, UsbShape
<1>12. ASSUME NEW x \in UsbIds, NEW t \in Serials, Placed(x, t), x # id
       PROVE  Placed(x, t)'
  <2>1. CASE Live(x, t)
    BY <1>9, <2>1 DEF Placed
  <2>2. CASE \E j \in 1..Len(hotplug) : GoneAt(j, x)
    <3>1. PICK j \in 1..Len(hotplug) : GoneAt(j, x)
      BY <2>2
    <3>2. j \in 2..Len(hotplug)
      BY <1>9, <1>12, <3>1
    <3>3. j - 1 \in 1..Len(hotplug') /\ GoneAt(j - 1, x)'
      BY <1>8, <3>1, <3>2
    <3> QED
      BY <3>3 DEF Placed
  <2> QED
    BY <1>12, <2>1, <2>2 DEF Placed
<1>13. PlacesFit'
  <2>1. \A x \in UsbIds, t \in Serials : serialById'[x] = t => Placed(x, t)'
    <3>1. SUFFICES ASSUME NEW x \in UsbIds, NEW t \in Serials, serialById'[x] = t
                   PROVE  Placed(x, t)'
      OBVIOUS
    <3>2. x # id /\ serialById[x] = t
      BY <1>3, <3>1
    <3>3. Placed(x, t)
      BY <3>2 DEF RegInv, PlacesFit
    <3> QED
      BY <1>12, <3>2, <3>3
  <2>2. ASSUME NEW i \in 1..Len(hotplug'), NEW x \in UsbIds, NEW t \in Serials, CameAt(i, x, t)'
        PROVE  Live(x, t)' \/ \E j \in (i + 1)..Len(hotplug') : GoneAt(j, x)'
    <3>1. i + 1 \in 1..Len(hotplug) /\ CameAt(i + 1, x, t)
      BY <1>8, <2>2
    <3>2. CASE Live(x, t)
      BY <1>9, <3>2
    <3>3. CASE \E j \in (i + 1 + 1)..Len(hotplug) : GoneAt(j, x)
      <4>1. PICK j \in (i + 1 + 1)..Len(hotplug) : GoneAt(j, x)
        BY <3>3
      <4>2. j \in 2..Len(hotplug) /\ j - 1 \in (i + 1)..Len(hotplug')
        BY <1>8, <4>1
      <4>3. GoneAt(j - 1, x)'
        BY <1>8, <4>1, <4>2
      <4> QED
        BY <4>2, <4>3
    <3> QED
      BY <3>1, <3>2, <3>3 DEF RegInv, PlacesFit
  <2>3. ASSUME NEW j \in 1..Len(hotplug'), NEW x \in UsbIds, GoneAt(j, x)'
        PROVE  usb'[x] = 0
    <3>1. j + 1 \in 1..Len(hotplug) /\ GoneAt(j + 1, x)
      BY <1>8, <2>3
    <3> QED
      BY <1>1, <3>1 DEF RegInv, PlacesFit
  <2>4. \A i \in 1..Len(hotplug') : hotplug'[i].kind = "connected" => hotplug'[i].serial \in Serials
    BY <1>8 DEF RegInv, PlacesFit
  <2>5. \A x, y \in UsbIds : usb'[x] # 0 /\ usb'[y] # 0 /\ plugs'[usb'[x]] = plugs'[usb'[y]] => x = y
    BY <1>1 DEF RegInv, PlacesFit
  <2>6. discoverer'.todo = {}
    BY <1>1
  <2> QED
    BY <2>1, <2>2, <2>3, <2>4, <2>5, <2>6 DEF PlacesFit
<1>14. DiscovererFits'
  BY <1>1 DEF DiscovererFits
<1>15. OrderFits'
  <2>1. ASSUME NEW i \in 1..Len(hotplug'), NEW x \in UsbIds, NEW y \in UsbIds, NEW t \in Serials,
               CameAt(i, x, t)', Live(x, t)', y # x
        PROVE  /\ Holds(y, t)' => \E j \in 1..(i - 1) : GoneAt(j, y)'
               /\ \A k \in 1..(i - 1) : CameAt(k, y, t)' => \E j \in (k + 1)..(i - 1) : GoneAt(j, y)'
    <3>1. i + 1 \in 1..Len(hotplug) /\ CameAt(i + 1, x, t) /\ Live(x, t)
      BY <1>8, <1>9, <2>1
    <3>2. /\ Holds(y, t) => \E j \in 1..((i + 1) - 1) : GoneAt(j, y)
          /\ \A k \in 1..((i + 1) - 1) : CameAt(k, y, t) =>
                 \E j \in (k + 1)..((i + 1) - 1) : GoneAt(j, y)
      BY <2>1, <3>1 DEF RegInv, OrderFits
    <3>3. ASSUME NEW j \in 2..i, GoneAt(j, y)
          PROVE  j - 1 \in 1..(i - 1) /\ GoneAt(j - 1, y)'
      <4>1. j \in 2..Len(hotplug)
        BY <3>1
      <4> QED
        BY <1>8, <3>3, <4>1
    <3>4. Holds(y, t)' => \E j \in 1..(i - 1) : GoneAt(j, y)'
      <4>1. SUFFICES ASSUME Holds(y, t)'
                     PROVE  \E j \in 1..(i - 1) : GoneAt(j, y)'
        OBVIOUS
      <4>2. Holds(y, t) /\ y # id
        BY <1>10, <4>1
      <4>3. PICK j \in 1..i : GoneAt(j, y)
        BY <3>2, <4>2
      <4>4. j \in 2..i
        BY <1>9, <4>2, <4>3
      <4> QED
        BY <3>3, <4>3, <4>4
    <3>5. ASSUME NEW k \in 1..(i - 1), CameAt(k, y, t)'
          PROVE  \E j \in (k + 1)..(i - 1) : GoneAt(j, y)'
      <4>1. k \in 1..Len(hotplug') /\ k + 1 \in 1..((i + 1) - 1)
        BY <1>8
      <4>2. CameAt(k + 1, y, t)
        BY <1>8, <3>5, <4>1
      <4>3. PICK j \in ((k + 1) + 1)..((i + 1) - 1) : GoneAt(j, y)
        BY <3>2, <4>1, <4>2
      <4>4. j \in 2..i /\ j - 1 \in (k + 1)..(i - 1)
        <5>1. i \in Int /\ k \in Int /\ j \in Int
          BY <4>1, <4>3
        <5>2. k >= 1 /\ j >= k + 2 /\ j <= i
          BY <4>1, <4>3, <5>1
        <5> HIDE RegTypes
        <5> QED
          BY <5>1, <5>2
      <4>5. GoneAt(j - 1, y)'
        BY <3>3, <4>3, <4>4
      <4> QED
        BY <4>4, <4>5
    <3> QED
      BY <3>4, <3>5
  <2> QED
    BY <1>10, <2>1 DEF OrderFits
<1>16. NoneMissed'
  <2>1. SUFFICES ASSUME discoverer.complete, NEW x \in UsbIds, NEW t \in Serials, Live(x, t),
                        t \notin I2cSerials
                 PROVE  Holds(x, t)' \/ \E i \in 1..Len(hotplug') : CameAt(i, x, t)'
    BY <1>1, <1>9 DEF NoneMissed
  <2>2. x # id
    BY <1>9, <2>1 DEF Live
  <2>3. Holds(x, t) \/ \E i \in 1..Len(hotplug) : CameAt(i, x, t)
    BY <1>1, <2>1 DEF RegInv, NoneMissed
  <2>4. CASE Holds(x, t)
    BY <1>10, <2>2, <2>4
  <2>5. CASE \E i \in 1..Len(hotplug) : CameAt(i, x, t)
    <3>1. PICK i \in 1..Len(hotplug) : CameAt(i, x, t)
      BY <2>5
    <3>2. i \in 2..Len(hotplug)
      BY <1>9, <3>1
    <3> QED
      BY <1>8, <3>1, <3>2
  <2> QED
    BY <2>3, <2>4, <2>5
<1> QED
  BY <1>4, <1>5, <1>6, <1>7, <1>11, <1>13, <1>14, <1>15, <1>16 DEF RegInv

(***************************************************************************)
(* The theorems                                                            *)
(***************************************************************************)
\* The daemon starts with an empty registry and at most one device attached.
LEMMA RegInitial ==
    ASSUME RegInit
    PROVE  RegInv
<1>1. PICK at \in UsbIds : usb = [u \in UsbIds |-> IF u = at THEN Len(plugs) ELSE 0]
  BY DEF RegInit
<1>2. plugs \in Seq(Serials) /\ Len(plugs) \in {0, 1}
  <2>1. plugs = <<>> \/ \E s \in Serials : plugs = <<s>>
    BY DEF RegInit
  <2>2. CASE plugs = <<>>
    BY <2>2
  <2>3. CASE \E s \in Serials : plugs = <<s>>
    BY <2>3
  <2> QED
    BY <2>1, <2>2, <2>3
<1>3. /\ hotplug = <<>> /\ Len(hotplug) = 0 /\ entries = <<>> /\ Len(entries) = 0
      /\ lost = <<>> /\ settings \in Configurations /\ discoverer = DiscoveryIdle
  BY DEF RegInit
<1>4. usb \in [UsbIds -> 0..Len(plugs)]
  BY <1>1, <1>2
<1>5. DiscoveryIdle \in Discoverers
  BY DEF DiscoveryIdle, Discoverers, Candidates
<1>6. UsbShape
  BY <1>2, <1>3, <1>4, <1>5 DEF UsbShape
<1>7. NoDevice \in DeviceRecords /\ NewCommand \in HttpCommands
  BY DEF NoDevice, DeviceRecords, Statuses, NewCommand, HttpCommands
<1>8. StateShape
  BY <1>3, <1>7 DEF StateShape, RegInit
<1>9. CommandShape
  BY <1>7 DEF CommandShape, RegInit
<1>10. EntriesFit /\ RecordsFit /\ EndpointsKept
  BY <1>3, RegAssumption DEF EntriesFit, RecordsFit, EndpointsKept, RegInit, NoDevice
<1>11. CommandsFit
  BY DEF CommandsFit, CommandFits, RegInit, NewCommand
<1>12. LinksFit
  BY RegAssumption DEF LinksFit, RegInit, NoDevice
<1>13. /\ discoverer.pc = "start" /\ discoverer.todo = {}
       /\ \A id \in UsbIds : serialById[id] = NoSerial
  BY <1>3 DEF RegInit, DiscoveryIdle
<1>14. PlacesFit
  BY <1>1, <1>3, <1>13, RegAssumption DEF PlacesFit
<1>15. DiscovererFits
  BY <1>3, <1>13 DEF DiscovererFits
<1>16. OrderFits
  BY <1>3, <1>13 DEF OrderFits, Listed, Registering
<1>17. NoneMissed
  BY <1>13 DEF NoneMissed
<1> QED
  BY <1>6, <1>8, <1>9, <1>10, <1>11, <1>12, <1>14, <1>15, <1>16, <1>17 DEF RegInv

\* A step of some other program changes nothing here.
LEMMA RegStutterKeeps ==
    ASSUME RegInv, UNCHANGED regVars
    PROVE  RegInv'
<1>1. UNCHANGED <<settings, usb, plugs, hotplug, discoverer, devices, serialById, generations,
                  legacySerial, entries, pending, attempts, lost, httpCommands, ranOn>>
  BY DEF regVars, usbVars, stateVars, i2cVars
<1>2. EntriesGrow /\ EntriesFit'
  BY <1>1, EntriesSame
<1>3. CommandShape' /\ CommandsFit' /\ RecordsFit'
  BY <1>1, <1>2, CommandsSame, RecordsSame
<1>4. UsbShape' /\ PlacesFit' /\ DiscovererFits' /\ OrderFits' /\ NoneMissed'
  BY <1>1, DiscoverySame
<1>5. LinksFit'
  BY <1>1, LinksSame
<1>6. StateShape' /\ EndpointsKept'
  BY <1>1 DEF RegInv, StateShape, EndpointsKept
<1> QED
  BY <1>2, <1>3, <1>4, <1>5, <1>6 DEF RegInv

\* Every step keeps the invariant.
LEMMA RegStep ==
    ASSUME RegInv, [RegNext]_regVars
    PROVE  RegInv'
<1>1. CASE PlugIn \/ PullOut
  BY <1>1, PlugInKeeps, PullOutKeeps
<1>2. CASE WatchStarts \/ ListsDevices
  BY <1>2, WatchStartsKeeps, ListsDevicesKeeps
<1>3. CASE AttachesListed \/ AttachesConnected
  BY <1>3, AttachesListedKeeps, AttachesConnectedKeeps
<1>4. CASE RegistersUsb \/ Detaches
  BY <1>4, RegistersUsbKeeps, DetachesKeeps
<1>5. CASE RegistersI2c \/ HandlesLost
  BY <1>5, RegistersI2cKeeps, HandlesLostKeeps
<1>6. CASE RegistrationFails \/ Retries
  BY <1>6, RetriesKeeps
<1>7. CASE LooksUp \/ CommandStarts \/ ReopenFails
  BY <1>7, LooksUpKeeps, CommandStartsKeeps, ReopenFailsKeeps
<1>8. CASE Transmits \/ TransmitFails
  BY <1>8, TransmitsKeeps
<1>9. CASE UNCHANGED regVars
  BY <1>9, RegStutterKeeps
<1> QED
  BY <1>1, <1>2, <1>3, <1>4, <1>5, <1>6, <1>7, <1>8, <1>9 DEF RegNext

\* The invariant of the registry, its entries, the discovery task and the requests
\* holds in every reachable state.
THEOREM RegInvariance == RegSpec => []RegInv
<1>1. RegInit => RegInv
  BY RegInitial
<1>2. RegInv /\ [RegNext]_regVars => RegInv'
  BY RegStep
<1> QED
  BY <1>1, <1>2, PTL DEF RegSpec

\* A request runs at most once, and only on the device whose entry it was given: the
\* record may be gone and the identifier reused by then.  A device outside --serials
\* runs legacy requests only, and none unless it is the legacy device.
THEOREM CommandsRunWhereAddressed == RegSpec => []RunsOnAddressed
<1>1. ASSUME RegInv
      PROVE  RunsOnAddressed
  <2>1. ASSUME NEW c \in CommandIds
        PROVE  /\ Len(ranOn[c]) <= 1
               /\ \A i \in 1..Len(ranOn[c]) :
                   /\ ranOn[c][i] = entries[httpCommands[c].entry].serial
                   /\ ranOn[c][i] \notin settings.serials =>
                          httpCommands[c].api = "legacy" /\ ranOn[c][i] = settings.legacy
    <3>1. CommandFits(httpCommands[c], ranOn[c]) /\ EntriesFit
      BY <1>1 DEF RegInv, CommandsFit
    <3>2. CASE ranOn[c] = <<>>
      BY <3>2
    <3>3. CASE ranOn[c] # <<>>
      <4>1. httpCommands[c].entry \in 1..Len(entries)
        BY <3>1, <3>3 DEF CommandFits
      <4>2. PICK s \in Serials : s = entries[httpCommands[c].entry].serial
        BY <1>1, <4>1, RegTypes DEF DeviceEntries
      <4>3. ranOn[c] = <<s>> /\ Len(ranOn[c]) = 1 /\ ranOn[c][1] = s
        <5>1. ranOn[c] = <<s>>
          BY <3>1, <3>3, <4>2 DEF CommandFits
        <5> QED
          BY <5>1
      <4>4. httpCommands[c].api = "legacy" \/ ~entries[httpCommands[c].entry].legacyOnly
        BY <3>1, <3>3 DEF CommandFits
      <4>5. s \notin settings.serials => httpCommands[c].api = "legacy" /\ s = settings.legacy
        BY <3>1, <4>1, <4>2, <4>4 DEF EntriesFit, EntryFits, ShouldClaim, AllowsSerial
      <4> QED
        BY <4>2, <4>3, <4>5
    <3> QED
      BY <3>2, <3>3
  <2> QED
    BY <2>1 DEF RunsOnAddressed
<1> QED
  BY <1>1, RegInvariance, PTL

\* Discovery that has caught up knows exactly the attached devices, and a configured
\* I2C endpoint is registered or will be tried again.
THEOREM InventoryIsExact == RegSpec => []InventoryExact
<1>1. ASSUME RegInv
      PROVE  InventoryExact
  <2>1. EndpointsKept /\ PlacesFit /\ LinksFit /\ NoneMissed
    BY <1>1 DEF RegInv
  <2>2. ASSUME discoverer.pc = "events", discoverer.complete, discoverer.todo = {},
               hotplug = <<>>, NEW id \in UsbIds
        PROVE  /\ serialById[id] # NoSerial =>
                      /\ usb[id] # 0 /\ plugs[usb[id]] = serialById[id]
                      /\ devices[serialById[id]].kind = "usb"
               /\ usb[id] # 0 /\ plugs[usb[id]] \notin I2cSerials =>
                      serialById[id] = plugs[usb[id]]
    <3>1. Len(hotplug) = 0
      BY <2>2
    <3>2. ASSUME serialById[id] # NoSerial
          PROVE  /\ usb[id] # 0 /\ plugs[usb[id]] = serialById[id]
                 /\ devices[serialById[id]].kind = "usb"
      <4>1. serialById[id] \in Serials
        BY <1>1, <3>2, RegTypes
      <4>2. Live(id, serialById[id])
        BY <2>1, <3>1, <4>1 DEF PlacesFit, Placed
      <4> QED
        BY <2>1, <3>2, <4>2 DEF Live, LinksFit
    <3>3. ASSUME usb[id] # 0, plugs[usb[id]] \notin I2cSerials
          PROVE  serialById[id] = plugs[usb[id]]
      <4>1. plugs[usb[id]] \in Serials
        BY <1>1, <3>3, RegTypes
      <4>2. Live(id, plugs[usb[id]])
        BY <3>3 DEF Live
      <4>3. Holds(id, plugs[usb[id]])
        BY <2>1, <2>2, <3>1, <3>3, <4>1, <4>2 DEF NoneMissed
      <4> QED
        BY <2>2, <4>3 DEF Holds, Listed, Registering
    <3> QED
      BY <3>2, <3>3
  <2> QED
    BY <2>1, <2>2 DEF InventoryExact, EndpointsKept
<1> QED
  BY <1>1, RegInvariance, PTL

\* A record that is replaced leaves the others as they are.
LEMMA OtherRecords ==
    ASSUME RegInv, NEW t \in Serials, NEW record, devices' = [devices EXCEPT ![t] = record],
           NEW s \in Serials, s # t
    PROVE  devices'[s] = devices[s]
  BY RegTypes

\* register leaves a record that is there alone.
LEMMA RegisterKeepsTaken ==
    ASSUME RegInv, NEW id, NEW t \in Serials, NEW record, Register(id, t, record),
           NEW s \in Serials, devices[s].kind = "i2c"
    PROVE  devices'[s] = devices[s]
<1>1. Taken(s)
  BY DEF RegInv, RecordsFit, Taken
<1>2. CASE Taken(t)
  BY <1>2 DEF Register
<1>3. CASE ~Taken(t)
  BY <1>1, <1>3, OtherRecords DEF Register
<1> QED
  BY <1>2, <1>3

\* The record of a connected endpoint leaves the registry only with an event that
\* names its generation, so that a loss reported through an old connection does not
\* remove the registration that replaced it.
THEOREM LossesNameRegistrations == RegSpec => LossNamesRegistration
<1> DEFINE Named(s) == /\ lost # <<>>
                       /\ Head(lost) = [serial |-> s, generation |-> devices[s].generation]
<1>1. ASSUME RegInv, [RegNext]_regVars, NEW s \in I2cSerials,
             devices[s].kind = "i2c", devices'[s].kind # "i2c"
      PROVE  Named(s)
  <2>1. s \in Serials /\ RegInv'
    BY <1>1, RegTypes, RegStep
  <2>2. devices' # devices /\ devices'[s] # devices[s]
    BY <1>1
  <2>3. Taken(s)
    BY <1>1, <2>1 DEF RegInv, RecordsFit, Taken
  <2>4. CASE HandlesLost
    <3>1. PICK t : t = Head(lost).serial
      OBVIOUS
    <3>2. lost # <<>>
      BY <2>4 DEF HandlesLost
    <3>3. Head(lost) \in [serial : Serials, generation : Nat]
      <4>1. PICK S : S = [serial : Serials, generation : Nat]
        OBVIOUS
      <4>2. lost \in Seq(S)
        BY <1>1, <4>1, RegTypes
      <4> QED
        BY <3>2, <4>1, <4>2, QueueTail
    <3>4. /\ devices' = [devices EXCEPT ![t] = NoDevice]
          /\ devices[t].generation = Head(lost).generation
      BY <2>2, <2>4, <3>1 DEF HandlesLost
    <3>5. t = s
      BY <1>1, <2>1, <2>2, <3>1, <3>3, <3>4, OtherRecords
    <3>6. Head(lost) = [serial |-> s, generation |-> devices[s].generation]
      BY <3>1, <3>3, <3>4, <3>5
    <3> QED
      BY <3>2, <3>6
  <2>5. CASE Detaches
    <3>1. PICK id : id = Head(hotplug).id
      OBVIOUS
    <3>2. id \in UsbIds
      BY <1>1, <2>5, <3>1, RegTypes, QueueTail DEF Detaches, HotplugEvents
    <3>3. /\ serialById[id] # NoSerial
          /\ devices' = [devices EXCEPT ![serialById[id]] = NoDevice]
      BY <2>2, <2>5, <3>1 DEF Detaches
    <3>4. serialById[id] \in Serials /\ devices[serialById[id]].kind = "usb"
      BY <1>1, <3>2, <3>3, RegTypes DEF RegInv, LinksFit
    <3>5. s = serialById[id]
      BY <1>1, <2>1, <2>2, <3>3, <3>4, OtherRecords
    <3> QED
      BY <1>1, <3>4, <3>5
  <2>6. CASE RegistersI2c
    <3>1. PICK t \in attempts :
              ~Taken(t) /\ \E record : devices' = [devices EXCEPT ![t] = record]
      BY <2>6 DEF RegistersI2c
    <3>2. t \in Serials
      BY <1>1, <3>1, RegTypes
    <3> QED
      BY <1>1, <2>1, <2>2, <2>3, <3>1, <3>2, OtherRecords
  <2>7. ASSUME NEW candidate, candidate.serial \in Serials, AttachCandidate(candidate)
        PROVE  FALSE
    <3>1. \/ devices' = devices
          \/ \E record : Register(candidate.id, candidate.serial, record)
      BY <2>7 DEF AttachCandidate, stateVars
    <3> QED
      BY <1>1, <2>1, <2>2, <2>7, <3>1, RegisterKeepsTaken
  <2>8. CASE AttachesListed
    <3>1. PICK candidate \in discoverer.todo : AttachCandidate(candidate)
      BY <2>8 DEF AttachesListed
    <3>2. candidate.serial \in Serials
      BY <1>1, <3>1, RegTypes DEF Discoverers, Candidates
    <3> QED
      BY <2>7, <3>1, <3>2
  <2>9. CASE AttachesConnected
    <3>1. PICK candidate :
              /\ candidate = [id |-> Head(hotplug).id, serial |-> Head(hotplug).serial]
              /\ AttachCandidate(candidate)
      BY <2>9 DEF AttachesConnected
    <3>2. hotplug # <<>> /\ Head(hotplug).kind = "connected"
      BY <2>9 DEF AttachesConnected
    <3>3. candidate.serial \in Serials
      BY <1>1, <3>1, <3>2, RegTypes, QueueTail DEF RegInv, PlacesFit
    <3> QED
      BY <2>7, <3>1, <3>3
  <2>10. CASE RegistersUsb
    <3>1. discoverer.candidate.serial \in Serials
      BY <1>1, <2>10 DEF RegInv, DiscovererFits, RegistersUsb, Candidates
    <3>2. \E record : Register(discoverer.candidate.id, discoverer.candidate.serial, record)
      BY <2>10 DEF RegistersUsb
    <3> QED
      BY <1>1, <2>1, <2>2, <3>1, <3>2, RegisterKeepsTaken
  <2>11. CASE PlugIn \/ PullOut \/ WatchStarts \/ ListsDevices
    BY <2>2, <2>11 DEF PlugIn, PullOut, WatchStarts, ListsDevices, stateVars
  <2>12. CASE RegistrationFails \/ Retries \/ LooksUp \/ CommandStarts \/ ReopenFails
    BY <2>2, <2>12, SMTT(30) DEF RegistrationFails, Retries, LooksUp, CommandStarts, ReopenFails, stateVars
  <2>13. CASE Transmits \/ TransmitFails \/ UNCHANGED regVars
    BY <2>2, <2>13 DEF Transmits, TransmitFails, regVars, stateVars
  <2> QED
    BY <1>1, <2>4, <2>5, <2>6, <2>8, <2>9, <2>10, <2>11, <2>12, <2>13 DEF RegNext
<1>2. RegInv /\ [RegNext]_regVars =>
          [\A s \in I2cSerials : devices[s].kind = "i2c" /\ devices'[s].kind # "i2c" =>
               /\ lost # <<>>
               /\ Head(lost) = [serial |-> s, generation |-> devices[s].generation]]_regVars
  BY <1>1
<1> QED
  BY <1>2, RegInvariance, PTL DEF RegSpec, LossNamesRegistration
=============================================================================
