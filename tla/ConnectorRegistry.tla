-------------------------- MODULE ConnectorRegistry --------------------------
(***************************************************************************)
(* The device registry of the connector daemon.  One task follows USB      *)
(* hot-plug events, one coordinator registers the configured I2C endpoints *)
(* and retries those it lost, and every HTTP request looks its device up   *)
(* and then waits for the transport of the entry it found, which the       *)
(* registry may have dropped in the meantime.                              *)
(*                                                                         *)
(* A plug number stands for one attachment of a device, and so for a USB   *)
(* handle.  USB identifiers are reused, but not while an event about their *)
(* last holder is still queued.  An I2C endpoint is named by the serial of *)
(* its device, which answers or fails at any time.                         *)
(***************************************************************************)
EXTENDS Integers, Sequences

CONSTANTS
    Serials,          \* serial numbers of devices
    UsbIds,           \* USB device identifiers
    I2cSerials,       \* the devices of the configured I2C endpoints
    Configurations,   \* values of --serials and --legacy-serial
    NoSerial,
    CommandIds,       \* the HTTP requests
    MaxPlugs,         \* bound on the attachments
    MaxGenerations    \* bound on the I2C registrations

ASSUME RegAssumption ==
    /\ NoSerial \notin Serials
    /\ I2cSerials \subseteq Serials
    /\ Configurations \subseteq [serials : SUBSET Serials, legacy : Serials \cup {NoSerial}]
    /\ MaxPlugs \in Nat /\ MaxGenerations \in Nat

VARIABLES
    settings,     \* the daemon's --serials and --legacy-serial
    usb,          \* the plug at each USB identifier, 0 for none
    plugs,        \* the serials of the plugs so far
    hotplug,      \* hot-plug events the discovery task has not taken
    discoverer,   \* the discovery task
    devices,      \* RegistryState.records: a record for each serial, or NoDevice
    serialById,   \* RegistryState.serial_by_id
    generations,  \* RegistryState.connection_generations
    legacySerial, \* RegistryState.legacy_serial
    entries,      \* the DeviceEntry values created so far, with their transports
    pending,      \* the coordinator's endpoints to register
    attempts,     \* the ones of this round it has not tried yet
    lost,         \* EndpointLost events
    httpCommands, \* the HTTP requests
    ranOn         \* the devices that ran each request

usbVars == <<settings, usb, plugs, hotplug>>
stateVars == <<devices, serialById, generations, legacySerial>>
i2cVars == <<pending, attempts, lost>>
regVars == <<usbVars, discoverer, stateVars, entries, i2cVars, httpCommands, ranOn>>

NoDevice == [status |-> "none", kind |-> "none", generation |-> 0, entry |-> 0]
DiscoveryIdle == [pc |-> "start", todo |-> {}, complete |-> TRUE,
         candidate |-> [id |-> NoSerial, serial |-> NoSerial], handle |-> 0, generation |-> 0]

NewCommand == [pc |-> "new", api |-> "none", entry |-> 0]

RegInit ==
    /\ settings \in Configurations
    /\ plugs \in {<<>>} \cup {<<s>> : s \in Serials}
    /\ \E id \in UsbIds : usb = [u \in UsbIds |-> IF u = id THEN Len(plugs) ELSE 0]
    /\ hotplug = <<>> /\ discoverer = DiscoveryIdle
    /\ devices = [s \in Serials |-> NoDevice]
    /\ serialById = [id \in UsbIds |-> NoSerial]
    /\ generations = [s \in Serials |-> 0]
    /\ legacySerial = NoSerial
    /\ entries = <<>>
    /\ pending = I2cSerials /\ attempts = I2cSerials /\ lost = <<>>
    /\ httpCommands = [c \in CommandIds |-> NewCommand]
    /\ ranOn = [c \in CommandIds |-> <<>>]

Statuses == {"none", "claimed", "unclaimed", "filtered"}

\* Type invariant: the shape of the registry, its entries and its tasks.
RegTypeOK ==
    /\ usb \in [UsbIds -> 0..Len(plugs)] /\ plugs \in Seq(Serials)
    /\ devices \in [Serials -> [status : Statuses, kind : {"none", "usb", "i2c"},
                                generation : Nat, entry : 0..Len(entries)]]
    /\ serialById \in [UsbIds -> Serials \cup {NoSerial}]
    /\ generations \in [Serials -> Nat]
    /\ legacySerial \in Serials \cup {NoSerial}
    /\ attempts \subseteq pending /\ pending \subseteq I2cSerials
    /\ discoverer.pc \in {"start", "list", "events", "register", "stopped"}
    /\ \A c \in CommandIds : /\ httpCommands[c].pc \in {"new", "found", "running", "done"}
                             /\ httpCommands[c].entry \in 0..Len(entries)

(***************************************************************************)
(* Devices come and go                                                     *)
(***************************************************************************)
\* Mutant of Watching: the watch starts after the devices of the initial list.
WatchingLate == discoverer.pc \in {"events", "register"} /\ discoverer.todo = {}

\* Hot-plug events are queued from the start of the watch.
Watching == discoverer.pc \in {"list", "events", "register"}

Event(kind, id, serial) ==
    IF Watching THEN Append(hotplug, [kind |-> kind, id |-> id, serial |-> serial])
                ELSE hotplug

InUse(id) ==
    \/ \E i \in 1..Len(hotplug) : hotplug[i].id = id
    \/ \E candidate \in discoverer.todo : candidate.id = id
    \/ discoverer.pc = "register" /\ discoverer.candidate.id = id

Attached(s) == \E id \in UsbIds : usb[id] # 0 /\ plugs[usb[id]] = s

PlugIn ==
    /\ Len(plugs) < MaxPlugs
    /\ \E id \in UsbIds, s \in Serials :
           /\ usb[id] = 0 /\ ~InUse(id) /\ ~Attached(s)
           /\ plugs' = Append(plugs, s)
           /\ usb' = [usb EXCEPT ![id] = Len(plugs')]
           /\ hotplug' = Event("connected", id, s)
    /\ UNCHANGED <<settings, discoverer, stateVars, entries, i2cVars, httpCommands, ranOn>>

PullOut ==
    /\ \E id \in UsbIds :
           /\ usb[id] # 0
           /\ usb' = [usb EXCEPT ![id] = 0]
           /\ hotplug' = Event("disconnected", id, NoSerial)
    /\ UNCHANGED <<settings, plugs, discoverer, stateVars, entries, i2cVars, httpCommands, ranOn>>

(***************************************************************************)
(* RegistryState, under its lock                                           *)
(***************************************************************************)
AllowsSerial(s) == s \in settings.serials
ShouldClaim(s) == AllowsSerial(s) \/ s = settings.legacy
Taken(s) == devices[s].status # "none"

Record(status, kind, generation, entry) ==
    [status |-> status, kind |-> kind, generation |-> generation, entry |-> entry]

\* register: a serial that has a record is a duplicate and is left out.
Register(id, s, record) ==
    IF Taken(s)
    THEN UNCHANGED <<devices, serialById, legacySerial>>
    ELSE /\ devices' = [devices EXCEPT ![s] = record]
         /\ serialById' = [serialById EXCEPT ![id] = s]
         /\ legacySerial' = IF record.status = "claimed" /\ legacySerial = NoSerial
                            THEN s ELSE legacySerial

NextGeneration(s) ==
    /\ generations[s] < MaxGenerations
    /\ generations' = [generations EXCEPT ![s] = @ + 1]

Entry(s, kind, id, generation, handle) ==
    [serial |-> s, kind |-> kind, id |-> id, generation |-> generation,
     legacyOnly |-> ~AllowsSerial(s), handle |-> handle, holder |-> NoSerial]

(***************************************************************************)
(* The discovery task                                                      *)
(***************************************************************************)
WatchStarts ==
    /\ discoverer.pc = "start"
    /\ \E pc \in {"list", "stopped"} : discoverer' = [discoverer EXCEPT !.pc = pc]
    /\ UNCHANGED <<usbVars, stateVars, entries, i2cVars, httpCommands, ranOn>>

\* The initial enumeration, which may fail.
ListsDevices ==
    /\ discoverer.pc = "list"
    /\ LET attached == {[id |-> id, serial |-> plugs[usb[id]]] :
                            id \in {u \in UsbIds : usb[u] # 0}}
       IN  \E complete \in BOOLEAN :
               discoverer' = [discoverer EXCEPT !.pc = "events", !.complete = complete,
                                              !.todo = IF complete THEN attached ELSE {}]
    /\ UNCHANGED <<usbVars, stateVars, entries, i2cVars, httpCommands, ranOn>>

\* attach_candidate up to the claim.  A known identifier is skipped, an excluded
\* serial recorded as such; the others are opened and claimed, which fails when the
\* device is gone or another program has it.
AttachCandidate(candidate) ==
    LET id == candidate.id  s == candidate.serial
    IN  IF serialById[id] # NoSerial
        THEN /\ discoverer' = [discoverer EXCEPT !.todo = @ \ {candidate}]
             /\ UNCHANGED <<stateVars, entries>>
        ELSE /\ NextGeneration(s)
             /\ IF ShouldClaim(s)
                THEN /\ \E handle \in {0, usb[id]} :
                            discoverer' = [discoverer EXCEPT !.pc = "register", !.handle = handle,
                                              !.todo = @ \ {candidate}, !.candidate = candidate,
                                              !.generation = generations'[s]]
                     /\ UNCHANGED <<devices, serialById, legacySerial>>
                ELSE /\ Register(id, s, Record("filtered", "usb", generations'[s], 0))
                     /\ discoverer' = [discoverer EXCEPT !.todo = @ \ {candidate}]
             /\ UNCHANGED entries

AttachesListed ==
    /\ discoverer.pc = "events"
    /\ \E candidate \in discoverer.todo : AttachCandidate(candidate)
    /\ UNCHANGED <<usbVars, i2cVars, httpCommands, ranOn>>

AttachesConnected ==
    /\ discoverer.pc = "events" /\ discoverer.todo = {}
    /\ hotplug # <<>> /\ Head(hotplug).kind = "connected"
    /\ AttachCandidate([id |-> Head(hotplug).id, serial |-> Head(hotplug).serial])
    /\ hotplug' = Tail(hotplug)
    /\ UNCHANGED <<settings, usb, plugs, i2cVars, httpCommands, ranOn>>

\* The end of attach_candidate: the device is registered with the generation it drew.
RegistersUsb ==
    /\ discoverer.pc = "register"
    /\ LET id == discoverer.candidate.id  s == discoverer.candidate.serial
           claimed == discoverer.handle # 0
       IN  /\ Register(id, s, Record(IF claimed THEN "claimed" ELSE "unclaimed", "usb",
                                     discoverer.generation,
                                     IF claimed THEN Len(entries) + 1 ELSE 0))
           /\ entries' = IF claimed /\ ~Taken(s)
                         THEN Append(entries, Entry(s, "usb", id, discoverer.generation,
                                                    discoverer.handle))
                         ELSE entries
    /\ discoverer' = [discoverer EXCEPT !.pc = "events", !.handle = 0, !.generation = 0,
                                      !.candidate = DiscoveryIdle.candidate]
    /\ UNCHANGED <<usbVars, generations, i2cVars, httpCommands, ranOn>>

\* detach: the record of the identifier goes; commands keep the entry they found.
Detaches ==
    /\ discoverer.pc = "events" /\ discoverer.todo = {}
    /\ hotplug # <<>> /\ Head(hotplug).kind = "disconnected"
    /\ LET id == Head(hotplug).id
       IN  /\ devices' = IF serialById[id] = NoSerial THEN devices
                         ELSE [devices EXCEPT ![serialById[id]] = NoDevice]
           /\ serialById' = [serialById EXCEPT ![id] = NoSerial]
    /\ hotplug' = Tail(hotplug)
    /\ UNCHANGED <<settings, usb, plugs, discoverer, generations, legacySerial, entries, i2cVars,
                   httpCommands, ranOn>>

(***************************************************************************)
(* The coordinator of the I2C endpoints                                    *)
(***************************************************************************)
\* register_one: the device answers, its serial has no record yet.
RegistersI2c ==
    /\ \E s \in attempts :
           /\ ~Taken(s)
           /\ NextGeneration(s)
           /\ LET record(status, entry) == Record(status, "i2c", generations'[s], entry)
              IN  IF ShouldClaim(s)
                  THEN /\ devices' = [devices EXCEPT ![s] = record("claimed", Len(entries) + 1)]
                       /\ entries' = Append(entries, Entry(s, "i2c", NoSerial, generations'[s], 1))
                       /\ legacySerial' = IF legacySerial = NoSerial THEN s ELSE legacySerial
                  ELSE /\ devices' = [devices EXCEPT ![s] = record("filtered", 0)]
                       /\ UNCHANGED <<entries, legacySerial>>
           /\ pending' = pending \ {s} /\ attempts' = attempts \ {s}
    /\ UNCHANGED <<usbVars, discoverer, serialById, lost, httpCommands, ranOn>>

\* register_one fails, also because another device has the serial: it is retried.
RegistrationFails ==
    /\ \E s \in attempts : attempts' = attempts \ {s}
    /\ UNCHANGED <<usbVars, discoverer, stateVars, entries, pending, lost, httpCommands, ranOn>>

Retries ==
    /\ attempts = {} /\ pending # {}
    /\ attempts' = pending
    /\ UNCHANGED <<usbVars, discoverer, stateVars, entries, pending, lost, httpCommands, ranOn>>

\* Mutant of HandlesLost: the generation of the event is not compared.
HandlesLostAny ==
    /\ attempts = {} /\ lost # <<>>
    /\ LET s == Head(lost).serial
       IN  IF devices[s].kind = "i2c"
           THEN /\ devices' = [devices EXCEPT ![s] = NoDevice]
                /\ legacySerial' = IF legacySerial = s THEN NoSerial ELSE legacySerial
                /\ pending' = pending \cup {s}
           ELSE UNCHANGED <<devices, legacySerial, pending>>
    /\ lost' = Tail(lost)
    /\ UNCHANGED <<usbVars, discoverer, serialById, generations, entries, attempts,
                   httpCommands, ranOn>>

\* handle_event and remove_i2c: only the registration that was lost is removed.
HandlesLost ==
    /\ attempts = {} /\ lost # <<>>
    /\ LET s == Head(lost).serial
       IN  IF devices[s].kind = "i2c" /\ devices[s].generation = Head(lost).generation
           THEN /\ devices' = [devices EXCEPT ![s] = NoDevice]
                /\ legacySerial' = IF legacySerial = s THEN NoSerial ELSE legacySerial
                /\ pending' = pending \cup {s}
           ELSE UNCHANGED <<devices, legacySerial, pending>>
    /\ lost' = Tail(lost)
    /\ UNCHANGED <<usbVars, discoverer, serialById, generations, entries, attempts,
                   httpCommands, ranOn>>

(***************************************************************************)
(* HTTP requests                                                           *)
(***************************************************************************)
\* get for the device API, select_legacy for the legacy one.
Finds(api, s) ==
    /\ devices[s].status = "claimed"
    /\ \/ api = "device" /\ ~entries[devices[s].entry].legacyOnly
       \/ /\ api = "legacy"
          /\ s = IF settings.legacy = NoSerial THEN legacySerial ELSE settings.legacy

\* A request is answered and drops its entry; what ran is compared with it.
Finished(c, ran) ==
    [httpCommands EXCEPT ![c] = IF ran = <<>> THEN [NewCommand EXCEPT !.pc = "done"]
                                              ELSE [@ EXCEPT !.pc = "done"]]

\* The request holds on to the entry it found; without one it is refused.
LooksUp ==
    /\ \E c \in CommandIds, api \in {"device", "legacy"} :
           /\ httpCommands[c].pc = "new"
           /\ \/ \E s \in Serials :
                     /\ Finds(api, s)
                     /\ httpCommands' = [httpCommands EXCEPT ![c] = [pc |-> "found", api |-> api,
                                                             entry |-> devices[s].entry]]
              \/ /\ \E s \in Serials : ~Finds(api, s)
                 /\ httpCommands' = Finished(c, <<>>)
    /\ UNCHANGED <<usbVars, discoverer, stateVars, entries, i2cVars, ranOn>>

\* The transport is there: the device still answers on the handle.
Connected(entry) ==
    entry.kind = "usb" => entry.handle # 0 /\ usb[entry.id] = entry.handle

\* Mutant of Reopened: the serial of the device at the identifier is not compared.
ReopenedAnySerial(entry) ==
    IF entry.kind = "usb" THEN {usb[entry.id]} \ {0} ELSE {1}

\* factory.open and reopen_verified: the handle is opened again at the same place if
\* the device there has the same serial.
Reopened(entry) ==
    IF entry.kind = "usb"
    THEN {p \in {usb[entry.id]} \ {0} : plugs[p] = entry.serial}
    ELSE {1}

\* The request takes the transport of the entry, which is reopened if it was dropped.
CommandStarts ==
    /\ \E c \in CommandIds :
           LET e == httpCommands[c].entry
           IN  /\ httpCommands[c].pc = "found" /\ entries[e].holder = NoSerial
               /\ \E handle \in (IF entries[e].handle # 0 THEN {entries[e].handle}
                                                          ELSE Reopened(entries[e])) :
                      entries' = [entries EXCEPT ![e].handle = handle, ![e].holder = c]
               /\ httpCommands' = [httpCommands EXCEPT ![c].pc = "running"]
    /\ UNCHANGED <<usbVars, discoverer, stateVars, i2cVars, ranOn>>

ReopenFails ==
    /\ \E c \in CommandIds :
           /\ httpCommands[c].pc = "found"
           /\ entries[httpCommands[c].entry].holder = NoSerial
           /\ entries[httpCommands[c].entry].handle = 0
           /\ httpCommands' = Finished(c, ranOn[c])
    /\ UNCHANGED <<usbVars, discoverer, stateVars, entries, i2cVars, ranOn>>

\* The device behind the handle.
Behind(entry) == IF entry.kind = "usb" THEN plugs[entry.handle] ELSE entry.serial

\* The transport answers, or refuses a command that it does not send.
Transmits ==
    /\ \E c \in CommandIds :
           LET e == httpCommands[c].entry
           IN  /\ httpCommands[c].pc = "running"
               /\ \/ UNCHANGED ranOn
                  \/ /\ Connected(entries[e])
                     /\ ranOn' = [ranOn EXCEPT ![c] = Append(@, Behind(entries[e]))]
               /\ entries' = [entries EXCEPT ![e].holder = NoSerial]
               /\ httpCommands' = Finished(c, ranOn'[c])
    /\ UNCHANGED <<usbVars, discoverer, stateVars, i2cVars>>

\* An error of the transport after the command may have run: the handle is dropped
\* and the command is not replayed.  An I2C endpoint that is unavailable is reported.
TransmitFails ==
    /\ \E c \in CommandIds :
           LET e == httpCommands[c].entry
           IN  /\ httpCommands[c].pc = "running"
               /\ \/ UNCHANGED ranOn
                  \/ /\ Connected(entries[e])
                     /\ ranOn' = [ranOn EXCEPT ![c] = Append(@, Behind(entries[e]))]
               /\ entries' = [entries EXCEPT ![e].holder = NoSerial, ![e].handle = 0]
               /\ \/ UNCHANGED lost
                  \/ /\ entries[e].kind = "i2c"
                     /\ lost' = Append(lost, [serial |-> entries[e].serial,
                                              generation |-> entries[e].generation])
               /\ httpCommands' = Finished(c, ranOn'[c])
    /\ UNCHANGED <<usbVars, discoverer, stateVars, pending, attempts>>

RegNext ==
    \/ PlugIn \/ PullOut
    \/ WatchStarts \/ ListsDevices \/ AttachesListed \/ AttachesConnected \/ RegistersUsb
    \/ Detaches
    \/ RegistersI2c \/ RegistrationFails \/ Retries \/ HandlesLost
    \/ LooksUp \/ CommandStarts \/ ReopenFails \/ Transmits \/ TransmitFails

RegSpec == RegInit /\ [][RegNext]_regVars

(***************************************************************************)
(* Properties                                                              *)
(***************************************************************************)
\* A command runs only on the device whose entry it was given, although the record
\* may be gone and the identifier reused by then, and it is not submitted again after
\* it failed half way; a device outside --serials runs legacy commands only, and none
\* unless it is the legacy device.
RunsOnAddressed ==
    \A c \in CommandIds :
        /\ Len(ranOn[c]) <= 1
        /\ \A i \in 1..Len(ranOn[c]) :
            /\ ranOn[c][i] = entries[httpCommands[c].entry].serial
            /\ ranOn[c][i] \notin settings.serials =>
                   httpCommands[c].api = "legacy" /\ ranOn[c][i] = settings.legacy

\* Once discovery has caught up, the USB records are exactly the attached devices:
\* no attachment is missed between the watch and the list, and an event about an old
\* attachment never removes or hides a newer one.  A configured I2C endpoint is never
\* given up: it has its record or it is pending.
InventoryExact ==
    /\ discoverer.pc = "events" /\ discoverer.complete /\ discoverer.todo = {} /\ hotplug = <<>> =>
           \A id \in UsbIds :
               /\ serialById[id] # NoSerial =>
                      /\ usb[id] # 0 /\ plugs[usb[id]] = serialById[id]
                      /\ devices[serialById[id]].kind = "usb"
               /\ usb[id] # 0 /\ plugs[usb[id]] \notin I2cSerials =>
                      serialById[id] = plugs[usb[id]]
    /\ \A s \in I2cSerials : s \in pending \/ devices[s].kind = "i2c"

\* A loss reported through an old connection does not remove the endpoint's new
\* registration: a record disappears with an event that names its generation.
LossNamesRegistration ==
    [][\A s \in I2cSerials :
           devices[s].kind = "i2c" /\ devices'[s].kind # "i2c" =>
               /\ lost # <<>>
               /\ Head(lost) = [serial |-> s, generation |-> devices[s].generation]]_regVars
=============================================================================
