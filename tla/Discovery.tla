----------------------------- MODULE Discovery -----------------------------
(***************************************************************************)
(* The slot registry of a module context: the first discovery, which fills *)
(* it once, and the passes of C_GetSlotList, which reconcile it with the   *)
(* YubiHSMs that the USB bus and the connector report.  A pass holds the   *)
(* mutex of discovery_refresh; the registry itself is locked only while it *)
(* is read or changed, and a slot is prepared on its device in between.    *)
(*                                                                         *)
(* A slot ID is a position in registry: next_slot_id is one more than the  *)
(* largest, and no slot is ever removed.  The readers that a pass goes     *)
(* through first are in CcidDevices; here they only succeed or fail.       *)
(***************************************************************************)
EXTENDS Naturals, Sequences, FiniteSets

Orders == INSTANCE SequencesExt

CONSTANTS
    Callers,         \* threads of the application
    SoftwareSlots,   \* configured software slots
    HidDevices,      \* FIDO HID authenticators
    UsbHsms,         \* YubiHSMs on the USB bus, by serial
    HttpHsms,        \* YubiHSMs of the configured connector, by serial
    NoCaller

Hsms == UsbHsms \cup HttpHsms

ASSUME DiscoveryAssumption ==
    /\ NoCaller \notin Callers
    /\ IsFiniteSet(SoftwareSlots) /\ IsFiniteSet(HidDevices)
    /\ SoftwareSlots \cap HidDevices = {}
    /\ (SoftwareSlots \cup HidDevices) \cap Hsms = {}
    /\ UsbHsms \cap HttpHsms = {}

VARIABLES
    plugged,      \* the devices that are there
    discovered,   \* SlotContextRegistry.discovered
    registry,     \* SlotContextRegistry.slots: what each slot ID is
    reported,     \* the YubiHSMs that the last snapshot marked present
    client,       \* the connector's HTTP client is installed (HttpConnectorEndpoint)
    fresh,        \* the last pass is within the refresh interval
    where,        \* per caller: where it is in C_GetSlotList
    initialized,  \* per caller: what init returned
    refreshing,   \* the pass in progress
    steady        \* YubiHSMs there since the pass began, none of its steps failing on them

slotVars == <<discovered, registry>>
linkVars == <<reported, client>>
callVars == <<where, initialized>>
discoveryVars == <<plugged, slotVars, linkVars, fresh, callVars, refreshing, steady>>

NoPass == [by |-> NoCaller, step |-> "none", todo |-> {}, prepared |-> {}, slot |-> 0]

Registered(i) == \E n \in 1..Len(registry) : registry[n] = i

DiscoveryTypeOK ==
    /\ plugged \subseteq HidDevices \cup Hsms
    /\ discovered \in BOOLEAN
    /\ registry \in Seq(SoftwareSlots \cup HidDevices \cup Hsms)
    /\ reported \subseteq Hsms
    /\ client \in BOOLEAN
    /\ fresh \in BOOLEAN
    /\ where \in [Callers -> {"idle", "init", "refresh", "pass", "list"}]
    /\ initialized \in [Callers -> BOOLEAN]
    /\ refreshing \in [by : Callers \cup {NoCaller}, step : {"none", "ccid", "usb", "http", "done"},
                 todo : SUBSET Hsms, prepared : SUBSET Hsms, slot : Nat]
    /\ steady \subseteq Hsms

\* C_Initialize
NewContext ==
    /\ discovered = FALSE
    /\ registry = <<>>
    /\ reported = {}
    /\ client = FALSE
    /\ fresh = FALSE
    /\ where = [t \in Callers |-> "idle"]
    /\ initialized = [t \in Callers |-> FALSE]
    /\ refreshing = NoPass
    /\ steady = {}

DiscoveryInit == plugged \in SUBSET (HidDevices \cup Hsms) /\ NewContext

-----------------------------------------------------------------------------
(* The devices and the clock. *)

PlugInHsm(i) ==
    /\ i \notin plugged
    /\ plugged' = plugged \cup {i}
    /\ UNCHANGED <<slotVars, linkVars, fresh, callVars, refreshing, steady>>

UnplugHsm(i) ==
    /\ i \in plugged
    /\ plugged' = plugged \ {i}
    /\ steady' = steady \ {i}
    /\ UNCHANGED <<slotVars, linkVars, fresh, callVars, refreshing>>

\* The refresh interval is over.
Expire ==
    /\ fresh
    /\ fresh' = FALSE
    /\ UNCHANGED <<plugged, slotVars, linkVars, callVars, refreshing, steady>>

\* C_Finalize and C_Initialize: C_Finalize waits for the calls.
Restart ==
    /\ \A t \in Callers : where[t] = "idle"
    /\ discovered
    /\ discovered' = FALSE
    /\ registry' = <<>>
    /\ reported' = {}
    /\ client' = FALSE
    /\ fresh' = FALSE
    /\ steady' = {}
    /\ UNCHANGED <<plugged, callVars, refreshing>>

\* A command on the slot of a YubiHSM fails in its transport: the USB device
\* is disconnected, and so is the client that all slots of the connector use.
UsbCommandFails(i) ==
    /\ i \in reported
    /\ reported' = reported \ {i}
    /\ steady' = steady \ {i}
    /\ UNCHANGED <<plugged, slotVars, client, fresh, callVars, refreshing>>

\* The client goes as well when C_OpenSession refreshes a slot of the
\* connector in vain, as it does if the slot is absent.
HttpCommandFails ==
    /\ client
    /\ \E i \in HttpHsms : Registered(i)
    /\ client' = FALSE
    /\ steady' = steady \ HttpHsms
    /\ UNCHANGED <<plugged, slotVars, reported, fresh, callVars, refreshing>>

\* The refresh of C_OpenSession finds the device of an absent USB slot.
ReconnectUsb(i) ==
    /\ Registered(i)
    /\ i \in plugged \ reported
    /\ reported' = reported \cup {i}
    /\ UNCHANGED <<plugged, slotVars, client, fresh, callVars, refreshing, steady>>

-----------------------------------------------------------------------------
(* The first discovery. *)

CallGetSlotList(t) ==
    /\ where[t] = "idle"
    /\ where' = [where EXCEPT ![t] = "init"]
    /\ UNCHANGED <<plugged, slotVars, linkVars, fresh, initialized, refreshing, steady>>

\* init has run before.
AlreadyDiscovered(t) ==
    /\ where[t] = "init"
    /\ discovered
    /\ initialized' = [initialized EXCEPT ![t] = FALSE]
    /\ where' = [where EXCEPT ![t] = "refresh"]
    /\ UNCHANGED <<plugged, slotVars, linkVars, fresh, refreshing, steady>>

\* init, with the registry locked for writing: the software slots and the
\* HID authenticators that can be opened.
FirstDiscovery(t, opened) ==
    /\ where[t] = "init"
    /\ ~discovered
    /\ opened \subseteq plugged \cap HidDevices
    /\ discovered' = TRUE
    /\ registry' = Orders!SetToSeq(SoftwareSlots) \o Orders!SetToSeq(opened)
    /\ initialized' = [initialized EXCEPT ![t] = TRUE]
    /\ where' = [where EXCEPT ![t] = "refresh"]
    /\ UNCHANGED <<plugged, linkVars, fresh, refreshing, steady>>

\* A software slot cannot be read, or the readers cannot be listed: the rest
\* of the first discovery never happens.
FirstDiscoveryFails(t, made) ==
    /\ where[t] = "init"
    /\ ~discovered
    /\ made \in {{}, SoftwareSlots}
    /\ discovered' = TRUE
    /\ registry' = Orders!SetToSeq(made)
    /\ where' = [where EXCEPT ![t] = "idle"]
    /\ UNCHANGED <<plugged, linkVars, fresh, initialized, refreshing, steady>>

-----------------------------------------------------------------------------
(* A pass (refresh_discovery_with_interval). *)

\* The pass of another call is recent enough.
SharePass(t) ==
    /\ where[t] = "refresh"
    /\ refreshing = NoPass
    /\ fresh
    /\ where' = [where EXCEPT ![t] = "list"]
    /\ UNCHANGED <<plugged, slotVars, linkVars, fresh, initialized, refreshing, steady>>

StartPass(t) ==
    /\ where[t] = "refresh"
    /\ refreshing = NoPass
    /\ ~fresh
    /\ refreshing' = [NoPass EXCEPT !.by = t, !.step = IF initialized[t] THEN "usb" ELSE "ccid"]
    /\ where' = [where EXCEPT ![t] = "pass"]
    /\ steady' = plugged \cap Hsms
    /\ UNCHANGED <<plugged, slotVars, linkVars, fresh, initialized>>

CcidPass ==
    /\ refreshing.step = "ccid"
    /\ refreshing' = [refreshing EXCEPT !.step = "usb"]
    /\ UNCHANGED <<plugged, slotVars, linkVars, fresh, callVars, steady>>

Provided == IF refreshing.step = "usb" THEN UsbHsms ELSE HttpHsms

NextStep == IF refreshing.step = "usb" THEN "http" ELSE "done"

\* Mutant of FailedPass: the time of a failed pass is recorded too.
FailedPassRecorded ==
    /\ fresh' = TRUE
    /\ refreshing' = NoPass
    /\ where' = [where EXCEPT ![refreshing.by] = "idle"]

\* A returned error leaves the pass to be tried again.
FailedPass ==
    /\ refreshing' = NoPass
    /\ where' = [where EXCEPT ![refreshing.by] = "idle"]
    /\ UNCHANGED fresh

\* An error that refresh_discovery_inner returns: the readers cannot be
\* listed, or a provider cannot name its devices.
PassFails ==
    /\ refreshing.step \in {"ccid", "usb", "http"}
    /\ refreshing.todo = {}
    /\ FailedPass
    /\ UNCHANGED <<plugged, slotVars, linkVars, initialized, steady>>

\* The provider cannot be asked: its slots are absent, and the pass goes on.
ProviderFails ==
    /\ refreshing.step \in {"usb", "http"}
    /\ refreshing.todo = {}
    /\ IF refreshing.step = "usb"
       THEN reported' = reported \ UsbHsms /\ UNCHANGED client
       ELSE client' = FALSE /\ UNCHANGED reported
    /\ steady' = steady \ Provided
    /\ refreshing' = [refreshing EXCEPT !.step = NextStep]
    /\ UNCHANGED <<plugged, slotVars, fresh, callVars>>

\* The provider's snapshot, without the devices whose serial could not be
\* read: the slots that are not in it are absent.
TakeSnapshot(omitted) ==
    /\ refreshing.step \in {"usb", "http"}
    /\ refreshing.todo = {}
    /\ omitted \subseteq plugged \cap Provided
    /\ client' = (client \/ refreshing.step = "http")
    /\ steady' = steady \ omitted
    /\ LET snapshot == (plugged \cap Provided) \ omitted
       IN  /\ reported' = reported \ (Provided \ snapshot)
           /\ refreshing' = [refreshing EXCEPT !.todo = snapshot,
                                 !.step = IF snapshot = {} THEN NextStep ELSE @]
    /\ UNCHANGED <<plugged, slotVars, fresh, callVars>>

\* The candidate is done with; the provider is, when it was the last.
Done(i) ==
    refreshing' = [refreshing EXCEPT !.todo = @ \ {i}, !.prepared = {},
                         !.step = IF refreshing.todo = {i} THEN NextStep ELSE @]

\* The device answers, over the connector's HTTP client if it is behind one.
Reachable(i) == i \in plugged /\ (i \in HttpHsms => client)

\* apply_candidate to the slot that the device has.
ApplyCandidate(i) ==
    /\ i \in refreshing.todo
    /\ Registered(i)
    /\ IF i \in HttpHsms THEN client ELSE i \in plugged \cup reported
    /\ reported' = reported \cup {i}
    /\ Done(i)
    /\ UNCHANGED <<plugged, slotVars, client, fresh, callVars, steady>>

ApplyFails(i) ==
    /\ i \in refreshing.todo
    /\ Registered(i)
    /\ reported' = reported \ {i}
    /\ steady' = steady \ {i}
    /\ Done(i)
    /\ UNCHANGED <<plugged, slotVars, client, fresh, callVars>>

\* prepare_discovered_slot, with the slot ID that was free before it.
PrepareSlot(i) ==
    /\ i \in refreshing.todo /\ refreshing.prepared = {}
    /\ ~Registered(i)
    /\ Reachable(i)
    /\ refreshing' = [refreshing EXCEPT !.prepared = {i}, !.slot = Len(registry)]
    /\ UNCHANGED <<plugged, slotVars, linkVars, fresh, callVars, steady>>

PrepareFails(i) ==
    /\ i \in refreshing.todo /\ refreshing.prepared = {}
    /\ ~Registered(i)
    /\ steady' = steady \ {i}
    /\ Done(i)
    /\ UNCHANGED <<plugged, slotVars, linkVars, fresh, callVars>>

\* The prepared slot goes into the registry, CKR_CANT_LOCK if its ID is
\* taken by now.
InsertSlot(i) ==
    /\ i \in refreshing.prepared
    /\ IF ~Registered(i) /\ refreshing.slot = Len(registry)
       THEN /\ registry' = Append(registry, i)
            /\ reported' = reported \cup {i}
            /\ Done(i)
            /\ UNCHANGED <<fresh, where>>
       ELSE FailedPass /\ UNCHANGED <<registry, reported>>
    /\ UNCHANGED <<plugged, discovered, client, initialized, steady>>

\* refresh_registered_slots leaves the slots of YubiHSMs alone.
CompletePass ==
    /\ refreshing.step = "done"
    /\ fresh' = TRUE
    /\ refreshing' = NoPass
    /\ where' = [where EXCEPT ![refreshing.by] = "list"]
    /\ UNCHANGED <<plugged, slotVars, linkVars, initialized, steady>>

ListSlots(t) ==
    /\ where[t] = "list"
    /\ where' = [where EXCEPT ![t] = "idle"]
    /\ UNCHANGED <<plugged, slotVars, linkVars, fresh, initialized, refreshing, steady>>

DiscoveryNext ==
    \/ \E i \in Hsms : PlugInHsm(i) \/ UnplugHsm(i)
    \/ Expire \/ Restart
    \/ \E t \in Callers :
          \/ CallGetSlotList(t)
          \/ AlreadyDiscovered(t)
          \/ \E opened \in SUBSET HidDevices : FirstDiscovery(t, opened)
          \/ \E made \in SUBSET SoftwareSlots : FirstDiscoveryFails(t, made)
          \/ SharePass(t)
          \/ StartPass(t)
          \/ ListSlots(t)
    \/ CcidPass \/ PassFails \/ ProviderFails \/ CompletePass
    \/ \E omitted \in SUBSET Hsms : TakeSnapshot(omitted)
    \/ \E i \in Hsms :
          \/ ApplyCandidate(i) \/ ApplyFails(i)
          \/ PrepareSlot(i) \/ PrepareFails(i) \/ InsertSlot(i)
    \/ \E i \in UsbHsms : UsbCommandFails(i) \/ ReconnectUsb(i)
    \/ HttpCommandFails

DiscoverySpec == DiscoveryInit /\ [][DiscoveryNext]_discoveryVars

-----------------------------------------------------------------------------
(* While C_GetSlotList skips a pass because one is recent, the registry    *)
(* answers for the devices: every YubiHSM that was there all through that  *)
(* pass, and on which no step of it failed, has exactly one slot, and that *)
(* slot is present.  "A returned error leaves the pass retryable"          *)
(* (refresh_discovery_with_interval).                                      *)
(***************************************************************************)
FreshMatchesDevices ==
    fresh => \A i \in steady :
                 /\ i \in reported /\ (i \in HttpHsms => client)
                 /\ Cardinality({n \in 1..Len(registry) : registry[n] = i}) = 1
=============================================================================
