# Verification of pkcs11rs

pkcs11rs is a PKCS #11 module for YubiKeys, YubiHSMs, the platform key store
and software tokens. An application calls its C functions from any thread; the
module keeps sessions, logins and objects per slot, talks to smart cards that
are pulled and swapped, lets a login on one slot look for its credential in
others, and rediscovers hardware while calls run. This directory holds TLA+
models of that behaviour, the TLC configurations that check them, and TLAPS
proofs of what matters most. Paths below are relative to the repository.

Contents: [inventory](#1-the-system), [modules and code](#2-the-modules-and-the-code),
[runs](#3-what-the-runs-check), [bounds and fairness](#4-bounds-and-fairness),
[proofs](#5-what-is-proved), [disagreements](#6-where-code-and-documents-disagree),
[what is left out](#7-what-is-not-modelled), [plan](#8-plan).

## 1. The system

### Components

| component | source | state it keeps | operations |
|---|---|---|---|
| module lifecycle | `src/lib.rs`, `src/api/general.rs` | `MODULE_CONTEXT`, an `RwLock<Option<..>>` | `C_Initialize`, `C_Finalize`; every call holds a read guard |
| slot registry, discovery | `src/context.rs`, `src/backend/pcsc.rs` | slots by ID, session handle → slot, handle counters, CCID inventory, time of the last refresh | first discovery, `C_GetSlotList`, rescans, routing |
| sessions and login | `src/api/session.rs`, `src/context.rs` | per slot: sessions, role, active operations | open, close, close all, login, logout, `C_InitToken`, PIN changes |
| objects and handles | `src/api/object.rs`, `src/object.rs`, `src/backed_object.rs`, `src/context.rs` | session objects, token-object handles and locators, find cursors, stored backed objects | create, copy, destroy, find, refresh, PIV key move |
| cryptographic operations | `src/api/crypt/*` | one operation per kind and session: key, buffers, deferred result | init, update, final, one-shot, length query, cancel |
| device lock | `src/device.rs` | an `RwLock` per physical device | shared HID, exclusive CCID operations |
| nested authentication | `src/auth_slots.rs`, `src/pkcs11_provider.rs`, `src/pkcs11_auth.rs`, `src/key_scope.rs` | source session a login keeps | credential search, provider sessions |
| CCID connector | `src/connector.rs`, `src/ccid_auth.rs`, `src/iso7816.rs` | reader workers with card handle and epoch; `CcidDeviceBinding`; selected-applet guard, card login | refresh, pin, select, transmit, rebind |
| secure channels | `src/scp03.rs`, `src/scp11.rs`, `src/scp_key_provider.rs` | channel keys and counters | establish, wrap, lose |
| applet backends | `src/backend/{piv,openpgp,oath,hsmauth}.rs`, `src/piv.rs` ... | caches of objects, recorded role | applet commands |
| CTAP, CTAPHID | `src/ctap.rs`, `src/ctap_hid.rs`, `src/backend/ctap.rs` | HID channel | init, transact, cancel |
| YubiHSM | `src/yubihsm.rs`, `src/backend/yubihsm.rs` | secure session, object cache | authenticate, command, recreate |
| software tokens | `src/backend/software.rs`, `src/software_storage.rs` | encrypted store on disk | load, save, key operations |
| connector daemon | `crates/pkcs11rs-connector` | devices by serial, gates, admission counters | attach, detach, command, timeout |
| platform slot, mechanisms, certificates, configuration, PIN entry, logging | see `PROJECT.json` | none that outlives a call, or the operating system's | |

### How they interact

A call takes a read guard on the module context, looks its slot up in the
registry (one lock), drops that, and takes the slot mutex. If the slot is an
applet of a physical device it also takes the device lock: shared for HID,
exclusive for CCID. Under these it *reconciles* (a login that the backend no
longer confirms is dropped) and calls the backend. The backend of a card goes
through the applet connector (which keeps the guard shared by all applets of the
card), the device connector (which follows one serial from reader to reader) and
the reader worker (the only owner of the PC/SC handle). A login may open
sessions on other slots to authenticate with a key stored there; it does so
with its own slot and device locked. `C_GetSlotList` reconciles readers,
refreshes every registered slot and then asks every slot whether it is visible.

### What is hard, and what correct means

* **Two locks, never together.** A session exists in its slot before the
  registry knows it, and is gone from the slot before the registry forgets it.
  Correct: a session is routed to its slot or is about to be; a closed handle is
  never open again; owners of objects and operations are open sessions.
* **Logins end by themselves.** A card is removed, another applet is selected, a
  secure session expires, a logout fails half way. Correct: private objects and
  operations never outlive the user login that admitted them, the Security
  Officer never meets a read-only session, a slot without sessions has no login.
* **Locks nested through other slots.** Correct: calls on one card exclude each
  other, no call waits for itself, no calls wait in a circle, every call returns.
* **Cards move while calls run.** Correct: a reader serves one serial, a
  connection taken for verified leads to the right card, a rescan never takes a
  reader from under a call, a card that stays put is found.
* **One selection per card.** Correct: what the guard says is selected and
  logged in really is, and a login that relies on a secure channel never sends a
  command outside it, whatever dropped the channel.
* **Handles outlive what they name.** Objects are destroyed, moved on the card
  and replaced in the store while another session enumerates them. Correct: a
  handle names its key or nothing; a search returns nothing twice and nothing
  that is gone; a shared content stays for its last owner.
* **Calls that come in pieces.** Length queries, short buffers, updates and
  cancellations in any order. Correct: what comes out was computed from what went
  in, each unit once, and a device command runs once.
* **Sending again.** A session expires, a channel is forgotten, a connection
  breaks after the command went out. Correct: a command is sent again only when it
  cannot have run, and an answer belongs to its own request.
* **Attributes in companions.** A YubiHSM key keeps its PKCS #11 attributes in other
  objects, written and deleted command by command. Correct: an interrupted change
  loses neither the old nor the new attributes, a successful one is seen by all.
* **Files and power.** Correct: a power loss at any moment leaves a token that the
  last acknowledged PIN, or the one being set, opens, with every acknowledged
  object.
* **Hot plug.** Events arrive late, identifiers are reused, a provider cannot be
  asked. Correct: the inventory follows the devices, a command runs on the device
  it was addressed to, and a recent pass answers for what it saw.

`PROJECT.json` lists the hazards line by line, with the properties that would
catch each one; the ones that no property reaches yet say so.

## 2. The modules and the code

| module | models | extends / uses |
|---|---|---|
| `SlotSessions` | module context, registry routing, slot state | instantiates `TokenSessions` for the refinement |
| `TokenSessions` | what a token promises an application: abstract, no code of its own | |
| `SlotLocking` | registry, slot, device and refresh locks; nested authentication; `C_GetSlotList` | |
| `CcidDevices` | readers, workers, serial-owned bindings, the discovery pass | |
| `CcidApplets` | selection and login of the applets of those cards | extends `CcidDevices`: every device step is conjoined with what it does to card and guard |
| `CcidChannel` | SCP03/SCP11 channels of the applets of one card | |
| `Discovery` | the slot registry, the first discovery, the passes of `C_GetSlotList`, the YubiHSM providers | |
| `CryptOperations` | encrypt, decrypt, digest, sign and verify operations of a session | |
| `TokenObjects` | card keys, stored and session objects, their handles, searches | |
| `YubiHsmSession` | the secure session of a YubiHSM slot and the device's side of it | |
| `SoftwareStore` | header and record files of a software token | |
| `CtapHid` | the CTAPHID transport, the authenticator and another program | |
| `ConnectorRegistry` | the device registry of the connector daemon | |
| `HsmObjects` | a native key of a YubiHSM, its metadata companions, its public key, the caches over them | |
| `MCSlots` | `CcidApplets`, `CcidChannel`, `Discovery` and `CryptOperations` side by side | |
| `MCObjects` | `TokenObjects` and `HsmObjects` side by side | |
| `MCEndpoints` | `YubiHsmSession`, `SoftwareStore`, `CtapHid` and `ConnectorRegistry` side by side | |
| other `MC*` | model values, the wiring of slots and sources, symmetry | |
| `*Proofs` | the theorems | extend the modules they are about |

`PROJECT.json` (`map`) gives the lines of each definition. The abstractions:

**SlotSessions.** `slot[s]` is `SlotContext`/`SlotState`: `sessions` (handle and
`rw`), `role`, `lost` (the backend's `login_is_active()` is false), session
`objects` with their creator, and `operations`, reduced to session and whether
the object is private. `routes` is `session_slots`; `nextSession` and
`nextObject` are the `HandleCounters`, with 0 as their exhausted value. One
action is one critical section: `EnterSlot`/`EnterSession` (registry lock), the
call itself (slot mutex), `RegisterSession`/`UnregisterSessions` (registry lock
again). What happens under the mutex is a function on slot states named after
the Rust function: `reconcile_login_state`, `clear_login_state`, `logout_slot`,
`logout_for_close`, `allocate_handle`. Each call includes the reconciliation it
starts with. Failures are nondeterministic: a token absent at open, an
authentication that fails, a refresh that fails after a successful login (which
undoes it), a logout that stops at any of its steps. `LoseLogin` is the
backend's, at any moment.

**TokenSessions.** The same tokens without threads, routing, operations, lost
logins or counters. A login may be noticed to be over at any use. It says what
may happen atomically: open with a new handle, close with the objects of the
closed sessions (and the login, if it was the last), log in from the public
state, create, destroy, finalize.

**SlotLocking.** `locked[t]` and `using[t]` are the guards of a thread;
`reading`, `writing` the registry's; `refresher` the holder of the
`discovery_refresh` mutex. The constant `DeviceOf` says which slots are applets
of which card, `Sources` which slots the client selector of a slot matches,
`Recreating` which keep their source session. The search tries each source twice
without blocking (`TrySource`, `Prepare`), then takes slot and device blocking
for opening, using and closing the nested session, as `find_card_credential` and
`ProviderSession` do. Two paths lead to `C_GetSlotList`'s listing: a refresh that
is due, or one within the interval. `WaitsFor` is the wait-for relation; a reader
of an `RwLock` also waits for queued writers, since the standard library's lock
may prefer them. Data of the calls is left to the other modules. A call by slot ID and a
listing first run `ModuleContext::init` (`BeginInit`, `EndInit`), which takes the
registry for writing; a call by session handle only reads it.

**CcidDevices.** A device is named by the card whose serial it belongs to. `at`
is where the cards are, `live[r]` whether the worker's handle is valid,
`current`, `active`, `present`, `mismatched` the fields of `CcidDeviceBinding`.
Epochs only grow and are only compared with a recorded one, so `checked[d]` is
that comparison. `reader` and `known` are the inventory, `transient` the readers
with slots of their own (cards that would not tell their serial). A call is
`Enter`, any number of `Refresh`es, `Exit`. `Enter` has the code's surprise: an
absent device is entered without a pinned reader. The pass follows
`reconcile_ccid_readers`: known serials first (`ReconcileEntry` marks present
before the lock is taken, `CheckEntry` verifies under the lock and evicts), then
the readers left over (`Identify`, then `ApplyReader` or `RegisterDevice`), then
`refresh_registered_slots` (`RefreshSlots`). Cards may move between any two
steps.

**CcidApplets.** A card has one selected `applet` and a `verified` PIN, which a
SELECT or a new insertion drops. The guard has `selected`, `login` and `synced`
(its connection epoch is the device's). `SendApdu` selects first when the guard
does not say so; `Authenticate` and `RecordLogin` are separate steps, because the
card accepts the PIN before the role is recorded. `proved` keeps the call in
between. `pinned` is a history variable for `LoginTrue`. Reading a serial selects
the management applet, so every identification drops what was selected.

**CcidChannel.** `conn[a]` is `PcscAppletState` (channel wanted, session started,
dynamic client, released credential), `chan` the `SecureChannelState` that the
applets share: selected applet, session, role, epoch up to date. A channel is
identified by the login it was opened for. `EnsureSelected` is
`ensure_selected_locked` as a set of outcomes, `SendApduLocked` sends through it.
`demanded[a]` is the history variable of the property: the login whose channel
the application relies on, from `C_Login` until a logout or a PIN change ends it.
`ReplaceConnection` is the reader's, at any moment. A handshake is one step; the
SCP11 certificate cache with its retry is inside it. `C_SetPIN` ends channel and
login together, so public commands after it are plain; after a dynamic login has
ended, plain commands are refused until the next login.

**Discovery.** A slot ID is a position in `registry`. `FirstDiscovery` is `init`
under the registry's write lock, `FirstDiscoveryFails` its early returns, after
which `discovered` stays set. A pass holds `discovery_refresh` from `StartPass` to
`CompletePass` or `FailedPass`; between its steps devices come and go, commands on
registered slots fail (which drops the USB handle, or the HTTP client of *all*
slots of a connector), and `C_OpenSession` reconnects. `steady` is the history
variable of the property: the devices there since the pass began on which nothing
failed.

**CryptOperations.** Data are numbered units, so that a lost, repeated or
reordered one shows; an output chunk carries the units, the chaining value and
the length it was made with. One action is one C call under the slot mutex, the
reconciliation of the login included. `take`, `keep` and `deliver` are the three things a
call does with the operation it found; `trace` is the history.

**TokenObjects.** `handles`, `backed`, `references`, `cache`, `memory` are the maps
of `SlotState` by the same names; `keys` and `store` what is on the card and in
the directory. `RefreshSlot` is
`refresh_slot_token_objects_with_rebindings`; a call whose listing fails keeps
what it did before. Attestation objects that `C_FindObjectsInit` adds as session
objects are not modelled. A PIV move reconciles with the card's objects alone, so
the handles of stored objects go until the next refresh, and a stored public key
with the `CKA_ID` of the moved key is bound to it.

**HsmObjects.** `hsm` is the device: the key with its sequence, the opaque objects by
ID, and whether its firmware replaces an object in place. `host` are the caches of
`YubiHsmSlot`: native objects (`cached`, `key`), companion links (`links`), the
listing (`known`) and `metadata_storage_writes` (`writes`). A call sends its commands
one at a time; each is done, refused, or loses its answer together with the session,
after which the device may or may not have run it. `replace_pkcs11_metadata_record`
plans a change (nothing, an update in place, a put, deletions), the steps that follow
carry it out; `destroy_native_object` is followed by `list`, `unlink`,
`write_standalone_storage_object`, `delete_native`, `undo` and `restore`. A call that
ends with a listing of the slot (`refresh`) ends there. `accepted` and `published`
are what the application has been promised; a destruction that is refused half way
promises what was there, unless the connection broke or its rollback was refused too.
`doubts` says when a success promises
nothing: another client, or a call that failed without a listing, has changed
something since the last listing, or two companions hide each other. Other clients
replace companions; they do not delete them, since no cache notices that before the
connection changes, and an update skipped for it could promise nothing.

**YubiHsmSession.** `session` is `YubiHsmSessionState`, `device` the sessions on
the device. MAC chains are the numbers of messages sent and received. A message
may be lost on the way there or back; the device may expire or reuse a session ID.
`executed` counts how often it ran the current command. A call is any sequence of
commands, reads, lookups and listings. A step that fails sets `told`; the call may go
on all the same, as listings do that skip an unreadable key, attestation reads whose
error is dropped, and the clean-up of an import. `discoveryRan` says whether the device has
run anything of the current call in a discovery session: a command, a read, or those
with which a discovery session is opened and lists. A lookup in emptied
caches (`backend_token_object`) finds nothing and so tells the call, but the code
shows it as an invalid handle or a missing object, not as a lost login.

**SoftwareStore.** Generations of header files and record files, changed one file
operation at a time; `disk` is the set of directory contents that a power loss may
leave. The file system is assumed to journal: changes of a directory become
durable in order, and a directory sync makes all before it durable. `IoError` is a
failing operation, `Crash` the end of the process between two.

**CtapHid.** A report is a whole message. Handles receive every report of the
device; the device answers late, forgets channels, and gives channels to another
program. `HidFails` is a timeout or any other error: the handle is dropped.

**ConnectorRegistry.** The discovery task (watch, then list, then events), the I2C
coordinator, and HTTP requests that keep the entry they looked up. A plug number
stands for one attachment. A USB identifier is not given out again while an event
about its last holder is queued: `attach_candidate` does not compare the serial of
the opened device with the candidate's, as `reopen` does. The order in which the
coordinator serves losses and retries is left open. An I2C endpoint is named by its
serial, so the comparison with which `reopen_verified` refuses another chip at the
same address has nothing to tell apart here.

## 3. What the runs check

| run | instance | states | checks |
|---|---|---|---|
| `slot_sessions` | 2 slots, 2 threads, 2 handles | 533,649 | `SoExcludesReadOnly`, `NoLoginWithoutSession`, `PrivateNeedsUser`, `OwnersAreOpen`, `SessionsRouted`, `ClosedStaysClosed`, `ImplementsTokenSessions` |
| `lock_order` | 2 threads; cards d1 (a1, HID b1), d2 (a2); YubiHSMs h1, h2 searching each other; a1 keeps its source | 171,037 | `NoCircularWait`, `NeverWaitsForItself`, `OneOperationPerCard`, `EveryCallReturns` |
| `ccid_binding` | 2 cards, 2 readers, serial reads may fail | 306,806 | `BoundOnce`, `CheckedSerial`, `WorkerIsFree`, `CardsAreFound` |
| `slots` | 1 card, 2 readers, 2 applets; 2 applets with channels, 3 logins; 2 callers, a software slot, an authenticator, a USB and an HTTP YubiHSM; blocks of 2, messages up to 5, calls up to 3 units, 2 operations at a time | 394,478 | `SelectionTrue`, `LoginTrue`; `ChannelKept`; `FreshMatchesDevices`; `StreamExact`, `KeyUsedOnce`, `QuotedLengthSuffices`, `NothingWithoutLogin` |
| `objects` | 2 sessions, 2 key slots, 2 keys, 2 contents, 3 handles, 1 failure; 3 opaque IDs, 1 label, 2 keys one after the other, 3 calls, 1 refusal, 1 lost answer, 1 change by another client | 1,132,615 | `FindExact`, `SharedContentKept`, `HandleKeepsKey`; `UpdateStored`, `AttributesKept`, `PublicOutlivesKey` |
| `endpoints` | 2 session IDs, 3 handshakes and commands; 3 header generations, 2 records; 2 requests, 4 channels; 2 serials, 2 USB IDs, 2 requests, 2 plugs | 2,120,806 | `ReplayedOnlyUnrun`, `ChainsAgree`, `NeverSilentlyDemoted`; `EitherHeaderWins`, `LoginOpens`, `ObjectsSurvive`; `OwnAnswer`, `RunsOnce`; `RunsOnAddressed`, `InventoryExact`, `LossNamesRegistration` |
| `crossed_cards` | 2 cards, 2 applets each, each login with its source on the other card | violation | `NoCircularWait` |
| `registry_lock` | as `crossed_cards` | violation | `RegistryReleasedFirst` |
| `ccid_swap` | 2 cards, 1 reader | violation | `SerialOwnsSlots` |
| `projection_lost` | the PIV slot of `objects` | violation | `SessionObjectsLast` |
| `update_loses_object` | the store of `endpoints`, directory syncs may fail inside an update | violation | `ObjectsSurvive` |
| `companions_stay` | the YubiHSM of `objects`, one client, one refused command | violation | `UpdateResolves` |

* `slot_sessions`: the exclusions between roles, sessions and private objects
  survive every interleaving of calls with each other, with lost logins, with
  failing logouts and with `C_Finalize`, and the whole is a refinement of
  `TokenSessions`: an application sees atomic operations only.
* `lock_order`: with card sources layered (no chain of cards comes back), the
  tried locks and the lock order leave no circular wait, even with two YubiHSM
  slots that name each other as sources and with a kept source session; every
  call returns. `crossed_cards` shows that the layering is needed.
* `ccid_binding`: whatever the cards do between the steps of a pass, no two
  present serials share a reader, an epoch that a device has observed vouches
  only for its own card, and the worker of a present device is never in another
  device's operation. Once the cards stay put and calls end, every card is bound
  to its reader, unless the reader got slots of its own.
* `slots`, applets: with one card and successful serial reads, the guard is never
  wrong about the selected applet, and never about a login that a call with a
  pinned reader recorded. With a second card the swap of `ccid_swap` makes the
  guard wrong until the next rescan, and a serial read that fails after having
  selected the management applet does the same until `refresh_registered_slots`;
  both are recorded as hazards and are outside what this run claims.
* `slots`, channels: after a login with a configured or dynamic secure channel, no
  APDU of that applet leaves in plaintext or in the channel of another login until
  the login is ended by the application, over deselections, refreshes, replaced
  connections, failed handshakes and lost messages, with and without
  `recreate_sessions`.
* `slots`, discovery: as long as calls skip a pass because one is recent, each
  YubiHSM that was there all through that pass has one slot, and it is present.
* `slots`, operations: however a message is cut into calls, the output is computed
  from each unit once and in order, a key that needs the whole input runs once, a
  quoted length suffices, and nothing computed with a private key leaves after the
  login is gone, a kept result included.
* `objects`, PIV: searches stay exact while other calls create, destroy, move and
  replace objects; session objects that share a content keep it; the handle of a
  key names it wherever it is moved, or nothing.
* `objects`, YubiHSM: after an attribute call that succeeded, every client finds the
  new attributes of the key, and the slot shows what the device holds; at every
  moment of a change the device has the old or the new ones; a public key that was
  created and not destroyed is there, as an aspect of its key or on its own, also
  when the destruction of the key was refused and undone. (If the undoing is refused
  as well, the code returns the first error and the companion is lost.) Success of a call that
  began in `doubts` promises nothing (see below).
* `endpoints`: a YubiHSM command is sent again only if it did not run, the MAC
  chains of both sides agree in every session the slot uses, and nothing of a user's
  call runs in the public discovery session before a step of the call has failed or
  found nothing (afterwards it may: see section 6). A power loss finds the old or the
  new header, records that it opens, and every acknowledged object. A CTAPHID
  answer belongs to its request, which ran once, on a channel of this transport. A
  connector command runs at most once and on the device it names; USB records are
  the attached devices once events are served; an I2C endpoint is registered or
  pending, and a late loss never removes a newer registration. The four protocols
  share no state, so each behaviour moves one of them.

Every property has a mutant: a plausible mistake in one mapped definition
(`OpenUnderSO`, `KeepLogin`, `TryLockAlways`, `EvictedNever`, ...), written just
above the definition it replaces, under which TLC finds the property violated.

## 4. Bounds and fairness

* `MaxHandle = 2` is the largest handle *and* the point where counters are
  exhausted: with two handles, two sessions exist at once in one slot or in two,
  one opens while another closes, and the counter wraps.
* Two threads are enough for every race between two critical sections; the safety
  invariants are proved for any number. Circular waits of three threads are not
  reached by TLC; `crossed_cards` shows the two-thread one.
* `MaxCalls = 2` lets a thread log in, keep its source session, and come back to
  use or close it. Threads stop when the bound is reached, so deadlock checking is
  off in these runs and `NoCircularWait` takes its place.
* Two readers and two cards give a move, a swap and a crossing exchange.
* `MCSlots`, `MCObjects` and `MCEndpoints` put independent modules into one run: the first
  state picks the module that moves. Every behaviour of each module is explored,
  and none of their combinations, which could not differ.
* Three handshakes and three commands let a YubiHSM session be opened, expire, be
  recreated and expire again; two transport failures hit a command and its replay.
  Three header generations are an old header, its successor and one more change;
  two faults are a failed operation and a crash or power loss after it.
* Four HID channels let both programs take one, lose it and take another. Two plugs
  and two USB identifiers are one device replaced by another at the same
  identifier, or moved. Two I2C registrations are a loss and a return.
* In `CryptOperations` five units are two and a half blocks, so that updates end
  before, on and after a block boundary. In `TokenObjects` three handles cover a
  key, a stored and a session object at once; searches are without a
  template or for one `CKA_ID`.
* In `HsmObjects` three opaque IDs are two companions and a stored public key; two
  key sequences are a destroyed key and its successor under the same ID; three calls
  are one that fails half way, one on what it left, and a destruction. One label
  next to the native one gives a set, a reset and a set again.
* The protocols of `endpoints` stop at their bounds, so deadlock checking is off
  there; it is on in `slots` and `objects`.

Symmetry is used only in runs without liveness and without model values in
asymmetric roles.

Fairness. `SlotLocking`: weak fairness of each thread's next step; threads are
scheduled and backend calls return. Nothing is assumed between threads that want
the same lock; the bound on calls keeps a lock from being taken from a waiter for
ever. `CcidDevices`: weak fairness of discovery (the application keeps listing
slots), of `Exit`, and strong fairness of an enumeration that succeeds and of a
serial read that succeeds (PC/SC and a card that stays in its reader do not fail
for ever). Insertions and removals have no fairness. Nothing else has any.

## 5. What is proved

TLAPS checks these for every value of the constants, under the named assumptions
of the modules only: the "no" values are not members of their sets, the bounds are
naturals, object IDs, key slots, software slots and HID devices are finitely many,
the wiring constants have their types (`ChannelAssumption`,
`HidAssumption`, `RegAssumption`, `StoreAssumption` and so on; TLC evaluates them in
every run). Two theorems about the store have hypotheses of their own, given below.

| module | theorem | states |
|---|---|---|
| `SlotSessionsProofs` | `Invariance` | `Spec => []IInv`, with `TypeOK` |
| | `SoExclusion`, `LoginNeedsSession`, `PrivacyOfObjects`, `OwnersOpen`, `Routed` | the five safety invariants of `slot_sessions` |
| | `HandlesNotReused` | `ClosedStaysClosed`, an action property |
| | `Refinement` | `ImplementsTokenSessions`: the slots implement `TokenSessions` |
| `SlotLockingProofs` | `Invariance`, `CardExclusion`, `NoSelfWait` | `OneOperationPerCard`, `NeverWaitsForItself` |
| `DeviceProofs` | `Invariance`, `OneOwnerPerReader`, `ObservedIsOwn`, `NeverRefused` | `BoundOnce`, `CheckedSerial`, `WorkerIsFree` of `CcidDevices` |
| | `ChannelInvariance`, `ApdusKeepTheirChannel` | `ChannelKept` of `CcidChannel` |
| | `DiscoveryInvariance`, `FreshRegistryAnswers` | `FreshMatchesDevices` of `Discovery` |
| `CryptOperationsProofs` | `CryptInvariance`, `StreamsAreExact`, `KeysAreUsedOnce`, `QuotedLengthsSuffice` | `StreamExact`, `KeyUsedOnce`, `QuotedLengthSuffices` |
| | `NothingLeavesWithoutLogin` | `NothingWithoutLogin`, an action property |
| `ObjectProofs` | `ObjectsInvariance`, `ObjectTypes`, `SearchesAreExact`, `SharedContentIsKept`, `HandlesKeepTheirKeys` | `TypeOK`, `FindExact`, `SharedContentKept`, `HandleKeepsKey` of `TokenObjects` |
| `HsmObjectProofs` | `HsmObjectsInvariance`, `UpdatesAreStored`, `AttributesAreKept`, `PublicKeysOutlive` | the type invariant, `UpdateStored`, `AttributesKept`, `PublicOutlivesKey` of `HsmObjects` |
| `EndpointProofs` | `HsmInvariance`, `NoCommandTwice`, `ChainsShared`, `UserKeptUntilTold` | `ReplayedOnlyUnrun`, `ChainsAgree`, `NeverSilentlyDemoted` of `YubiHsmSession` |
| | `HidInvariance`, `AnswersAreOwn`, `RequestsRunOnce` | `OwnAnswer`, `RunsOnce` of `CtapHid` |
| | `StoreInvariance`, `HeaderSurvives`, `PinOpensStore`, `ObjectsAreKept` | `EitherHeaderWins`, `LoginOpens`, `ObjectsSurvive` of `SoftwareStore` |
| `ConnectorRegistryProofs` | `RegInvariance`, `CommandsRunWhereAddressed`, `InventoryIsExact` | `RunsOnAddressed`, `InventoryExact` |
| | `LossesNameRegistrations` | `LossNamesRegistration`, an action property |

**SlotSessions.** `IInv` is `TypeOK`, `SlotOK` of every slot, and `RoutingOK`.
`SlotOK` collects the slot-local invariants; one lemma per helper shows that it is
preserved, so each call is a composition of lemmas. That would be all, but for
`RegisterSession`: when the registry entry is taken, the code removes the session
and leaves its objects and the login, which breaks `SlotOK`. `RoutingOK` shows
that this never happens: handles in use have been given out (`HandlesGiven`), two
calls never register the same handle and find the entry free
(`RegistrationsFree`), and handles about to be unregistered are closed
(`UnregisteredClosed`), so unregistering cannot drop a new session's route. The
refinement maps a slot to what an application sees of it; each critical section is
one step of the abstract token or a stutter, given `IInv`.

**SlotLocking.** The guards of a thread are a function of its place
(`GuardsHeld`); a source is another slot on another device (`Places`,
`RetainedApart`, the latter because a kept session is used later without trying);
slot mutexes and card operations exclude (`SlotExclusion`,
`OneOperationPerCard`). The last two are not inductive without the first: a lock
is dropped by place, and only the place says which one.

**CcidDevices.** `BoundOnce` fails to be inductive because a pass marks a serial
present before it verifies it. The strengthening follows the inventory instead:
present ⇒ named ⇒ bound to the named reader (`Home`), names are unique and not
transient (`Names`), a reader on the list of a pass is nobody's name in its
second half, and in the first only that of an entry the pass has not come to
(`Claims`), and a pinned reader keeps its name (`Pins`). `CheckedSerial` rests
on `Cardholders` (one card per reader, and a valid handle needs a card),
`Observed`, and `Spotted`: between the reading of a serial and its binding, a
handle that is still valid leads to the identified card.

**CcidChannel.** A login demands a channel; what has to follow is that its applet
still has the protocol and the credential of that login (`Serves`), that a channel in
the shared guard which is the applet's belongs to it (`Carries`), and that
`channel_started` stays set through every way of losing the channel. Then a lost
channel is refused or opened again, and never replaced by plaintext. `Ensured` states
once what `ensure_selected_locked` leaves behind, and every call uses it.

**Discovery.** A pass handles one provider after the other, and within a provider one
device after the other. `PassServes` follows it: a device that was there all the time
and whose turn is over (`Handled`) is reported and registered, and so is every such
device when the pass is done. It needs `PassOwned` (one call runs the pass, and what it
has prepared is still to do) and `OneSlotEach` (no device is in the registry twice),
which holds because the insertion looks again under the lock.

**CryptOperations.** `CryptInv` accounts for every unit of data. Of a cipher, what was
sent is what went out followed by the kept result, if there is one, or else by the
buffer (`CipherOK`); of a digest or a signature nothing goes out before the end
(`WholeOK`); the key has run once if a result is kept and not at all otherwise
(`UsesOK`); the chaining value is the last unit that went out. The data are sequences of
chunks that `Units` flattens and `Length` sums, so the proof first shows, by induction,
what both are for sequences put together and cut apart at block boundaries. The
induction principle is stated for sets (`SetInduction`: a set with 0 and with every
successor has all naturals), which is first-order and follows from the well-foundedness
of `<`. `QuotedLengthsSuffice` is then arithmetic about padding, tags and key lengths.

**TokenObjects.** `ObjectsInv` has one part per table. `Tables`: token handles and
session handles are different and were all given out before `next`, so a new handle
never meets an old entry. `Behind`: every session object has its content behind its
handle and in its session's storage; when one object drops a content, another one of the
same session that has it makes `backed_reference_is_shared` true. `Named`: a handle given
out for a key is bound to it, and no second one is. A move binds all handles with the
key's `CKA_ID` to the moved key, those of stored objects too, which is why uniqueness is
claimed only of handles given out for keys; `Conflicts` removes what else is bound there,
and new handles go to objects that nothing is bound to. `Searching`: what a search has
returned is what lies before its cursor. For that, `RetainFacts` shows by induction that
what is left of a prefix is a prefix of what is left, shorter by the handles that went,
which is how `remove_object_handle` moves the cursor. `PublishKeeps`, `ReconcileKeeps`,
`RefreshKeeps` and `ListingFailsKeeps` carry the four parts through the common ends of
the calls, so that each action only shows what is particular to it.

**HsmObjects.** The parts of `Inv` are predicates of a device and caches, so that one
lemma serves the state before and after a command. `StoreOK` says what the caches are
worth at any time: a cached object is on the device as it was, or another client has
replaced its label since (`CachedOK`); a remembered write is still under its ID
(`WritesOK`); links and the known attributes are the living key's, and all its legacy
metadata is known (`KeyOK`). It need not hold while the connection has moved, since the
caches are emptied then. After a listing the caches are exact (`SyncedOK`). `Shape` says
which steps a call has; `Replacing`, `Discarding`, `Creating` and `Destroying` what each
call has done so far. The heart is `Safe`: while a replacement deletes, some companion
has the new attributes and neither the caches nor the list of what is to go lead to it,
so that the deletion of the last old companion leaves one (or none is needed, `Bare`).
Without doubts nothing but the new attributes remains at the end (`SureOK`), which is
why a success may promise them. For a destruction, `LinkOK` says that the companion it
has taken away can be written back under an ID that is free or holds the public key's
record. `Promises` and `PublicFits` are the properties, for the moments between the
commands too. The first attempts failed for good reasons: with *two* refused commands
the model promised too much. A destruction whose rollback is refused as well leaves the
key without its companion and perhaps without its public key; the code returns the
error of the first refusal and drops that of the rollback. Such a call now promises
nothing.

**YubiHsmSession.** `SessionFits`: when the slot and the device name the same
handshake for a session, their chains differ by the message on its way and by no other,
and never while the slot re-authenticates. Only with that does a refusal mean that
the command has not run, which is what makes the replay safe (`RunsOK`). `UserOK`: a
call of the user that was told of nothing still has the user's session, is not
repeating a read, and has run nothing elsewhere; every step that ends the session
either tells the call or finds it told (`ToldLemma`, `LookupStep`).

**CtapHid.** The reports of a handle are a queue with answers to requests, to the
transport's own INITs and to other programs' INITs. `OneAnswerAwaited` says what of it
is on the transport's channel, `QuietWhenIdle` that nothing is left of an old request,
`FreshChannel` that a channel about to be taken was never used, and `ResendsUnrun` that
a request about to be sent again is nowhere in the device.

**ConnectorRegistry.** `RunsOnAddressed` needs little: entries are never changed, only
their handles (`EntriesGrow`, `CommandsFit`). `InventoryExact` needs the order of the
hotplug queue. Everything the discovery task knows of a USB identifier is there or its
departure is queued (`PlacesFit`); a device that moved is queued at its new place only
after the departure from the old one (`OrderFits`), or the registration at the new place
would be refused for ever; and every attached device is known, listed or queued
(`NoneMissed`).

**SoftwareStore.** `disk` is the set of contents a power loss may leave, and the
invariant is about each of them (`LeftFits`): a header that may be current, and records
under its key. It is kept because a new header carries the private key over, or was
prepared when there was no record (`KeyCarriesOver`), and because old headers are swept
only when the new one is durable. For the objects, `Keeps` of every such contents, and
for the record an operation may take back `Spare`: the object has another record.
The theorems assume `OneProcess`: a second process that is logged in writes records
under the key of a token that the first initialises again (section 6). `ObjectsAreKept`
also assumes `~UpdateSyncFails`: with it the property is false, which is the run
`update_loses_object`. The first attempt to prove it failed for a good reason: a copy
of an object whose own destruction had failed stays in the slot's list and can be
updated after another copy was destroyed. The object was not gone, and `Unlinked` now
says so.

Only model-checked, and why:

* liveness (`EveryCallReturns`, `CardsAreFound`), which is out of the prover's reach;
* `NoCircularWait`, which depends on the wiring and is false for some;
* `SelectionTrue` and `LoginTrue` of `CcidApplets`, which hold for the one card of the
  run: with a second one they are false for the reason that `ccid_swap` shows (a call on
  a device that is absent reaches the card that took its place), and likewise when a
  serial cannot be read.

## 6. Where code and documents disagree

* `crossed_cards`, `src/src/auth_slots.rs:67`. A login tries the source *slot*
  without blocking, then blocks on the source's *device*. Two logins on two
  cards, each with its source on the other, wait for each other for ever. The
  comment says that a busy source is an error.
* `registry_lock`, `src/src/api/general.rs:176`. `docs/architecture.md` says that
  operations release the registry lock before they lock a slot; the listing locks
  every slot with the registry read guard held, and a rescan waits for devices
  with the write guard held.
* `ccid_swap`, `src/src/connector.rs:498`. A card under a reused reader name must
  not inherit the slots of the one before it, and calls on an absent device
  should fail in the connector. After a mismatch the next call on the old serial's
  slot enters without pinning, and its APDUs go to the new card through the
  handle that the refresh made.

* `projection_lost`, `src/src/api/object.rs`. A public key projected under the
  `CKA_ID` of its PIV key is a session object of its own; generating into, importing
  into or moving from that key slot removes its handle, as every object with that
  `CKA_ID` and a key class is taken for the slot's key.
* `update_loses_object`, `src/src/api/object.rs:2551`. An attribute update stores
  the replacement, then deletes the original. If the directory sync of the deletion
  fails after the unlink, the update takes it for a deletion that did not happen and
  deletes the replacement as well. `endpoints` therefore excludes this one failure
  (`UpdateSyncFails`).
* `companions_stay`, `src/src/backend/yubihsm.rs:2704`. An update of a key's
  attributes is to resolve companions that a failed call has left. It writes the new
  value over the first one and deletes the others by content, except those with the
  new content: if the second companion already has it, both stay, the listing takes
  them for ambiguous, and the successful call has no effect. Repeating it does not
  help.

Met while modelling, without a run of their own:

* `import_yubihsm_token_object_in_slot` (`src/src/api/object.rs:3052`): an import whose
  metadata command loses the user's session lists the token again, which opens the
  discovery session if none was attempted on this connection, and the clean-up then
  sends the deletion of the imported object in it (the steps
  are there in the model: a told call, `public_discovery_available`, and
  `send_secure_command` in the session it opened). `docs/yubihsm-auth.md:412` says
  that this session "is never used for private or mutating operations". Whether the
  device carries the deletion out depends on the capabilities of the discovery key.
* `public_discovery_available` (`src/backend/yubihsm.rs`) replaces an active
  discovery session without closing it, so that a slot may hold two sessions on the
  device; `docs/yubihsm-auth.md` says that it owns one.
* `remove_i2c` clears the legacy serial when its device is lost;
  `docs/connector.md` calls it latched for the lifetime of the process.
* `init_token` treats a missing header as a new token, also if records exist;
  `docs/software.md` says that it refuses.
* Two processes on one software token: a PIN change that read its header before
  another process published may link a generation that was swept meanwhile, and the
  other change is lost. The store is not documented for that, and the run has one
  process.
* `HttpConnector::refresh` drops the client of the connector whenever the status of
  one device cannot be had, also because its own slot is absent: opening a session
  on an absent YubiHSM makes the others behind the same URL absent until the next
  pass. A command that fails late drops a client installed after it was sent.
* A first discovery that fails leaves the software slots (or the platform slot and
  the HID authenticators) out until `C_Finalize`.
* After an attribute call that failed without a listing, the links from the key to
  its companions may be stale, and the next update adds a second companion, which
  hides both until another update.
* A YubiHSM key destroyed with its public object kept: when the answer to the
  deletion of its companion is lost (`destroy_native_object`), the call returns
  an error before it writes the public key's record, and the public object is gone
  although the key is not.
* The same destruction, when a command is refused and then the command that puts the
  companion back: its result is not looked at, the first error is returned, and the
  attributes of a key that is still there are gone.
* `CtapHidTransport::command` (the vendor command sent at discovery) keeps its
  handle on an error, unlike `transact`.

## 7. What is not modelled

The modules cover the code that keeps state between calls, or between the commands of
one call. Measured in lines that is the smaller part of the repository: most of the
rest encodes, decodes and translates.

* **Data**: APDUs, encodings, mechanism tables, attribute templates,
  certificates, cryptography, key derivation, configuration, PIN entry, logging.
  Pure functions on large data, or calls into other libraries.
* **Transports** of the CCID connector other than PC/SC (iOS, NFC) and excluded
  serials: they use the same binding with fewer moves.
* **Secure channels**: `CcidApplets` uses the applets in plaintext and
  `CcidChannel` one card that does not move; the two are not composed. Key updates
  of the security domain are not modelled.
* **Cryptographic operations**: the dual-function, recover and message-based calls;
  key generation, wrapping and derivation (`src/api/key.rs`) beyond the handles
  they return.
* **YubiHSM**: the encodings of commands, the trust store, domains, attestation,
  objects other than one key, and deletions by other clients. **CTAP**: CBOR
  commands, PIN protocols, PreviewSign. **Software store**: the public realm and the
  discovery PIN. **Connector daemon**: admission, HTTP timeouts, authentication, the
  virtual HSM, devices without a serial; a client that goes away leaves its command
  running, which the model has as a request that just ends.
* **Discovery**: the iOS NFC routes, serial filters, and the choice between the HID
  and the CCID side of one authenticator.
* **OpenPGP, OATH, HSM Auth, security domain**: command encodings over the applet
  connector; what they keep between calls is the connector's state and the login,
  which the card modules have.
* **Platform slot, local USB enumeration, embedded virtual YubiKey**: behind
  operating-system interfaces.
* `SlotLocking` has no crash of a thread: a panic is caught at the C boundary, and
  a poisoned lock fails the calls after it.

## 8. Plan

Done, in this order: `SlotSessions` with `TokenSessions` (the state every
application sees), `SlotLocking`, `CcidDevices`, `CcidApplets`, with the proofs of
the first three; then `CryptOperations`, `TokenObjects`, `YubiHsmSession`,
`SoftwareStore`, `CtapHid`, `ConnectorRegistry`, `CcidChannel`, `Discovery` and
`HsmObjects`.

The theorems about sessions, locks and cards came first; then the refinement of
`TokenSessions` and those about `CcidChannel`, `YubiHsmSession`, `CtapHid`,
`ConnectorRegistry` and `SoftwareStore`; then `CryptOperations`, `Discovery`,
`TokenObjects` and `HsmObjects`. With these, every safety property of a passing run is
proved, but for the three listed in section 5.

Next, if the model grows: `CcidChannel` over the moving cards of `CcidDevices`; the
admission counters of the connector; the message-based operations.
