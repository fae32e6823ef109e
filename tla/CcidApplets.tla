---------------------------- MODULE CcidApplets ----------------------------
(***************************************************************************)
(* The applets of the cards of CcidDevices: what is selected and verified  *)
(* on a card, and the selected-applet guard that the slots of a card share *)
(* (PcscReaderState with its SecureChannelState).  Every step of a device  *)
(* or of discovery is the step of CcidDevices with what it does to card    *)
(* and guard.                                                              *)
(*                                                                         *)
(* synced[d] is SecureChannelState.connection_epoch = epoch of the device. *)
(* Applets are used without a secure channel, and a login is the user's.   *)
(***************************************************************************)
EXTENDS CcidDevices

CONSTANTS
    Applets,      \* applets with a slot on every card
    Management,   \* the applet that tells the serial
    NoApplet

ASSUME NoAppletAssumption == NoApplet \notin Applets \cup {Management}

VARIABLES
    applet, verified,         \* a card: the applet selected on it, PIN verified
    selected, login, synced,  \* the guard: applet, CcidLoginState, epoch up to date
    caller, proved,           \* the applet of the call; PIN accepted, not yet recorded
    pinned                    \* the recorded login is one of a call with a pinned reader

card == <<applet, verified>>
guard == <<selected, login, synced, pinned>>
calls == <<caller, proved>>
vars == <<deviceVars, card, guard, calls>>

TypeOK ==
    /\ DevicesTypeOK
    /\ applet \in [Cards -> Applets \cup {Management, NoApplet}]
    /\ verified \in [Cards -> BOOLEAN]
    /\ selected \in [Cards -> Applets \cup {NoApplet}]
    /\ login \in [Cards -> BOOLEAN]
    /\ synced \in [Cards -> BOOLEAN]
    /\ pinned \in [Cards -> BOOLEAN]
    /\ caller \in [Cards -> Applets \cup {NoApplet}]
    /\ proved \in [Cards -> BOOLEAN]

Init ==
    /\ DevicesInit
    /\ applet = [c \in Cards |-> NoApplet]
    /\ verified = [c \in Cards |-> FALSE]
    /\ selected = [d \in Cards |-> NoApplet]
    /\ login = [d \in Cards |-> FALSE]
    /\ synced = [d \in Cards |-> TRUE]
    /\ pinned = [d \in Cards |-> FALSE]
    /\ caller = [d \in Cards |-> NoApplet]
    /\ proved = [d \in Cards |-> FALSE]

-----------------------------------------------------------------------------
(* The card. *)

\* Power resets the card.
InsertCard(c, r) ==
    /\ Insert(c, r)
    /\ applet' = [applet EXCEPT ![c] = NoApplet]
    /\ verified' = [verified EXCEPT ![c] = FALSE]
    /\ UNCHANGED <<guard, calls>>

\* The card in reader r selects an applet, which drops its PIN verification.
CardSelects(r, a) ==
    /\ applet' = [c \in Cards |-> IF at[c] = r THEN a ELSE applet[c]]
    /\ verified' = [c \in Cards |-> at[c] # r /\ verified[c]]

-----------------------------------------------------------------------------
(* PcscAppletConnector: the calls of an applet's slot. *)

EnterApplet(d, a) ==
    /\ Enter(d)
    /\ caller' = [caller EXCEPT ![d] = a]
    /\ UNCHANGED <<card, guard, proved>>

ExitApplet(d) ==
    /\ ~proved[d]
    /\ Exit(d)
    /\ caller' = [caller EXCEPT ![d] = NoApplet]
    /\ UNCHANGED <<card, guard, proved>>

\* Mutant of Cached: the guard is not synchronized with the connection epoch.
CachedStale(d, a) == selected[d] = a

\* The guard says that the applet is selected on this connection.
Cached(d, a) == synced[d] /\ selected[d] = a

Guard(d, a, in) ==
    /\ selected' = [selected EXCEPT ![d] = a]
    /\ login' = [login EXCEPT ![d] = in]
    /\ synced' = [synced EXCEPT ![d] = TRUE]
    /\ UNCHANGED pinned

Cleared(d) ==
    /\ selected' = [selected EXCEPT ![d] = NoApplet]
    /\ login' = [login EXCEPT ![d] = FALSE]
    /\ UNCHANGED <<synced, pinned>>

\* The card has the login that a private command wants.
Authorized(d, a) ==
    Cached(d, a) /\ \A c \in CardIn(Target(d)) : applet[c] = a /\ verified[c]

\* send_apdu_locked with ensure_selected_locked before it.  A command that
\* the card refuses for want of a login drops the recorded one
\* (observe_piv_authentication_result).
SendApdu(d, a, private) ==
    /\ caller[d] = a
    /\ ~proved[d]
    /\ live[Target(d)]
    /\ IF Cached(d, a) THEN UNCHANGED card ELSE CardSelects(Target(d), a)
    /\ Guard(d, a, Cached(d, a) /\ login[d] /\ (private => Authorized(d, a)))
    /\ UNCHANGED <<deviceVars, calls>>

\* A transport error, of the command or of the selection before it.
SendFailed(d, a) ==
    /\ caller[d] = a
    /\ ~proved[d]
    /\ Guard(d, NoApplet, FALSE)
    /\ UNCHANGED <<deviceVars, card, calls>>

\* Slot::login: the applet is selected and the PIN accepted by the card.
Authenticate(d, a) ==
    /\ caller[d] = a
    /\ ~proved[d]
    /\ live[Target(d)]
    /\ ~(Cached(d, a) /\ login[d])
    /\ applet' = [c \in Cards |-> IF at[c] = Target(d) THEN a ELSE applet[c]]
    /\ verified' = [c \in Cards |-> at[c] = Target(d) \/ verified[c]]
    /\ Guard(d, a, FALSE)
    /\ proved' = [proved EXCEPT ![d] = TRUE]
    /\ UNCHANGED <<deviceVars, caller>>

Recorded(d, a) ==
    /\ selected' = [selected EXCEPT ![d] = a]
    /\ login' = [login EXCEPT ![d] = TRUE]
    /\ synced' = [synced EXCEPT ![d] = TRUE]
    /\ pinned' = [pinned EXCEPT ![d] = active[d] # NoReader]

\* set_login_role -> set_ccid_login_state: selects again if it must.
RecordLogin(d, a) ==
    /\ caller[d] = a
    /\ proved[d]
    /\ proved' = [proved EXCEPT ![d] = FALSE]
    /\ IF Cached(d, a)
       THEN Recorded(d, a) /\ UNCHANGED card
       ELSE IF live[Target(d)]
            THEN Recorded(d, a) /\ CardSelects(Target(d), a)
            ELSE Guard(d, NoApplet, FALSE) /\ UNCHANGED card
    /\ UNCHANGED <<deviceVars, caller>>

\* logout_role: the card drops its verification if the command reaches it;
\* the guard drops the login in any case.
Logout(d, a) ==
    /\ caller[d] = a
    /\ ~proved[d]
    /\ Cached(d, a)
    /\ login[d]
    /\ IF live[Target(d)]
       THEN Guard(d, a, FALSE) /\ CardSelects(Target(d), a)
       ELSE Guard(d, NoApplet, FALSE) /\ UNCHANGED card
    /\ UNCHANGED <<deviceVars, calls>>

\* Reading the serial selects the management applet.
SerialRead(d) ==
    IF Verifies(d) THEN CardSelects(current[d], Management) ELSE UNCHANGED card

\* Mutant of GuardRefreshed: the refresh does not look at the connection epoch.
GuardKept(d, readable) ==
    IF Refreshes(d, readable)
    THEN Guard(d, selected[d], login[d])
    ELSE Cleared(d)

\* What the refresh of an applet leaves of the guard (the topology is stable).
GuardRefreshed(d, readable) ==
    IF Refreshes(d, readable)
    THEN IF synced[d] /\ ~Revalidated(d, readable)
         THEN UNCHANGED guard
         ELSE Guard(d, NoApplet, FALSE)
    ELSE Cleared(d)

RefreshApplet(d, readable) ==
    /\ ~proved[d]
    /\ Refresh(d, readable)
    /\ SerialRead(d)
    /\ GuardRefreshed(d, readable)
    /\ caller' = [caller EXCEPT ![d] = IF Refreshes(d, readable) THEN @ ELSE NoApplet]
    /\ UNCHANGED proved

-----------------------------------------------------------------------------
(* Discovery. *)

\* The connector of the device is refreshed, not that of an applet: a new
\* epoch makes the guard old.
CheckDevice(d, readable) ==
    /\ CheckEntry(d, readable)
    /\ SerialRead(d)
    /\ synced' = [synced EXCEPT ![d] = @ /\ ~Revalidated(d, readable)]
    /\ UNCHANGED <<selected, login, pinned, calls>>

\* The probe of a card without a serial ends with some applet selected.
IdentifyCard(r, readable, probed, a) ==
    /\ Identify(r, readable, probed)
    /\ a # Management => probed /\ ~readable
    /\ CardSelects(r, a)
    /\ UNCHANGED <<guard, calls>>

BindDevice(d) ==
    /\ ApplyReader(d)
    /\ synced' = [synced EXCEPT ![d] = @ /\ Refused(d)]
    /\ UNCHANGED <<card, selected, login, pinned, calls>>

\* The probe selects every applet in turn; its last selection stays.
RegisterApplets(d, readable, a) ==
    /\ RegisterDevice(d, readable)
    /\ IF Registers(d, readable)
       THEN CardSelects(spot, a) /\ Guard(d, a, FALSE)
       ELSE /\ UNCHANGED guard
            /\ IF live[spot] THEN UNCHANGED card ELSE CardSelects(spot, Management)
    /\ UNCHANGED calls

RefreshSlot(d, readable) ==
    /\ RefreshSlots(d, readable)
    /\ SerialRead(d)
    /\ GuardRefreshed(d, readable)
    /\ UNCHANGED calls

\* Steps that reach neither a card nor a guard.
Bookkeeping ==
    /\ \/ \E c \in Cards : Remove(c)
       \/ \E enumerated \in SUBSET Readers : BeginPass(enumerated)
       \/ EnumerationFails
       \/ BeginReaders
       \/ \E d \in Cards : ReconcileEntry(d)
       \/ \E failed \in BOOLEAN : EndReaders(failed)
       \/ EndPass
    /\ UNCHANGED <<card, guard, calls>>

-----------------------------------------------------------------------------
Calls(d) ==
    \/ \E a \in Applets :
          \/ EnterApplet(d, a)
          \/ \E private \in BOOLEAN : SendApdu(d, a, private)
          \/ SendFailed(d, a)
          \/ Authenticate(d, a)
          \/ RecordLogin(d, a)
          \/ Logout(d, a)
    \/ \E readable \in SerialReads : RefreshApplet(d, readable)
    \/ ExitApplet(d)

Discovery ==
    \/ \E r \in Readers, readable \in SerialReads, probed \in BOOLEAN,
          a \in Applets \cup {Management} : IdentifyCard(r, readable, probed, a)
    \/ \E d \in Cards :
          \/ BindDevice(d)
          \/ \E readable \in SerialReads :
                \/ CheckDevice(d, readable)
                \/ RefreshSlot(d, readable)
                \/ \E a \in Applets : RegisterApplets(d, readable, a)

Next ==
    \/ \E c \in Cards, r \in Readers : InsertCard(c, r)
    \/ Bookkeeping
    \/ Discovery
    \/ \E d \in Cards : Calls(d)

Spec == Init /\ [][Next]_vars

-----------------------------------------------------------------------------
(* Properties. *)

\* What the guard says is selected is selected on the card behind a valid
\* handle: no command of an applet's slot reaches another applet.
SelectionTrue ==
    \A d \in Cards : known[d] /\ synced[d] /\ selected[d] # NoApplet /\ live[Target(d)]
        => at[d] = Target(d) /\ applet[d] = selected[d]

\* A login that a call with a pinned reader has recorded is one the card has
\* accepted since it was inserted and has not lost: applet switches, rescans
\* and reconnects have dropped every other one.
LoginTrue ==
    \A d \in Cards : /\ known[d] /\ synced[d] /\ live[Target(d)]
                     /\ selected[d] # NoApplet /\ login[d] /\ pinned[d]
        => verified[d]
=============================================================================
