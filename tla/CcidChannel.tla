---------------------------- MODULE CcidChannel ----------------------------
(***************************************************************************)
(* The SCP03 and SCP11 channels of the applets of one card                 *)
(* (PcscAppletConnector).  The live channel is in the guard that the       *)
(* applets share and goes with the selection; whether an applet wants one, *)
(* and with which credential, is in the applet's own state.  An applet is  *)
(* used as by PivSlot.  A call holds the device, so the calls of the card  *)
(* do not overlap; the connection may be replaced at any time.             *)
(*                                                                         *)
(* A channel is identified by the login that it was opened for, 0 being    *)
(* none.  A handshake is one step, and so is an APDU with its answer.      *)
(***************************************************************************)
EXTENDS Naturals

CONSTANTS
    ChannelApplets,
    NoSelection,
    MaxLogins         \* bound: C_Login and C_LoginUser calls

ASSUME ChannelAssumption == MaxLogins \in Nat /\ NoSelection \notin ChannelApplets

VARIABLES
    policy,    \* ccid.recreate_sessions and ccid.secure_channel
    conn,      \* per applet: PcscAppletState
    chan,      \* SecureChannelState.selected_applet; epoch up to date
    role,      \* per applet: SlotState.login_role is set
    logins,    \* logins so far
    inCall,    \* the call in progress
    demanded,  \* per applet: the login whose channel the application relies on
    wire       \* the last APDU: its channel and the one demanded

channelVars == <<policy, conn, chan, role, logins, inCall, demanded, wire>>

NoAppletCall == [applet |-> NoSelection, step |-> "idle"]

Unselected(g) == [applet |-> NoSelection, session |-> 0, role |-> FALSE, synced |-> g.synced]

ChannelTypeOK ==
    /\ policy \in [recreate : BOOLEAN, configured : BOOLEAN]
    /\ conn \in [ChannelApplets -> [enabled : BOOLEAN, started : BOOLEAN,
                     dynamic : BOOLEAN, credential : 0..MaxLogins, login : 0..MaxLogins]]
    /\ chan \in [applet : ChannelApplets \cup {NoSelection}, session : 0..MaxLogins,
                  role : BOOLEAN, synced : BOOLEAN]
    /\ role \in [ChannelApplets -> BOOLEAN]
    /\ logins \in 0..MaxLogins
    /\ inCall \in [applet : ChannelApplets \cup {NoSelection},
                   step : {"idle", "prepared", "established", "verified", "undo", "changing"}]
    /\ demanded \in [ChannelApplets -> 0..MaxLogins]
    /\ wire \in [session : 0..MaxLogins, demanded : 0..MaxLogins]

ChannelInit ==
    /\ policy \in [recreate : BOOLEAN, configured : BOOLEAN]
    /\ conn = [a \in ChannelApplets |->
                   [enabled |-> FALSE, started |-> FALSE, dynamic |-> FALSE,
                    credential |-> 0, login |-> 0]]
    /\ chan = Unselected([synced |-> TRUE])
    /\ role = [a \in ChannelApplets |-> FALSE]
    /\ logins = 0
    /\ inCall = NoAppletCall
    /\ demanded = [a \in ChannelApplets |-> 0]
    /\ wire = [session |-> 0, demanded |-> 0]

-----------------------------------------------------------------------------
(* Selection and handshake. *)

\* active_protocol is some.
Protocol(c) == c.dynamic \/ policy.configured

\* synchronize_connection and the selection of the applet.
IsSelected(a, g) == g.synced /\ g.applet = a

Selection(a, g) ==
    IF IsSelected(a, g)
    THEN g
    ELSE [applet |-> a, session |-> 0, role |-> FALSE, synced |-> TRUE]

NeedsChannel(c, g) == Protocol(c) /\ c.enabled /\ g.session = 0

\* Mutant of RefusesChannel: a lost channel is no reason to refuse.
RefusesReleased(c, g) ==
    \/ c.dynamic /\ c.credential = 0 /\ g.session = 0
    \/ NeedsChannel(c, g) /\ c.started /\ ~policy.recreate

\* CKR_USER_NOT_LOGGED_IN: the credential was released, the channel of this
\* login was given up, or it was lost and may not be opened again.
RefusesChannel(c, g) ==
    \/ c.dynamic /\ c.credential = 0 /\ g.session = 0
    \/ c.started /\ ~c.enabled
    \/ NeedsChannel(c, g) /\ c.started /\ ~policy.recreate

\* The connector gives up the channel after an error.
GivenUp(c) == [c EXCEPT !.enabled = FALSE, !.credential = 0]

\* ensure_selected_locked: its possible outcomes.
EnsureSelected(a, c, g) ==
    LET s == Selection(a, g)
        unselectable == [ok |-> FALSE, conn |-> c, guard |-> Unselected(s)]
        refused == [ok |-> FALSE, conn |-> c, guard |-> s]
        selected == [ok |-> TRUE, conn |-> c, guard |-> s]
        opened == [ok |-> TRUE, conn |-> [c EXCEPT !.started = TRUE],
                   guard |-> [s EXCEPT !.session = IF c.dynamic THEN c.credential ELSE c.login]]
        unopened == [ok |-> FALSE, conn |-> GivenUp(c), guard |-> Unselected(s)]
    IN  (IF IsSelected(a, g) THEN {} ELSE {unselectable})
        \cup (IF RefusesChannel(c, s) THEN {refused}
              ELSE IF NeedsChannel(c, s) THEN {opened, unopened}
              ELSE {selected})

-----------------------------------------------------------------------------
(* APDUs. *)

Plain(c) == ~Protocol(c) \/ ~c.enabled

\* The APDU leaves, and its answer arrives or not.
ApduOutcomes(e) ==
    LET sent == [session |-> IF Plain(e.conn) THEN 0 ELSE e.guard.session]
        lost == IF Plain(e.conn) THEN e.conn ELSE GivenUp(e.conn)
    IN  {[ok |-> TRUE, conn |-> e.conn, guard |-> e.guard, sent |-> {sent}],
         [ok |-> FALSE, conn |-> lost, guard |-> Unselected(e.guard), sent |-> {sent}]}

\* send_apdu_locked: its possible outcomes, with the APDU if one was sent.
SendApduLocked(a) ==
    UNION {IF e.ok THEN ApduOutcomes(e)
           ELSE {[ok |-> FALSE, conn |-> e.conn, guard |-> e.guard, sent |-> {}]} :
              e \in EnsureSelected(a, conn[a], chan)}

\* The APDU as the application sees it.
OnWire(a, o) ==
    wire' = IF o.sent = {} THEN wire
            ELSE [session |-> (CHOOSE x \in o.sent : TRUE).session, demanded |-> demanded[a]]

-----------------------------------------------------------------------------
(* The end of a channel. *)

\* clear_secure_channel_locked
ClearedGuard(a, g) ==
    IF g.applet = a THEN [g EXCEPT !.session = 0, !.role = FALSE] ELSE g

ClearedLocked(c) == [c EXCEPT !.enabled = FALSE]

\* clear_secure_channel
ChannelCleared(c) == [c EXCEPT !.enabled = FALSE, !.credential = 0, !.started = FALSE]

\* The call returns with the applet's channel cleared: the application
\* relies on it no more.
ClearAndReturn(a, c, g) ==
    /\ conn' = [conn EXCEPT ![a] = ChannelCleared(c)]
    /\ chan' = ClearedGuard(a, g)
    /\ demanded' = [demanded EXCEPT ![a] = 0]
    /\ inCall' = NoAppletCall

-----------------------------------------------------------------------------
(* C_Login and C_LoginUser. *)

LoginActive(a) == IsSelected(a, chan) /\ chan.role

\* reconcile_login_state and prepare_secure_channel_login, with the
\* credential of another slot (dynamic) or the configured one.
PrepareLogin(a, dynamic) ==
    /\ inCall = NoAppletCall
    /\ ~(role[a] /\ LoginActive(a))
    /\ logins < MaxLogins
    /\ logins' = logins + 1
    /\ conn' = [conn EXCEPT ![a] =
                    [enabled |-> FALSE, started |-> FALSE, dynamic |-> dynamic,
                     credential |-> IF dynamic THEN logins + 1 ELSE 0, login |-> logins + 1]]
    /\ chan' = ClearedGuard(a, chan)
    /\ role' = [role EXCEPT ![a] = FALSE]
    /\ demanded' = [demanded EXCEPT ![a] = IF dynamic \/ policy.configured THEN logins + 1 ELSE 0]
    /\ inCall' = [applet |-> a, step |-> "prepared"]
    /\ UNCHANGED <<policy, wire>>

\* establish_secure_channel of PivSlot::login.  finish_secure_channel_login
\* clears the channel when the login fails.
EstablishForLogin(a) ==
    /\ inCall = [applet |-> a, step |-> "prepared"]
    /\ \E o \in EnsureSelected(a, [conn[a] EXCEPT !.enabled = TRUE], chan) :
          IF o.ok
          THEN /\ conn' = [conn EXCEPT ![a] = o.conn]
               /\ chan' = o.guard
               /\ inCall' = [inCall EXCEPT !.step = "established"]
               /\ UNCHANGED demanded
          ELSE ClearAndReturn(a, o.conn, o.guard)
    /\ UNCHANGED <<policy, role, logins, wire>>

\* verify_pin: the card takes the PIN or refuses it.
VerifyPin(a, accepted) ==
    /\ inCall = [applet |-> a, step |-> "established"]
    /\ \E o \in SendApduLocked(a) :
          /\ OnWire(a, o)
          /\ IF o.ok /\ accepted
             THEN /\ conn' = [conn EXCEPT ![a] = o.conn]
                  /\ chan' = o.guard
                  /\ inCall' = [inCall EXCEPT !.step = "verified"]
                  /\ UNCHANGED demanded
             ELSE ClearAndReturn(a, o.conn, o.guard)
    /\ UNCHANGED <<policy, role, logins>>

\* finish_secure_channel_login
Finished(c) == IF policy.recreate THEN c ELSE [c EXCEPT !.credential = 0]

\* finish_secure_channel_login and set_ccid_login_state.
RecordChannelLogin(a) ==
    /\ inCall = [applet |-> a, step |-> "verified"]
    /\ \E o \in EnsureSelected(a, Finished(conn[a]), chan) :
          /\ conn' = [conn EXCEPT ![a] = o.conn]
          /\ chan' = [o.guard EXCEPT !.role = o.ok]
          /\ role' = [role EXCEPT ![a] = o.ok]
          /\ inCall' = IF o.ok THEN NoAppletCall ELSE [inCall EXCEPT !.step = "undo"]
    /\ UNCHANGED <<policy, logins, demanded, wire>>

-----------------------------------------------------------------------------
(* The other calls. *)

\* logout_role: the card is told, whatever it answers, and the channel is
\* cleared.  It also ends a login that could not be recorded.
LogoutRole(a) ==
    /\ \/ inCall = NoAppletCall /\ role[a] /\ LoginActive(a)
       \/ inCall = [applet |-> a, step |-> "undo"]
    /\ \E o \in SendApduLocked(a) :
          /\ OnWire(a, o)
          /\ ClearAndReturn(a, o.conn, o.guard)
    /\ role' = [role EXCEPT ![a] = FALSE]
    /\ UNCHANGED <<policy, logins>>

\* C_Logout, or the end of the last session, with no login left to end.
ClearSecureChannel(a) ==
    /\ inCall = NoAppletCall
    /\ ~(role[a] /\ LoginActive(a))
    /\ ClearAndReturn(a, conn[a], chan)
    /\ role' = [role EXCEPT ![a] = FALSE]
    /\ UNCHANGED <<policy, logins, wire>>

\* C_SetPIN: only with a login where a channel is required.  A channel that
\* cannot be opened returns at once.
EstablishForPin(a) ==
    /\ inCall = NoAppletCall
    /\ (role[a] /\ LoginActive(a)) \/ ~Protocol(conn[a])
    /\ \E o \in EnsureSelected(a, [conn[a] EXCEPT !.enabled = TRUE], chan) :
          /\ conn' = [conn EXCEPT ![a] = IF o.ok THEN o.conn ELSE ClearedLocked(o.conn)]
          /\ chan' = o.guard
          /\ inCall' = IF o.ok THEN [applet |-> a, step |-> "changing"] ELSE NoAppletCall
    /\ UNCHANGED <<policy, role, logins, demanded, wire>>

SetPin(a) ==
    /\ inCall = [applet |-> a, step |-> "changing"]
    /\ \E o \in SendApduLocked(a) :
          /\ OnWire(a, o)
          /\ ClearAndReturn(a, o.conn, o.guard)
    /\ UNCHANGED <<policy, role, logins>>

\* Any other command to the applet.
SendCommand(a) ==
    /\ inCall = NoAppletCall
    /\ \E o \in SendApduLocked(a) :
          /\ OnWire(a, o)
          /\ conn' = [conn EXCEPT ![a] = o.conn]
          /\ chan' = o.guard
    /\ UNCHANGED <<policy, role, logins, inCall, demanded>>

\* reconcile_lost_applet_login
ReconcileLostLogin(a) ==
    /\ inCall = NoAppletCall
    /\ role[a] /\ ~LoginActive(a)
    /\ role' = [role EXCEPT ![a] = FALSE]
    /\ IF policy.recreate THEN UNCHANGED <<conn, chan>>
       ELSE /\ conn' = [conn EXCEPT ![a] = GivenUp(@)]
            /\ chan' = ClearedGuard(a, chan)
    /\ UNCHANGED <<policy, logins, inCall, demanded, wire>>

-----------------------------------------------------------------------------
(* Discovery and the connection. *)

\* synchronize_connection
SynchronizeConnection(g) == IF g.synced THEN g ELSE Unselected([synced |-> TRUE])

\* refresh finds the card.  It selects the applet to see that it is there,
\* unless the card is a virtual one (stable_applet_topology) or the applet
\* that is selected has a login.
RefreshPresent(a) ==
    /\ inCall = NoAppletCall
    /\ LET g == SynchronizeConnection(chan)
       IN  \/ chan' = g
           \/ ~g.role /\ chan' = Selection(a, Unselected(g))
           \/ ~g.role /\ chan' = Unselected(g)
    /\ UNCHANGED <<policy, conn, role, logins, inCall, demanded, wire>>

\* refresh does not find the card.
RefreshAbsent(a) ==
    /\ inCall = NoAppletCall
    /\ conn' = [conn EXCEPT ![a] = GivenUp(@)]
    /\ chan' = Unselected(chan)
    /\ UNCHANGED <<policy, role, logins, inCall, demanded, wire>>

\* The connection is replaced: its epoch changes.
ReplaceConnection ==
    /\ chan' = [chan EXCEPT !.synced = FALSE]
    /\ UNCHANGED <<policy, conn, role, logins, inCall, demanded, wire>>

ChannelNext ==
    \/ \E a \in ChannelApplets :
          \/ \E dynamic \in BOOLEAN : PrepareLogin(a, dynamic)
          \/ EstablishForLogin(a)
          \/ \E accepted \in BOOLEAN : VerifyPin(a, accepted)
          \/ RecordChannelLogin(a)
          \/ LogoutRole(a)
          \/ ClearSecureChannel(a)
          \/ EstablishForPin(a)
          \/ SetPin(a)
          \/ SendCommand(a)
          \/ ReconcileLostLogin(a)
          \/ RefreshPresent(a)
          \/ RefreshAbsent(a)
    \/ ReplaceConnection

ChannelSpec == ChannelInit /\ [][ChannelNext]_channelVars

-----------------------------------------------------------------------------
(* From the moment a login asks for a secure channel until the application *)
(* ends it (it fails, C_Logout, C_SetPIN, the last session closed), every  *)
(* APDU of the applet goes over a channel that was opened for that login:  *)
(* never in plain and never over the channel of an earlier login, however  *)
(* the channel was lost in between (another applet selected, a reconnect,  *)
(* a failed command, discovery).  "Preserve channel_started so loss cannot *)
(* silently enable plaintext" (reconcile_lost_applet_login).               *)
(***************************************************************************)
ChannelKept == wire.demanded # 0 => wire.session = wire.demanded
=============================================================================
