--------------------------- MODULE YubiHsmSession ---------------------------
(***************************************************************************)
(* The secure session of a YubiHSM slot: login, the public discovery       *)
(* session, the commands sent in it over the HTTP connector, its expiry on *)
(* the device, its recreation with one replay, and its loss.               *)
(*                                                                         *)
(* Host and device each chain the MAC of every message; the chains are the *)
(* numbers of messages sent and received.  The keys of a session are known *)
(* by a nonce, as the device gives out the few session IDs again.          *)
(***************************************************************************)
EXTENDS Integers, FiniteSets

CONSTANTS
    Sids,           \* session IDs of the device
    Recreate,       \* yubihsm.recreate_sessions
    MaxHandshakes,  \* bound on the sessions this slot opens
    MaxCommands,    \* bound on the commands it sends
    MaxHsmFaults,   \* bound on transport failures
    Free,           \* a session ID that is not in use
    Other           \* the keys of another client of the device

ASSUME HsmAssumption ==
    /\ Recreate \in BOOLEAN
    /\ MaxHandshakes \in Nat /\ MaxCommands \in Nat /\ MaxHsmFaults \in Nat
    /\ Free \notin Nat /\ Other \notin Nat /\ Free # Other

VARIABLES
    session,     \* YubiHsmSessionState of the slot
    device,      \* the sessions on the device
    connected,   \* the endpoint has an agent
    stale,       \* connection_epoch differs from the one of the caches
    discovery,   \* YubiHsmDiscoveryCache
    call,        \* the API call that is running
    executed,    \* how often the device ran the current command
    discoveryRan,  \* something of the call ran in a discovery session
    nonce,       \* sessions opened so far
    commands,    \* commands sent so far
    hsmFaults    \* transport failures so far

hsmVars == <<session, device, connected, stale, discovery, call, executed, discoveryRan,
             nonce, commands, hsmFaults>>

Roles == {"User", "PublicDiscovery"}
Nonces == 1..MaxHandshakes

NoSession(state) == [state |-> state, role |-> "User", sid |-> Free, nonce |-> 0, sent |-> 0]
Vacant == [nonce |-> Free, received |-> 0]
NoCall == [pc |-> "none", user |-> FALSE, told |-> FALSE, kind |-> "command", attempt |-> 0,
           again |-> FALSE]

HsmTypeOK ==
    /\ session \in [state : {"LoggedOut", "InvalidatedUser", "Active"}, role : Roles,
                    sid : Sids \cup {Free}, nonce : 0..MaxHandshakes, sent : Nat]
    /\ device \in [Sids -> [nonce : Nonces \cup {Free, Other}, received : Nat]]
    /\ connected \in BOOLEAN /\ stale \in BOOLEAN
    /\ discovery \in {"Unattempted", "Failed", "Available"}
    /\ call \in [pc : {"none", "ready", "sent", "reauth", "resend", "retry"}, user : BOOLEAN,
                 told : BOOLEAN, kind : {"command", "read"}, attempt : 0..1, again : BOOLEAN]
    /\ executed \in Nat
    /\ discoveryRan \in BOOLEAN
    /\ nonce \in 0..MaxHandshakes /\ commands \in 0..MaxCommands /\ hsmFaults \in 0..MaxHsmFaults

HsmInit ==
    /\ session = NoSession("LoggedOut")
    /\ device = [sid \in Sids |-> Vacant]
    /\ connected = TRUE
    /\ stale = FALSE
    /\ discovery = "Unattempted"
    /\ call = NoCall
    /\ executed = 0
    /\ discoveryRan = FALSE
    /\ nonce = 0
    /\ commands = 0
    /\ hsmFaults = 0

Active == session.state = "Active"
LoggedIn == Active /\ session.role = "User"   \* login_is_active

-----------------------------------------------------------------------------
(* Transport and handshake.                                                *)

(* HttpConnectorEndpoint::mark_disconnected, after any transport error.    *)
mark_disconnected ==
    /\ hsmFaults < MaxHsmFaults
    /\ hsmFaults' = hsmFaults + 1
    /\ connected' = FALSE
    /\ stale' = TRUE

NewSession(role, sid) ==
    [state |-> "Active", role |-> role, sid |-> sid, nonce |-> nonce + 1, sent |-> 0]

(* The device opens a session; dev is the device after an earlier close.   *)
Open(dev, sid) ==
    /\ connected
    /\ nonce < MaxHandshakes
    /\ dev[sid].nonce = Free
    /\ nonce' = nonce + 1
    /\ device' = [dev EXCEPT ![sid] = [nonce |-> nonce + 1, received |-> 0]]

(* A handshake that does not lead to a session: refused, rejected by the   *)
(* validation of the key and closed, or cut off with the device's half of  *)
(* it left open.  epoch is what the caches know of the connection.         *)
HandshakeFails(dev, epoch) ==
    \/ device' = dev /\ stale' = epoch /\ UNCHANGED <<connected, nonce, hsmFaults>>
    \/ mark_disconnected /\ \E sid \in Sids : Open(dev, sid)

(* close_active_session: the device closes the session if it hears of it.  *)
Closed ==
    IF Active /\ connected /\ device[session.sid].nonce = session.nonce
    THEN [device EXCEPT ![session.sid] = Vacant]
    ELSE device

\* Mutant of Lost: a lost user session is like any other.
LostSilently(s) == NoSession("LoggedOut")

\* Mutant of Lost: a failed command leaves the session valid.
LostStaysValid(s) == s

(* The slot's state once its session is invalid.                           *)
Lost(s) ==
    IF s.state = "Active" /\ s.role = "User" THEN NoSession("InvalidatedUser")
    ELSE NoSession("LoggedOut")

(* synchronize_caches: a new connection ends the session.                  *)
Synchronized == IF stale THEN Lost(session) ELSE session
SynchronizedDiscovery == IF stale THEN "Unattempted" ELSE discovery

-----------------------------------------------------------------------------
(* Login.                                                                  *)

Idle == call.pc = "none" /\ UNCHANGED <<call, executed, discoveryRan, commands>>

(* login_selected and install_authenticated_login; authenticate_direct,    *)
(* with a password, synchronizes the caches first.                         *)
login ==
    /\ Idle
    /\ \E direct \in BOOLEAN :
          /\ discovery' = IF direct THEN SynchronizedDiscovery ELSE discovery
          /\ \/ \E sid \in Sids :
                  /\ Open(Closed, sid)
                  /\ session' = NewSession("User", sid)
                  /\ stale' = (stale /\ ~direct)
                  /\ UNCHANGED <<connected, hsmFaults>>
             \/ /\ HandshakeFails(Closed, stale /\ ~direct)
                /\ session' = NoSession("LoggedOut")

(* close_active_session, which takes the session out whatever becomes of   *)
(* the message.                                                            *)
CloseActive ==
    /\ session' = NoSession("LoggedOut")
    /\ UNCHANGED nonce
    /\ \/ device' = Closed /\ UNCHANGED <<connected, stale, hsmFaults>>
       \/ Active /\ connected /\ mark_disconnected /\ device' \in {device, Closed}

logout == Idle /\ LoggedIn /\ CloseActive /\ UNCHANGED discovery

clear_session == Idle /\ CloseActive /\ UNCHANGED discovery

init_slot ==
    /\ Idle
    /\ connected
    /\ session' = NoSession("LoggedOut")
    /\ device' = Closed
    /\ discovery' = "Unattempted"
    /\ stale' = FALSE
    /\ UNCHANGED <<connected, nonce, hsmFaults>>

-----------------------------------------------------------------------------
(* Calls: any sequence of commands, reads, lookups and listings.  A step   *)
(* that fails tells the call; most calls then end, but some swallow the    *)
(* failure and go on (a listing that skips an unreadable key, a clean-up). *)

BeginCall ==
    /\ call.pc = "none"
    /\ commands < MaxCommands
    /\ call' = [NoCall EXCEPT !.pc = "ready", !.user = LoggedIn]
    /\ executed' = 0
    /\ discoveryRan' = FALSE
    /\ UNCHANGED <<session, device, connected, stale, discovery, nonce, commands, hsmFaults>>

EndCall ==
    /\ call.pc = "ready"
    /\ call' = NoCall
    /\ executed' = 0
    /\ discoveryRan' = FALSE
    /\ UNCHANGED <<session, device, connected, stale, discovery, nonce, commands, hsmFaults>>

Told == [call EXCEPT !.pc = "ready", !.told = TRUE]

Transmitted(s) == [s EXCEPT !.sent = @ + 1]

(* send_secure_command on the slot's session, whatever its role: also the  *)
(* clean-up of import_yubihsm_token_object_in_slot, which deletes what the *)
(* call put on the device once a later step of it has failed.              *)
send_secure_command ==
    /\ call.pc = "ready"
    /\ commands < MaxCommands
    /\ commands' = commands + 1
    /\ executed' = 0
    /\ IF Active
       THEN /\ session' = Transmitted(session)
            /\ call' = [call EXCEPT !.pc = "sent", !.kind = "command", !.attempt = 0,
                                    !.again = FALSE]
       ELSE call' = Told /\ UNCHANGED session
    /\ UNCHANGED <<device, connected, stale, discovery, discoveryRan, nonce, hsmFaults>>

(* ensure_read_session: the call goes on as next, after a message in the   *)
(* session if it transmits one, or fails.  A discovery session is opened   *)
(* with a look at its key, which runs in it.                               *)
EnsureReadSession(transmits, next) ==
    LET s == Synchronized
        Use(active) == IF transmits THEN Transmitted(active) ELSE active
    IN  /\ discovery' = SynchronizedDiscovery
        /\ \/ /\ s.state = "Active"
              /\ session' = Use(s)
              /\ call' = next
              /\ stale' = FALSE
              /\ UNCHANGED <<device, connected, discoveryRan, nonce, hsmFaults>>
           \/ /\ s.state = "InvalidatedUser"
              /\ session' = NoSession("LoggedOut")
              /\ call' = Told
              /\ stale' = FALSE
              /\ UNCHANGED <<device, connected, discoveryRan, nonce, hsmFaults>>
           \/ /\ s.state = "LoggedOut"
              /\ \E sid \in Sids :
                    /\ Open(device, sid)
                    /\ session' = Use(NewSession("PublicDiscovery", sid))
              /\ discoveryRan' = TRUE
              /\ call' = next
              /\ stale' = FALSE
              /\ UNCHANGED <<connected, hsmFaults>>
           \/ /\ s.state = "LoggedOut"
              /\ HandshakeFails(device, FALSE)
              /\ discoveryRan' \in {discoveryRan, TRUE}
              /\ session' = NoSession("LoggedOut")
              /\ call' = Told

(* An attempt of read_object_value_with_public_discovery.  A read of the   *)
(* logged-in user is a command in the user's session.                      *)
read_object ==
    /\ (call.pc = "ready" /\ ~LoggedIn) \/ call.pc = "retry"
    /\ commands < MaxCommands
    /\ commands' = commands + 1
    /\ executed' = 0
    /\ EnsureReadSession(TRUE,
                         [call EXCEPT !.pc = "sent", !.kind = "read", !.again = FALSE,
                                      !.attempt = IF call.pc = "retry" THEN 1 ELSE 0])

(* C_GenerateRandom and write_backed_key_metadata ask for a session and    *)
(* then send their commands.                                               *)
ensure_backend_read_session ==
    /\ call.pc = "ready"
    /\ EnsureReadSession(FALSE, call)
    /\ UNCHANGED <<executed, commands>>

(* backend_token_object looks an object up in the caches, which a new      *)
(* connection empties: the object is not found.                            *)
backend_token_object ==
    /\ call.pc = "ready"
    /\ stale
    /\ session' = Synchronized
    /\ discovery' = SynchronizedDiscovery
    /\ stale' = FALSE
    /\ call' = Told
    /\ UNCHANGED <<device, connected, executed, discoveryRan, nonce, commands, hsmFaults>>

(* public_discovery_available, where backend_token_objects lists for       *)
(* nobody: the discovery session lists and reads, and is kept.             *)
public_discovery_available ==
    /\ call.pc = "ready"
    /\ ~LoggedIn
    /\ UNCHANGED <<call, executed, commands>>
    /\ \/ /\ SynchronizedDiscovery = "Unattempted"
          /\ \E sid \in Sids :
                /\ Open(device, sid)
                /\ session' = NewSession("PublicDiscovery", sid)
          /\ discoveryRan' = TRUE
          /\ discovery' = "Available"
          /\ stale' = FALSE
          /\ UNCHANGED <<connected, hsmFaults>>
       \/ /\ SynchronizedDiscovery = "Unattempted"
          /\ HandshakeFails(device, FALSE)
          /\ discoveryRan' \in {discoveryRan, TRUE}
          /\ session' = Synchronized
          /\ discovery' = "Failed"
       \/ /\ session' = Synchronized     \* attempted before, or no source for it yet
          /\ discovery' = SynchronizedDiscovery
          /\ stale' = FALSE
          /\ UNCHANGED <<device, connected, discoveryRan, nonce, hsmFaults>>

\* Mutant of Lose: the session is recreated after any error.
LoseOrRecreate ==
    IF call.again THEN session' = Lost(session) /\ call' = Told
    ELSE call' = [call EXCEPT !.pc = "reauth"] /\ UNCHANGED session

(* A step failed and the session with it; a read that the discovery        *)
(* session failed is tried once more.                                      *)
Lose ==
    LET s == Lost(session)
    IN  /\ session' = s
        /\ call' = IF call.kind = "read" /\ s.state = "LoggedOut" /\ call.attempt = 0
                   THEN [call EXCEPT !.pc = "retry"] ELSE Told

(* The device accepts a message that continues the chain of its session.   *)
Accepts(sid) ==
    /\ connected
    /\ device[sid].nonce = session.nonce
    /\ device[sid].received + 1 = session.sent

Executes ==
    /\ call.pc = "sent"
    /\ Accepts(session.sid)
    /\ device' = [device EXCEPT ![session.sid].received = @ + 1]
    /\ executed' = executed + 1
    /\ discoveryRan' = IF session.role = "User" THEN discoveryRan ELSE TRUE
    /\ UNCHANGED <<discovery, nonce, commands>>
    /\ \/ /\ call' = [call EXCEPT !.pc = "ready"]
          /\ UNCHANGED <<session, connected, stale, hsmFaults>>
       \/ mark_disconnected /\ Lose     \* the response is lost
       \/ /\ hsmFaults < MaxHsmFaults   \* the response is not authentic
          /\ hsmFaults' = hsmFaults + 1
          /\ Lose
          /\ UNCHANGED <<connected, stale>>

(* The device answers 0x03, invalid session.                               *)
Expired ==
    /\ call.pc = "sent"
    /\ connected
    /\ device[session.sid].nonce = Free
    /\ IF Recreate /\ ~call.again
       THEN call' = [call EXCEPT !.pc = "reauth"] /\ UNCHANGED session
       ELSE Lose
    /\ UNCHANGED <<device, connected, stale, discovery, executed, discoveryRan, nonce, commands, hsmFaults>>

(* The message fits no session of the device, or there is no connection.   *)
Refused ==
    /\ call.pc = "sent"
    /\ ~connected \/ (device[session.sid].nonce # Free /\ ~Accepts(session.sid))
    /\ Lose
    /\ UNCHANGED <<device, connected, stale, discovery, executed, discoveryRan, nonce, commands, hsmFaults>>

RequestLost ==
    /\ call.pc = "sent"
    /\ connected
    /\ mark_disconnected
    /\ Lose
    /\ UNCHANGED <<device, discovery, executed, discoveryRan, nonce, commands>>

(* The recipe of the lost session authenticates again ...                  *)
reauthenticate ==
    /\ call.pc = "reauth"
    /\ UNCHANGED <<discovery, executed, discoveryRan, commands>>
    /\ \/ /\ \E sid \in Sids :
                /\ Open(device, sid)
                /\ session' = NewSession(session.role, sid)
          /\ call' = [call EXCEPT !.pc = "resend", !.again = TRUE]
          /\ UNCHANGED <<connected, stale, hsmFaults>>
       \/ HandshakeFails(device, stale) /\ Lose

(* ... and the command is sent once more.                                  *)
resend ==
    /\ call.pc = "resend"
    /\ session' = Transmitted(session)
    /\ call' = [call EXCEPT !.pc = "sent"]
    /\ UNCHANGED <<device, connected, stale, discovery, executed, discoveryRan, nonce, commands, hsmFaults>>

-----------------------------------------------------------------------------
(* The connector and the device.                                           *)

(* apply_status and apply_discovered: the endpoint is reached again, or    *)
(* the device was attached anew, which ends its sessions.                  *)
apply_discovered ==
    /\ call.pc \in {"none", "ready", "retry"}
    /\ connected' = TRUE
    /\ \/ ~connected /\ UNCHANGED <<device, stale>>
       \/ device' = [sid \in Sids |-> Vacant] /\ stale' = TRUE
    /\ UNCHANGED <<session, discovery, call, executed, discoveryRan, nonce, commands, hsmFaults>>

SessionExpires(sid) ==
    /\ device[sid].nonce # Free
    /\ device' = [device EXCEPT ![sid] = Vacant]
    /\ UNCHANGED <<session, connected, stale, discovery, call, executed, discoveryRan, nonce, commands, hsmFaults>>

OtherClientOpens(sid) ==
    /\ device[sid].nonce = Free
    /\ device' = [device EXCEPT ![sid].nonce = Other]
    /\ UNCHANGED <<session, connected, stale, discovery, call, executed, discoveryRan, nonce, commands, hsmFaults>>

HsmNext ==
    \/ login \/ logout \/ clear_session \/ init_slot
    \/ BeginCall \/ EndCall
    \/ send_secure_command \/ read_object \/ ensure_backend_read_session
    \/ backend_token_object \/ public_discovery_available
    \/ Executes \/ Expired \/ Refused \/ RequestLost
    \/ reauthenticate \/ resend
    \/ apply_discovered
    \/ \E sid \in Sids : SessionExpires(sid) \/ OtherClientOpens(sid)

HsmSpec == HsmInit /\ [][HsmNext]_hsmVars

-----------------------------------------------------------------------------
(* Properties. *)

(* A command that changes the device runs at most once, whatever is lost   *)
(* on the way, and a session is recreated for its replay only if it has    *)
(* not run (send_secure_command, expired).                                 *)
ReplayedOnlyUnrun ==
    /\ call.kind # "read" => executed <= 1
    /\ call.pc \in {"reauth", "resend"} => executed = 0

(* Lost requests, lost responses and half-open handshakes never leave a    *)
(* session in use whose MAC chain the device does not share.               *)
ChainsAgree ==
    Active /\ call.pc \notin {"sent", "reauth"} /\ device[session.sid].nonce = session.nonce =>
        device[session.sid].received = session.sent

(* The user is never demoted silently (docs/yubihsm-auth.md): whatever     *)
(* expires or changes under a call that began with the user logged in,     *)
(* nothing of it runs in the public discovery session unless a step of the *)
(* call has failed, or found nothing, on account of the lost session.      *)
NeverSilentlyDemoted == call.user /\ ~call.told => ~discoveryRan
=============================================================================
