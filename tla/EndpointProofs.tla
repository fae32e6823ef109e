--------------------------- MODULE EndpointProofs ---------------------------
(***************************************************************************)
(* Proofs about what a slot talks to: the YubiHSM's secure session, the    *)
(* CTAPHID channel, and the files of a software token.                     *)
(***************************************************************************)
EXTENDS YubiHsmSession, CtapHid, SoftwareStore, TLAPS

-----------------------------------------------------------------------------
(***************************************************************************)
(* The secure session of a YubiHSM slot, for any number of session IDs,    *)
(* handshakes, commands and transport failures.  The inductive invariant   *)
(* says what the slot's session and the device's sessions have in common   *)
(* (SessionFits: a nonce they share means the same chain, up to the one    *)
(* message on its way), where in a call the device can have run the        *)
(* command, and that a call of a logged-in user keeps that login until it  *)
(* is told of the loss.                                                    *)
(***************************************************************************)

SessionSet ==
    [state : {"LoggedOut", "InvalidatedUser", "Active"}, role : Roles,
     sid : Sids \cup {Free}, nonce : 0..MaxHandshakes, sent : Nat]
CallSet ==
    [pc : {"none", "ready", "sent", "reauth", "resend", "retry"}, user : BOOLEAN,
     told : BOOLEAN, kind : {"command", "read"}, attempt : 0..1, again : BOOLEAN]

\* The device holds sessions of this slot's first n handshakes, or others'.
DeviceOK(dev, n) ==
    /\ dev \in [Sids -> [nonce : Nonces \cup {Free, Other}, received : Nat]]
    /\ \A sid \in Sids : dev[sid].nonce \in (1..n) \cup {Free, Other}

\* A session in use is one of the first n, and where the device still has it,
\* the device has received every message of it, but the one on its way.
SessionFits(s, dev, n, pc) ==
    s.state = "Active" =>
        /\ s.sid \in Sids /\ s.nonce \in 1..n
        /\ dev[s.sid].nonce = s.nonce =>
              /\ pc # "reauth"
              /\ dev[s.sid].received + (IF pc = "sent" THEN 1 ELSE 0) = s.sent

\* A command on its way, or about to be sent again, has a session and has
\* not run; none runs twice.
RunsOK ==
    /\ executed <= 1
    /\ call.pc \in {"sent", "reauth", "resend"} => Active /\ executed = 0

\* A call that began with the user logged in goes on as that user until it
\* is told that the session is lost.
UserOK ==
    call.user /\ ~call.told =>
        /\ call.pc # "retry"
        /\ call.pc # "none" => LoggedIn
        /\ discoveryRan = FALSE

HsmInv ==
    /\ HsmTypeOK
    /\ DeviceOK(device, nonce)
    /\ SessionFits(session, device, nonce, call.pc)
    /\ RunsOK
    /\ UserOK

-----------------------------------------------------------------------------
(* Sessions on the device. *)

\* The device after sessions of it ended.
LEMMA EndedLemma ==
    ASSUME NEW dev, NEW n \in 0..MaxHandshakes, DeviceOK(dev, n), NEW new,
           DOMAIN new = Sids, new = [sid \in Sids |-> new[sid]],
           \A sid \in Sids : new[sid] = dev[sid] \/ new[sid] = Vacant
    PROVE  /\ DeviceOK(new, n)
           /\ \A s, pc : SessionFits(s, dev, n, pc) => SessionFits(s, new, n, pc)
  <1>1. Vacant \in [nonce : Nonces \cup {Free, Other}, received : Nat] /\ Vacant.nonce = Free
    BY DEF Vacant
  <1>2. DeviceOK(new, n)
    BY <1>1 DEF DeviceOK
  <1>3. ASSUME NEW s, NEW pc, SessionFits(s, dev, n, pc)
        PROVE  SessionFits(s, new, n, pc)
    BY <1>1, <1>3, HsmAssumption DEF SessionFits
  <1> QED BY <1>2, <1>3

\* close_active_session ends at most one session of the device.
LEMMA ClosedLemma ==
    ASSUME HsmInv
    PROVE  /\ DeviceOK(Closed, nonce)
           /\ \A s, pc : SessionFits(s, device, nonce, pc) => SessionFits(s, Closed, nonce, pc)
  <1>1. DeviceOK(device, nonce) /\ nonce \in 0..MaxHandshakes
    BY DEF HsmInv, HsmTypeOK
  <1>2. device \in [Sids -> [nonce : Nonces \cup {Free, Other}, received : Nat]]
    BY <1>1 DEF DeviceOK
  <1>3. /\ DOMAIN Closed = Sids /\ Closed = [sid \in Sids |-> Closed[sid]]
        /\ \A sid \in Sids : Closed[sid] = device[sid] \/ Closed[sid] = Vacant
    BY <1>2 DEF Closed
  <1> QED BY <1>1, <1>3, EndedLemma

\* A new session has a nonce of its own, and the device starts its chain.
LEMMA OpenLemma ==
    ASSUME nonce \in 0..MaxHandshakes, NEW dev, DeviceOK(dev, nonce),
           NEW sid \in Sids, Open(dev, sid)
    PROVE  /\ nonce' = nonce + 1 /\ nonce' \in 0..MaxHandshakes /\ connected
           /\ DeviceOK(device', nonce')
           /\ \A s, pc : SessionFits(s, dev, nonce, pc) => SessionFits(s, device', nonce', pc)
           /\ device'[sid].nonce = nonce + 1 /\ device'[sid].received = 0
  <1> DEFINE m == [nonce |-> nonce + 1, received |-> 0]
  <1>1. nonce' = nonce + 1 /\ nonce < MaxHandshakes /\ connected /\ dev[sid].nonce = Free
    BY DEF Open
  <1>2. nonce' \in 0..MaxHandshakes /\ nonce + 1 \in Nonces /\ nonce \in Nat
    BY <1>1, HsmAssumption DEF Nonces
  <1>3. m \in [nonce : Nonces \cup {Free, Other}, received : Nat] /\ m.nonce = nonce + 1
        /\ m.received = 0
    BY <1>2
  <1>4. device' = [dev EXCEPT ![sid] = m]
    BY DEF Open
  <1> HIDE DEF m
  <1>5. \A x \in Sids : device'[x] = IF x = sid THEN m ELSE dev[x]
    BY <1>4 DEF DeviceOK
  <1>6. device' \in [Sids -> [nonce : Nonces \cup {Free, Other}, received : Nat]]
    BY <1>3, <1>4 DEF DeviceOK
  <1>7. DeviceOK(device', nonce')
    <2>1. \A x \in Sids : dev[x].nonce \in (1..nonce) \cup {Free, Other}
      BY DEF DeviceOK
    <2>2. \A x \in Sids : device'[x].nonce \in (1..nonce') \cup {Free, Other}
      BY <1>1, <1>2, <1>3, <1>5, <2>1
    <2> QED BY <1>6, <2>2 DEF DeviceOK
  <1>8. ASSUME NEW s, NEW pc, SessionFits(s, dev, nonce, pc), s.state = "Active"
        PROVE  SessionFits(s, device', nonce', pc)
    <2>1. s.sid \in Sids /\ s.nonce \in 1..nonce /\ s.nonce \in 1..nonce' /\ s.nonce # nonce + 1
      BY <1>1, <1>2, <1>8 DEF SessionFits
    <2>2. CASE s.sid = sid
      BY <1>3, <1>5, <2>1, <2>2 DEF SessionFits
    <2>3. CASE s.sid # sid
      BY <1>5, <1>8, <2>1, <2>3 DEF SessionFits
    <2> QED BY <2>2, <2>3
  <1>9. \A s, pc : SessionFits(s, dev, nonce, pc) => SessionFits(s, device', nonce', pc)
    BY <1>8 DEF SessionFits
  <1> QED BY <1>1, <1>2, <1>3, <1>5, <1>7, <1>9

\* A session that this slot has just opened fits the device, with its first
\* message on its way or not.
LEMMA NewSessionLemma ==
    ASSUME nonce \in 0..MaxHandshakes, NEW dev, DeviceOK(dev, nonce),
           NEW sid \in Sids, Open(dev, sid), NEW r \in Roles
    PROVE  LET s == NewSession(r, sid)
           IN  /\ s \in SessionSet /\ s.state = "Active" /\ s.role = r
               /\ \A pc : pc \notin {"sent", "reauth"} => SessionFits(s, device', nonce', pc)
               /\ Transmitted(s) \in SessionSet /\ Transmitted(s).state = "Active"
               /\ Transmitted(s).role = r
               /\ SessionFits(Transmitted(s), device', nonce', "sent")
  <1> DEFINE s == NewSession(r, sid)
  <1>1. /\ nonce' = nonce + 1 /\ nonce' \in 0..MaxHandshakes /\ nonce' \in 1..nonce'
        /\ device'[sid].nonce = nonce + 1 /\ device'[sid].received = 0
    BY OpenLemma, HsmAssumption
  <1>2. /\ s \in SessionSet /\ s.state = "Active" /\ s.role = r
        /\ s.sid = sid /\ s.nonce = nonce' /\ s.sent = 0
    BY <1>1 DEF NewSession, SessionSet
  <1> HIDE DEF s
  <1> DEFINE u == Transmitted(s)
  <1>3. /\ u \in SessionSet /\ u.state = "Active" /\ u.role = r
        /\ u.sid = sid /\ u.nonce = nonce' /\ u.sent = 1
    BY <1>2 DEF Transmitted, SessionSet
  <1> HIDE DEF u
  <1>4. \A pc : pc \notin {"sent", "reauth"} => SessionFits(s, device', nonce', pc)
    BY <1>1, <1>2 DEF SessionFits
  <1>5. SessionFits(u, device', nonce', "sent")
    BY <1>1, <1>3 DEF SessionFits
  <1> QED BY <1>2, <1>3, <1>4, <1>5 DEF s, u

\* A transport failure.
LEMMA MarkLemma ==
    ASSUME hsmFaults \in 0..MaxHsmFaults, mark_disconnected
    PROVE  connected' \in BOOLEAN /\ stale' \in BOOLEAN /\ hsmFaults' \in 0..MaxHsmFaults
  <1>1. MaxHsmFaults \in Nat
    BY HsmAssumption
  <1>2. hsmFaults < MaxHsmFaults /\ hsmFaults' = hsmFaults + 1
    BY DEF mark_disconnected
  <1>3. hsmFaults' \in 0..MaxHsmFaults
    BY <1>1, <1>2
  <1>4. connected' = FALSE /\ stale' = TRUE
    BY DEF mark_disconnected
  <1> QED BY <1>3, <1>4

\* A handshake that fails leaves the device and the slot's session fitting.
LEMMA HandshakeLemma ==
    ASSUME HsmInv, NEW dev, DeviceOK(dev, nonce), NEW epoch \in BOOLEAN,
           HandshakeFails(dev, epoch)
    PROVE  /\ nonce' \in 0..MaxHandshakes /\ DeviceOK(device', nonce')
           /\ connected' \in BOOLEAN /\ stale' \in BOOLEAN /\ hsmFaults' \in 0..MaxHsmFaults
           /\ \A s, pc : SessionFits(s, dev, nonce, pc) => SessionFits(s, device', nonce', pc)
  <1>1. nonce \in 0..MaxHandshakes /\ connected \in BOOLEAN /\ hsmFaults \in 0..MaxHsmFaults
    BY DEF HsmInv, HsmTypeOK
  <1>2. CASE /\ device' = dev /\ stale' = epoch
             /\ UNCHANGED <<connected, nonce, hsmFaults>>
    BY <1>1, <1>2
  <1>3. CASE mark_disconnected /\ \E sid \in Sids : Open(dev, sid)
    <2>1. PICK sid \in Sids : Open(dev, sid)
      BY <1>3
    <2>2. /\ nonce' \in 0..MaxHandshakes /\ DeviceOK(device', nonce')
          /\ \A s, pc : SessionFits(s, dev, nonce, pc) => SessionFits(s, device', nonce', pc)
      BY <1>1, <2>1, OpenLemma
    <2>3. connected' \in BOOLEAN /\ stale' \in BOOLEAN /\ hsmFaults' \in 0..MaxHsmFaults
      BY <1>1, <1>3, MarkLemma
    <2> QED BY <2>2, <2>3
  <1> QED BY <1>2, <1>3 DEF HandshakeFails

\* A lost session is no session.
LEMMA LostLemma ==
    ASSUME NEW s
    PROVE  /\ Lost(s) \in SessionSet
           /\ Lost(s).state # "Active"
           /\ s.state = "Active" /\ s.role = "User" => Lost(s).state = "InvalidatedUser"
           /\ NoSession("LoggedOut") \in SessionSet
           /\ NoSession("LoggedOut").state = "LoggedOut"
  BY HsmAssumption DEF Lost, NoSession, SessionSet, Roles

-----------------------------------------------------------------------------
(* Every step preserves the invariant. *)

\* The types, when a step leaves them alone.
LEMMA HsmFacts ==
    ASSUME HsmInv
    PROVE  /\ session \in SessionSet /\ call \in CallSet
           /\ DeviceOK(device, nonce) /\ SessionFits(session, device, nonce, call.pc)
           /\ nonce \in 0..MaxHandshakes /\ connected \in BOOLEAN /\ stale \in BOOLEAN
           /\ discovery \in {"Unattempted", "Failed", "Available"}
           /\ executed \in Nat /\ discoveryRan \in BOOLEAN
           /\ commands \in 0..MaxCommands /\ hsmFaults \in 0..MaxHsmFaults
  BY DEF HsmInv, HsmTypeOK, SessionSet, CallSet

\* What a step of the slot has to show.
LEMMA SlotStep ==
    ASSUME session' \in SessionSet, call' \in CallSet,
           nonce' \in 0..MaxHandshakes, connected' \in BOOLEAN, stale' \in BOOLEAN,
           discovery' \in {"Unattempted", "Failed", "Available"},
           executed' \in Nat, discoveryRan' \in BOOLEAN,
           commands' \in 0..MaxCommands, hsmFaults' \in 0..MaxHsmFaults,
           DeviceOK(device', nonce'), SessionFits(session', device', nonce', call'.pc),
           RunsOK', UserOK'
    PROVE  HsmInv'
  <1>1. HsmTypeOK'
    BY DEF HsmTypeOK, SessionSet, CallSet, DeviceOK
  <1>2. (DeviceOK(device, nonce))' /\ (SessionFits(session, device, nonce, call.pc))'
    BY DEF DeviceOK, SessionFits
  <1> QED BY <1>1, <1>2 DEF HsmInv

\* Without a call, only the session and the connection change.
LEMMA IdleStep ==
    ASSUME HsmInv, login \/ logout \/ clear_session \/ init_slot
    PROVE  HsmInv'
  <1>1. call.pc = "none" /\ UNCHANGED <<call, executed, discoveryRan, commands>>
    BY DEF login, logout, clear_session, init_slot, Idle
  <1>2. RunsOK' /\ UserOK'
    BY <1>1 DEF HsmInv, RunsOK, UserOK
  <1>3. NoSession("LoggedOut") \in SessionSet
        /\ \A dev, n, pc : SessionFits(NoSession("LoggedOut"), dev, n, pc)
    BY LostLemma DEF SessionFits
  <1>4. ASSUME login PROVE HsmInv'
    <2>1. discovery' \in {"Unattempted", "Failed", "Available"}
      BY <1>4, HsmFacts DEF login, SynchronizedDiscovery
    <2>2. ASSUME NEW sid \in Sids, Open(Closed, sid), session' = NewSession("User", sid),
                 stale' \in BOOLEAN, UNCHANGED <<connected, hsmFaults>>
          PROVE  HsmInv'
      <3>1. nonce' \in 0..MaxHandshakes /\ DeviceOK(device', nonce')
        BY <2>2, HsmFacts, ClosedLemma, OpenLemma
      <3>2. session' \in SessionSet /\ SessionFits(session', device', nonce', call'.pc)
        BY <1>1, <2>2, HsmFacts, ClosedLemma, NewSessionLemma DEF Roles
      <3> QED BY <1>1, <1>2, <2>1, <2>2, <3>1, <3>2, HsmFacts, SlotStep
    <2>3. ASSUME NEW epoch \in BOOLEAN, HandshakeFails(Closed, epoch),
                 session' = NoSession("LoggedOut")
          PROVE  HsmInv'
      <3>1. /\ nonce' \in 0..MaxHandshakes /\ DeviceOK(device', nonce')
            /\ connected' \in BOOLEAN /\ stale' \in BOOLEAN /\ hsmFaults' \in 0..MaxHsmFaults
        BY <2>3, HsmFacts, ClosedLemma, HandshakeLemma
      <3> QED BY <1>1, <1>2, <1>3, <2>1, <2>3, <3>1, HsmFacts, SlotStep
    <2>4. PICK direct \in BOOLEAN :
             \/ \E sid \in Sids :
                   /\ Open(Closed, sid)
                   /\ session' = NewSession("User", sid)
                   /\ stale' = (stale /\ ~direct)
                   /\ UNCHANGED <<connected, hsmFaults>>
             \/ HandshakeFails(Closed, stale /\ ~direct) /\ session' = NoSession("LoggedOut")
      BY <1>4, Zenon DEF login
    <2>5. (stale /\ ~direct) \in BOOLEAN
      OBVIOUS
    <2> QED BY <2>2, <2>3, <2>4, <2>5, Zenon
  <1>5. ASSUME CloseActive, discovery' = discovery PROVE HsmInv'
    <2>1. session' = NoSession("LoggedOut") /\ nonce' = nonce
      BY <1>5 DEF CloseActive
    <2>2. DeviceOK(device', nonce')
      BY <1>5, <2>1, HsmFacts, ClosedLemma DEF CloseActive
    <2>3. connected' \in BOOLEAN /\ stale' \in BOOLEAN /\ hsmFaults' \in 0..MaxHsmFaults
      BY <1>5, HsmFacts, MarkLemma DEF CloseActive
    <2> QED BY <1>1, <1>2, <1>3, <1>5, <2>1, <2>2, <2>3, HsmFacts, SlotStep
  <1>6. ASSUME init_slot PROVE HsmInv'
    <2>1. /\ session' = NoSession("LoggedOut") /\ device' = Closed
          /\ discovery' = "Unattempted" /\ stale' = FALSE
          /\ UNCHANGED <<connected, nonce, hsmFaults>>
      BY <1>6 DEF init_slot
    <2>2. DeviceOK(device', nonce')
      BY <2>1, ClosedLemma
    <2> QED BY <1>1, <1>2, <1>3, <2>1, <2>2, HsmFacts, SlotStep
  <1> QED BY <1>4, <1>5, <1>6 DEF logout, clear_session

\* A call that is told goes on, if it does, from there.
LEMMA ToldLemma ==
    ASSUME call \in CallSet
    PROVE  Told \in CallSet /\ Told.pc = "ready" /\ Told.told
  BY DEF Told, CallSet

\* A step that fails takes the session with it and tells the call; a user's
\* call that was not told before does not retry.
LEMMA LoseLemma ==
    ASSUME HsmInv, call.pc \in {"sent", "reauth"}, Lose
    PROVE  /\ session' \in SessionSet /\ call' \in CallSet
           /\ session'.state # "Active"
           /\ call'.pc \in {"retry", "ready"}
           /\ ~(call'.user /\ ~call'.told)
           /\ \A dev, n : SessionFits(session', dev, n, call'.pc)
  <1>1. session' = Lost(session)
    BY DEF Lose
  <1>2. session' \in SessionSet /\ session'.state # "Active"
    BY <1>1, LostLemma
  <1>3. CASE call' = Told
    BY <1>2, <1>3, HsmFacts, ToldLemma DEF SessionFits
  <1>4. CASE Lost(session).state = "LoggedOut" /\ call' = [call EXCEPT !.pc = "retry"]
    <2>1. /\ call' \in CallSet /\ call'.pc = "retry"
          /\ call'.user = call.user /\ call'.told = call.told
      BY <1>4, HsmFacts DEF CallSet
    <2>2. ~(call.user /\ ~call.told)
      BY <1>4, LostLemma DEF HsmInv, UserOK, LoggedIn, Active
    <2> QED BY <1>2, <2>1, <2>2 DEF SessionFits
  <1> QED BY <1>3, <1>4 DEF Lose

\* The next command of a call, or its end.
LEMMA CallStep ==
    ASSUME HsmInv, BeginCall \/ EndCall \/ send_secure_command \/ resend
    PROVE  HsmInv'
  <1>1. UNCHANGED <<device, connected, stale, discovery, nonce, hsmFaults>>
    BY DEF BeginCall, EndCall, send_secure_command, resend
  <1>2. NoCall \in CallSet /\ NoCall.pc = "none" /\ NoCall.user = FALSE
    BY DEF NoCall, CallSet
  <1>3. ASSUME BeginCall PROVE HsmInv'
    <2>1. /\ call' = [NoCall EXCEPT !.pc = "ready", !.user = LoggedIn]
          /\ executed' = 0 /\ discoveryRan' = FALSE /\ UNCHANGED <<session, commands>>
          /\ call.pc = "none"
      BY <1>3 DEF BeginCall
    <2>2. LoggedIn \in BOOLEAN
      BY DEF LoggedIn, Active
    <2>3. call' \in CallSet /\ call'.pc = "ready" /\ call'.user = LoggedIn
      BY <1>2, <2>1, <2>2 DEF CallSet
    <2>4. SessionFits(session', device', nonce', call'.pc)
      BY <1>1, <2>1, <2>3, HsmFacts DEF SessionFits
    <2>5. call'.user => LoggedIn
      BY <2>3, Zenon
    <2>6. RunsOK' /\ UserOK'
      BY <2>1, <2>3, <2>5 DEF RunsOK, UserOK, LoggedIn, Active
    <2> QED BY <1>1, <2>1, <2>3, <2>4, <2>6, HsmFacts, SlotStep
  <1>4. ASSUME EndCall PROVE HsmInv'
    <2>1. /\ call' = NoCall /\ executed' = 0 /\ discoveryRan' = FALSE
          /\ UNCHANGED <<session, commands>> /\ call.pc = "ready"
      BY <1>4 DEF EndCall
    <2>2. SessionFits(session', device', nonce', call'.pc)
      BY <1>1, <1>2, <2>1, HsmFacts DEF SessionFits
    <2>3. RunsOK' /\ UserOK'
      BY <1>2, <2>1 DEF RunsOK, UserOK
    <2> QED BY <1>1, <1>2, <2>1, <2>2, <2>3, HsmFacts, SlotStep
  <1>5. /\ Transmitted(session) \in SessionSet
        /\ Transmitted(session).state = session.state /\ Transmitted(session).role = session.role
        /\ Transmitted(session).sid = session.sid /\ Transmitted(session).nonce = session.nonce
        /\ Transmitted(session).sent = session.sent + 1 /\ session.sent \in Nat
    BY HsmFacts DEF Transmitted, SessionSet
  <1>6. ASSUME Active, call.pc \in {"ready", "resend"}
        PROVE  SessionFits(Transmitted(session), device, nonce, "sent")
    <2>1. session.state = "Active" /\ SessionFits(session, device, nonce, call.pc)
      BY <1>6, HsmFacts DEF Active
    <2>2. session.sid \in Sids /\ device[session.sid].received \in Nat
      BY <2>1, HsmFacts DEF SessionFits, DeviceOK
    <2> QED BY <1>5, <1>6, <2>1, <2>2 DEF SessionFits
  <1>7. ASSUME send_secure_command PROVE HsmInv'
    <2>1. /\ call.pc = "ready" /\ commands' = commands + 1 /\ commands < MaxCommands
          /\ executed' = 0 /\ discoveryRan' = discoveryRan
      BY <1>7 DEF send_secure_command
    <2>2. commands' \in 0..MaxCommands
      <3>1. MaxCommands \in Nat
        BY HsmAssumption
      <3> QED BY <2>1, <3>1, HsmFacts
    <2>3. CASE Active
      <3>1. /\ session' = Transmitted(session)
            /\ call' = [call EXCEPT !.pc = "sent", !.kind = "command", !.attempt = 0,
                                    !.again = FALSE]
        BY <1>7, <2>3 DEF send_secure_command
      <3>2. /\ call' \in CallSet /\ call'.pc = "sent"
            /\ call'.user = call.user /\ call'.told = call.told
        <4>1. 0 \in 0..1
          OBVIOUS
        <4>2. call'.pc = "sent" /\ call'.user = call.user /\ call'.told = call.told
          BY <3>1, HsmFacts DEF CallSet
        <4> QED BY <1>7, <3>1, <4>1, <4>2, HsmFacts DEF CallSet
      <3>3. RunsOK' /\ UserOK'
        BY <1>5, <2>1, <2>3, <3>1, <3>2 DEF HsmInv, RunsOK, UserOK, LoggedIn, Active
      <3> QED BY <1>1, <1>5, <1>6, <2>1, <2>2, <2>3, <3>1, <3>2, <3>3, HsmFacts, SlotStep
    <2>4. CASE ~Active
      <3>1. session' = session /\ call' = Told
        BY <1>7, <2>4 DEF send_secure_command
      <3>2. call' \in CallSet /\ call'.pc = "ready" /\ call'.told
        BY <3>1, HsmFacts, ToldLemma
      <3>3. RunsOK' /\ UserOK'
        BY <2>1, <3>2 DEF RunsOK, UserOK
      <3>4. SessionFits(session', device', nonce', call'.pc)
        BY <2>4, <3>1 DEF SessionFits, Active
      <3> QED BY <1>1, <2>1, <2>2, <3>1, <3>2, <3>3, <3>4, HsmFacts, SlotStep
    <2> QED BY <2>3, <2>4
  <1>8. ASSUME resend PROVE HsmInv'
    <2>1. /\ call.pc = "resend" /\ session' = Transmitted(session)
          /\ call' = [call EXCEPT !.pc = "sent"]
          /\ UNCHANGED <<executed, discoveryRan, commands>>
      BY <1>8 DEF resend
    <2>2. /\ call' \in CallSet /\ call'.pc = "sent"
          /\ call'.user = call.user /\ call'.told = call.told
      BY <2>1, HsmFacts DEF CallSet
    <2>3. Active
      BY <2>1 DEF HsmInv, RunsOK
    <2>4. RunsOK' /\ UserOK'
      BY <1>1, <1>5, <2>1, <2>2, <2>3 DEF HsmInv, RunsOK, UserOK, LoggedIn, Active
    <2> QED BY <1>1, <1>5, <1>6, <2>1, <2>2, <2>3, <2>4, HsmFacts, SlotStep
  <1> QED BY <1>3, <1>4, <1>7, <1>8

\* The device, and the connection to it, between the steps of a call.
LEMMA DeviceStep ==
    ASSUME HsmInv,
           apply_discovered \/ \E sid \in Sids : SessionExpires(sid) \/ OtherClientOpens(sid)
    PROVE  HsmInv'
  <1>1. UNCHANGED <<session, discovery, call, executed, discoveryRan, nonce, commands, hsmFaults>>
    BY DEF apply_discovered, SessionExpires, OtherClientOpens
  <1>2. RunsOK' /\ UserOK'
    BY <1>1 DEF HsmInv, RunsOK, UserOK, LoggedIn, Active
  <1>3. connected' \in BOOLEAN /\ stale' \in BOOLEAN
    BY HsmFacts DEF apply_discovered, SessionExpires, OtherClientOpens
  <1>4. device \in [Sids -> [nonce : Nonces \cup {Free, Other}, received : Nat]]
    BY HsmFacts DEF DeviceOK
  <1>5. ASSUME DeviceOK(device', nonce), SessionFits(session, device', nonce, call.pc)
        PROVE  HsmInv'
    BY <1>1, <1>2, <1>3, <1>5, HsmFacts, SlotStep
  <1>6. ASSUME DOMAIN device' = Sids, device' = [sid \in Sids |-> device'[sid]],
               \A sid \in Sids : device'[sid] = device[sid] \/ device'[sid] = Vacant
        PROVE  HsmInv'
    BY <1>5, <1>6, HsmFacts, EndedLemma
  <1>7. ASSUME apply_discovered PROVE HsmInv'
    BY <1>4, <1>6, <1>7 DEF apply_discovered
  <1>8. ASSUME NEW sid \in Sids, SessionExpires(sid) PROVE HsmInv'
    BY <1>4, <1>6, <1>8 DEF SessionExpires
  <1>9. ASSUME NEW sid \in Sids, OtherClientOpens(sid) PROVE HsmInv'
    <2>1. /\ device' \in [Sids -> [nonce : Nonces \cup {Free, Other}, received : Nat]]
          /\ device'[sid].nonce = Other
          /\ \A x \in Sids : x # sid => device'[x] = device[x]
      BY <1>4, <1>9 DEF OtherClientOpens
    <2>2. DeviceOK(device', nonce)
      BY <2>1, HsmFacts DEF DeviceOK
    <2>3. Other \notin Nat
      BY HsmAssumption
    <2>4. SessionFits(session, device', nonce, call.pc)
      BY <2>1, <2>3, HsmFacts DEF SessionFits
    <2> QED BY <1>5, <2>2, <2>4
  <1> QED BY <1>7, <1>8, <1>9

\* The types of the connection after a step.
ConnectionOK ==
    /\ nonce' \in 0..MaxHandshakes /\ DeviceOK(device', nonce')
    /\ connected' \in BOOLEAN /\ stale' \in BOOLEAN /\ hsmFaults' \in 0..MaxHsmFaults

\* A call of the user that has not been told of a lost session.
UntoldUser == call.user /\ ~call.told

\* One more message in the session.
LEMMA TransmitLemma ==
    ASSUME NEW s \in SessionSet, NEW dev, NEW n, NEW pc, pc \notin {"sent", "reauth"},
           DeviceOK(dev, n), SessionFits(s, dev, n, pc), s.state = "Active"
    PROVE  /\ Transmitted(s) \in SessionSet
           /\ Transmitted(s).state = "Active" /\ Transmitted(s).role = s.role
           /\ SessionFits(Transmitted(s), dev, n, "sent")
  <1>1. /\ Transmitted(s) \in SessionSet
        /\ Transmitted(s).state = s.state /\ Transmitted(s).role = s.role
        /\ Transmitted(s).sid = s.sid /\ Transmitted(s).nonce = s.nonce
        /\ Transmitted(s).sent = s.sent + 1 /\ s.sent \in Nat
    BY DEF Transmitted, SessionSet
  <1>2. s.sid \in Sids /\ dev[s.sid].received \in Nat
    BY DEF SessionFits, DeviceOK
  <1> QED BY <1>1, <1>2 DEF SessionFits

\* ensure_read_session: the call goes on in a session that fits, its own if it
\* is a call of the user that was not told, or it is told.
LEMMA ReadLemma ==
    ASSUME HsmInv, call.pc \in {"ready", "retry"},
           NEW transmits \in BOOLEAN, NEW next \in CallSet,
           next.user = call.user, next.told = call.told,
           next.pc = IF transmits THEN "sent" ELSE "ready",
           EnsureReadSession(transmits, next)
    PROVE  /\ ConnectionOK
           /\ discovery' \in {"Unattempted", "Failed", "Available"}
           /\ session' \in SessionSet /\ call' \in CallSet
           /\ discoveryRan' \in BOOLEAN
           /\ SessionFits(session', device', nonce', call'.pc)
           /\ \/ call'.pc = "ready" /\ call'.told
              \/ /\ call' = next /\ session'.state = "Active"
                 /\ UntoldUser => session'.role = "User" /\ discoveryRan' = discoveryRan
  <1> DEFINE s == Synchronized
             Use(active) == IF transmits THEN Transmitted(active) ELSE active
  <1>1. discovery' \in {"Unattempted", "Failed", "Available"}
    BY HsmFacts DEF EnsureReadSession, SynchronizedDiscovery
  <1>2. Told \in CallSet /\ Told.pc = "ready" /\ Told.told
    BY HsmFacts, ToldLemma
  <1>3. s = session \/ s = Lost(session)
    BY DEF Synchronized
  <1>4. s.state = "Active" => s = session
    BY <1>3, LostLemma
  <1>5. UntoldUser => session.state = "Active" /\ session.role = "User"
    BY DEF HsmInv, UserOK, UntoldUser, LoggedIn, Active
  <1>6. UntoldUser => s.state # "LoggedOut"
    BY <1>3, <1>5, LostLemma
  <1>7. NoSession("LoggedOut") \in SessionSet
        /\ \A dev, n, pc : SessionFits(NoSession("LoggedOut"), dev, n, pc)
    BY LostLemma DEF SessionFits
  <1>8. CASE /\ s.state = "Active" /\ session' = Use(s) /\ call' = next /\ stale' = FALSE
             /\ UNCHANGED <<device, connected, discoveryRan, nonce, hsmFaults>>
    <2>1. session.state = "Active" /\ session' = Use(session)
      BY <1>4, <1>8
    <2>2. ConnectionOK
      BY <1>8, HsmFacts DEF ConnectionOK
    <2>3. CASE transmits
      <3>1. session' = Transmitted(session) /\ call'.pc = "sent" /\ call' \in CallSet
        BY <1>8, <2>1, <2>3
      <3>2. /\ session' \in SessionSet /\ session'.state = "Active"
            /\ session'.role = session.role
            /\ SessionFits(session', device, nonce, "sent")
        BY <2>1, <3>1, HsmFacts, TransmitLemma
      <3> QED BY <1>1, <1>5, <1>8, <2>2, <3>1, <3>2, HsmFacts
    <2>4. CASE ~transmits
      <3>1. session' = session /\ call'.pc = "ready" /\ call' \in CallSet
        BY <1>8, <2>1, <2>4
      <3>2. SessionFits(session, device, nonce, "ready")
        BY HsmFacts DEF SessionFits
      <3> QED BY <1>1, <1>5, <1>8, <2>1, <2>2, <3>1, <3>2, HsmFacts
    <2> QED BY <2>3, <2>4
  <1>9. CASE /\ s.state = "InvalidatedUser" /\ session' = NoSession("LoggedOut")
             /\ call' = Told /\ stale' = FALSE
             /\ UNCHANGED <<device, connected, discoveryRan, nonce, hsmFaults>>
    <2>1. ConnectionOK
      BY <1>9, HsmFacts DEF ConnectionOK
    <2> QED BY <1>1, <1>2, <1>7, <1>9, <2>1, HsmFacts
  <1>10. CASE /\ s.state = "LoggedOut"
              /\ \E sid \in Sids :
                    /\ Open(device, sid)
                    /\ session' = Use(NewSession("PublicDiscovery", sid))
              /\ discoveryRan' = TRUE
              /\ call' = next /\ stale' = FALSE
              /\ UNCHANGED <<connected, hsmFaults>>
    <2>1. PICK sid \in Sids : /\ Open(device, sid)
                              /\ session' = Use(NewSession("PublicDiscovery", sid))
      BY <1>10
    <2>2. ConnectionOK
      BY <1>10, <2>1, HsmFacts, OpenLemma DEF ConnectionOK
    <2>3. "PublicDiscovery" \in Roles
      BY DEF Roles
    <2>4. /\ session' \in SessionSet /\ session'.state = "Active"
          /\ SessionFits(session', device', nonce', next.pc)
      <3>1. CASE transmits
        BY <2>1, <2>3, <3>1, HsmFacts, NewSessionLemma
      <3>2. CASE ~transmits
        BY <2>1, <2>3, <3>2, HsmFacts, NewSessionLemma
      <3> QED BY <3>1, <3>2
    <2> QED BY <1>1, <1>6, <1>10, <2>2, <2>4, HsmFacts
  <1>11. CASE /\ s.state = "LoggedOut" /\ HandshakeFails(device, FALSE)
              /\ discoveryRan' \in {discoveryRan, TRUE}
              /\ session' = NoSession("LoggedOut") /\ call' = Told
    <2>1. ConnectionOK
      BY <1>11, HsmFacts, HandshakeLemma DEF ConnectionOK
    <2> QED BY <1>1, <1>2, <1>7, <1>11, <2>1, HsmFacts
  <1> QED BY <1>8, <1>9, <1>10, <1>11 DEF EnsureReadSession

\* Reads.
LEMMA ReadStep ==
    ASSUME HsmInv, read_object \/ ensure_backend_read_session
    PROVE  HsmInv'
  <1>1. ASSUME read_object PROVE HsmInv'
    <2> DEFINE n == IF call.pc = "retry" THEN 1 ELSE 0
               next == [call EXCEPT !.pc = "sent", !.kind = "read", !.again = FALSE,
                                    !.attempt = n]
    <2>1. /\ call.pc \in {"ready", "retry"} /\ commands < MaxCommands
          /\ commands' = commands + 1 /\ executed' = 0
          /\ EnsureReadSession(TRUE, next)
      BY <1>1 DEF read_object
    <2>2. n \in 0..1
      OBVIOUS
    <2> HIDE DEF n
    <2>3. /\ next \in CallSet /\ next.pc = "sent"
          /\ next.user = call.user /\ next.told = call.told
      <3>1. next.pc = "sent" /\ next.user = call.user /\ next.told = call.told
        BY HsmFacts DEF CallSet
      <3> QED BY <2>2, <3>1, HsmFacts DEF CallSet
    <2> HIDE DEF next
    <2>4. /\ ConnectionOK
          /\ discovery' \in {"Unattempted", "Failed", "Available"}
          /\ session' \in SessionSet /\ call' \in CallSet
          /\ discoveryRan' \in BOOLEAN
          /\ SessionFits(session', device', nonce', call'.pc)
          /\ \/ call'.pc = "ready" /\ call'.told
             \/ /\ call' = next /\ session'.state = "Active"
                /\ UntoldUser => session'.role = "User" /\ discoveryRan' = discoveryRan
      BY <2>1, <2>3, ReadLemma
    <2>5. commands' \in 0..MaxCommands
      <3>1. MaxCommands \in Nat
        BY HsmAssumption
      <3> QED BY <2>1, <3>1, HsmFacts
    <2>6. RunsOK' /\ UserOK'
      BY <2>1, <2>3, <2>4 DEF HsmInv, RunsOK, UserOK, UntoldUser, LoggedIn, Active
    <2> QED BY <2>1, <2>4, <2>5, <2>6, HsmFacts, SlotStep DEF ConnectionOK
  <1>2. ASSUME ensure_backend_read_session PROVE HsmInv'
    <2>1. /\ call.pc = "ready" /\ UNCHANGED <<executed, commands>>
          /\ EnsureReadSession(FALSE, call)
      BY <1>2 DEF ensure_backend_read_session
    <2>2. /\ ConnectionOK
          /\ discovery' \in {"Unattempted", "Failed", "Available"}
          /\ session' \in SessionSet /\ call' \in CallSet
          /\ discoveryRan' \in BOOLEAN
          /\ SessionFits(session', device', nonce', call'.pc)
          /\ \/ call'.pc = "ready" /\ call'.told
             \/ /\ call' = call /\ session'.state = "Active"
                /\ UntoldUser => session'.role = "User" /\ discoveryRan' = discoveryRan
      BY <2>1, HsmFacts, ReadLemma
    <2>3. RunsOK' /\ UserOK'
      BY <2>1, <2>2 DEF HsmInv, RunsOK, UserOK, UntoldUser, LoggedIn, Active
    <2> QED BY <2>1, <2>2, <2>3, HsmFacts, SlotStep DEF ConnectionOK
  <1> QED BY <1>1, <1>2

\* A lookup may find the session lost, and tells the call.
LEMMA LookupStep ==
    ASSUME HsmInv, backend_token_object
    PROVE  HsmInv'
  <1>1. /\ call.pc = "ready" /\ stale' = FALSE /\ session' = Synchronized /\ call' = Told
        /\ UNCHANGED <<device, connected, executed, discoveryRan, nonce, commands, hsmFaults>>
    BY DEF backend_token_object
  <1>2. discovery' \in {"Unattempted", "Failed", "Available"}
    BY HsmFacts DEF backend_token_object, SynchronizedDiscovery
  <1>3. call' \in CallSet /\ call'.pc = "ready" /\ call'.told
    BY <1>1, HsmFacts, ToldLemma
  <1>4. session' \in SessionSet /\ SessionFits(session', device', nonce', call'.pc)
    BY <1>1, <1>3, HsmFacts, LostLemma DEF Synchronized, SessionFits
  <1>5. RunsOK' /\ UserOK'
    BY <1>1, <1>3 DEF HsmInv, RunsOK, UserOK
  <1> QED BY <1>1, <1>2, <1>3, <1>4, <1>5, HsmFacts, SlotStep

\* Listing objects may open the discovery session, never in a call of the user
\* that was not told.
LEMMA DiscoveryStep ==
    ASSUME HsmInv, public_discovery_available
    PROVE  HsmInv'
  <1>1. /\ call.pc = "ready" /\ ~LoggedIn /\ discoveryRan' \in BOOLEAN
        /\ UNCHANGED <<call, executed, commands>>
    BY HsmFacts DEF public_discovery_available
  <1>2. RunsOK' /\ UserOK'
    BY <1>1 DEF HsmInv, RunsOK, UserOK
  <1>3. discovery' \in {"Unattempted", "Failed", "Available"}
    BY HsmFacts DEF public_discovery_available, SynchronizedDiscovery
  <1>4. Synchronized \in SessionSet /\ SessionFits(Synchronized, device, nonce, call.pc)
    BY HsmFacts, LostLemma DEF Synchronized, SessionFits
  <1>5. ASSUME NEW sid \in Sids, Open(device, sid),
               session' = NewSession("PublicDiscovery", sid), stale' = FALSE,
               UNCHANGED <<connected, hsmFaults>>
        PROVE  HsmInv'
    <2>1. nonce' \in 0..MaxHandshakes /\ DeviceOK(device', nonce')
      BY <1>5, HsmFacts, OpenLemma
    <2>2. session' \in SessionSet /\ SessionFits(session', device', nonce', call.pc)
      BY <1>1, <1>5, HsmFacts, NewSessionLemma DEF Roles
    <2> QED BY <1>1, <1>2, <1>3, <1>5, <2>1, <2>2, HsmFacts, SlotStep
  <1>6. ASSUME HandshakeFails(device, FALSE), session' = Synchronized
        PROVE  HsmInv'
    <2>1. /\ nonce' \in 0..MaxHandshakes /\ DeviceOK(device', nonce')
          /\ connected' \in BOOLEAN /\ stale' \in BOOLEAN /\ hsmFaults' \in 0..MaxHsmFaults
          /\ SessionFits(session', device', nonce', call.pc)
      BY <1>4, <1>6, HsmFacts, HandshakeLemma
    <2> QED BY <1>1, <1>2, <1>3, <1>4, <1>6, <2>1, HsmFacts, SlotStep
  <1>7. ASSUME session' = Synchronized, stale' = FALSE,
               UNCHANGED <<device, connected, nonce, hsmFaults>>
        PROVE  HsmInv'
    BY <1>1, <1>2, <1>3, <1>4, <1>7, HsmFacts, SlotStep
  <1> QED BY <1>5, <1>6, <1>7 DEF public_discovery_available

\* The command arrives, is refused, or is lost.
LEMMA AnswerStep ==
    ASSUME HsmInv, Executes \/ Expired \/ Refused \/ RequestLost
    PROVE  HsmInv'
  <1>1. /\ call.pc = "sent" /\ UNCHANGED <<discovery, nonce, commands>>
    BY DEF Executes, Expired, Refused, RequestLost
  <1>2. Active /\ executed = 0 /\ session.state = "Active"
    BY <1>1 DEF HsmInv, RunsOK, Active
  <1>3. session.sid \in Sids /\ session.nonce \in Nat
    BY <1>2, HsmFacts DEF SessionFits
  <1>4. ASSUME Lose, executed' \in {0, 1}, discoveryRan' \in BOOLEAN,
               DeviceOK(device', nonce'), connected' \in BOOLEAN, stale' \in BOOLEAN,
               hsmFaults' \in 0..MaxHsmFaults
        PROVE  HsmInv'
    <2>1. /\ session' \in SessionSet /\ call' \in CallSet
          /\ session'.state # "Active"
          /\ call'.pc \in {"retry", "ready"} /\ ~(call'.user /\ ~call'.told)
          /\ SessionFits(session', device', nonce', call'.pc)
      BY <1>1, <1>4, LoseLemma
    <2>3. RunsOK' /\ UserOK'
      BY <1>4, <2>1 DEF RunsOK, UserOK
    <2>4. executed' \in Nat /\ discovery' \in {"Unattempted", "Failed", "Available"}
          /\ nonce' \in 0..MaxHandshakes /\ commands' \in 0..MaxCommands
      BY <1>1, <1>4, HsmFacts
    <2> QED BY <1>4, <2>1, <2>3, <2>4, SlotStep
  <1>5. ASSUME Executes PROVE HsmInv'
    <2>1. /\ device' = [device EXCEPT ![session.sid].received = @ + 1]
          /\ executed' = 1
          /\ discoveryRan' = IF session.role = "User" THEN discoveryRan ELSE TRUE
      BY <1>2, <1>5 DEF Executes
    <2>2. discoveryRan' \in BOOLEAN
      BY <2>1, HsmFacts
    <2>3. device \in [Sids -> [nonce : Nonces \cup {Free, Other}, received : Nat]]
      BY HsmFacts DEF DeviceOK
    <2>4. /\ device' \in [Sids -> [nonce : Nonces \cup {Free, Other}, received : Nat]]
          /\ device'[session.sid].nonce = device[session.sid].nonce
          /\ device'[session.sid].received = device[session.sid].received + 1
          /\ \A x \in Sids : x # session.sid => device'[x] = device[x]
      BY <1>3, <2>1, <2>3
    <2>5. DeviceOK(device', nonce')
      BY <1>1, <1>3, <2>4, HsmFacts DEF DeviceOK
    <2>6. CASE /\ call' = [call EXCEPT !.pc = "ready"]
               /\ UNCHANGED <<session, connected, stale, hsmFaults>>
      <3>1. /\ call' \in CallSet /\ call'.pc = "ready"
            /\ call'.user = call.user /\ call'.told = call.told
        BY <2>6, HsmFacts DEF CallSet
      <3>2. SessionFits(session', device', nonce', call'.pc)
        <4>1. device[session.sid].received + 1 = session.sent
          BY <1>5 DEF Executes, Accepts
        <4>2. SessionFits(session, device, nonce, "sent")
          BY <1>1, HsmFacts
        <4> QED BY <1>1, <1>2, <2>4, <2>6, <3>1, <4>1, <4>2 DEF SessionFits
      <3>3. RunsOK' /\ UserOK'
        BY <1>1, <1>2, <2>1, <2>6, <3>1 DEF HsmInv, RunsOK, UserOK, LoggedIn, Active
      <3> QED BY <1>1, <2>1, <2>2, <2>5, <2>6, <3>1, <3>2, <3>3, HsmFacts, SlotStep
    <2>7. CASE mark_disconnected /\ Lose
      BY <1>4, <2>1, <2>2, <2>5, <2>7, HsmFacts, MarkLemma
    <2>8. CASE /\ hsmFaults < MaxHsmFaults /\ hsmFaults' = hsmFaults + 1 /\ Lose
               /\ UNCHANGED <<connected, stale>>
      <3>1. hsmFaults' \in 0..MaxHsmFaults
        <4>1. MaxHsmFaults \in Nat
          BY HsmAssumption
        <4> QED BY <2>8, <4>1, HsmFacts
      <3> QED BY <1>4, <2>1, <2>2, <2>5, <2>8, <3>1, HsmFacts
    <2> QED BY <1>5, <2>6, <2>7, <2>8 DEF Executes
  <1>6. ASSUME Expired, ~Lose PROVE HsmInv'
    <2>1. /\ device[session.sid].nonce = Free
          /\ call' = [call EXCEPT !.pc = "reauth"]
          /\ UNCHANGED <<session, device, connected, stale, executed, discoveryRan, hsmFaults>>
      BY <1>6 DEF Expired
    <2>2. /\ call' \in CallSet /\ call'.pc = "reauth"
          /\ call'.user = call.user /\ call'.told = call.told
      BY <2>1, HsmFacts DEF CallSet
    <2>3. Free \notin Nat
      BY HsmAssumption
    <2>4. SessionFits(session', device', nonce', call'.pc)
      BY <1>1, <1>2, <1>3, <2>1, <2>2, <2>3, HsmFacts DEF SessionFits
    <2>5. RunsOK' /\ UserOK'
      BY <1>1, <1>2, <2>1, <2>2 DEF HsmInv, RunsOK, UserOK, LoggedIn, Active
    <2> QED BY <1>1, <2>1, <2>2, <2>4, <2>5, HsmFacts, SlotStep
  <1>7. ASSUME Expired \/ Refused \/ RequestLost, Lose PROVE HsmInv'
    <2>1. UNCHANGED <<device, executed, discoveryRan>>
      BY <1>7 DEF Expired, Refused, RequestLost
    <2>2. connected' \in BOOLEAN /\ stale' \in BOOLEAN /\ hsmFaults' \in 0..MaxHsmFaults
      BY <1>7, HsmFacts, MarkLemma DEF Expired, Refused, RequestLost
    <2> QED BY <1>1, <1>2, <1>4, <1>7, <2>1, <2>2, HsmFacts
  <1> QED BY <1>5, <1>6, <1>7 DEF Refused, RequestLost

\* The recreated session replaces the lost one, with the same role.
LEMMA ReauthStep ==
    ASSUME HsmInv, reauthenticate
    PROVE  HsmInv'
  <1>1. call.pc = "reauth" /\ UNCHANGED <<discovery, executed, discoveryRan, commands>>
    BY DEF reauthenticate
  <1>2. Active /\ executed = 0 /\ session.role \in Roles
    BY <1>1, HsmFacts DEF HsmInv, RunsOK, SessionSet
  <1>3. ASSUME NEW sid \in Sids, Open(device, sid), session' = NewSession(session.role, sid),
               call' = [call EXCEPT !.pc = "resend", !.again = TRUE],
               UNCHANGED <<connected, stale, hsmFaults>>
        PROVE  HsmInv'
    <2>1. /\ call' \in CallSet /\ call'.pc = "resend"
          /\ call'.user = call.user /\ call'.told = call.told
      BY <1>3, HsmFacts DEF CallSet
    <2>2. nonce' \in 0..MaxHandshakes /\ DeviceOK(device', nonce')
      BY <1>3, HsmFacts, OpenLemma
    <2>3. /\ session' \in SessionSet /\ session'.state = "Active" /\ session'.role = session.role
          /\ SessionFits(session', device', nonce', call'.pc)
      BY <1>2, <1>3, <2>1, HsmFacts, NewSessionLemma
    <2>4. RunsOK' /\ UserOK'
      BY <1>1, <1>2, <2>1, <2>3 DEF HsmInv, RunsOK, UserOK, LoggedIn, Active
    <2> QED BY <1>1, <1>3, <2>1, <2>2, <2>3, <2>4, HsmFacts, SlotStep
  <1>4. ASSUME HandshakeFails(device, stale), Lose
        PROVE  HsmInv'
    <2>1. /\ nonce' \in 0..MaxHandshakes /\ DeviceOK(device', nonce')
          /\ connected' \in BOOLEAN /\ stale' \in BOOLEAN /\ hsmFaults' \in 0..MaxHsmFaults
      BY <1>4, HsmFacts, HandshakeLemma
    <2>2. /\ session' \in SessionSet /\ call' \in CallSet
          /\ call'.pc \in {"retry", "ready"} /\ ~(call'.user /\ ~call'.told)
          /\ SessionFits(session', device', nonce', call'.pc)
      BY <1>1, <1>4, LoseLemma
    <2>3. RunsOK' /\ UserOK'
      BY <1>1, <1>2, <2>2 DEF HsmInv, RunsOK, UserOK
    <2> QED BY <1>1, <2>1, <2>2, <2>3, HsmFacts, SlotStep
  <1> QED BY <1>3, <1>4 DEF reauthenticate

\* HsmInv holds in every reachable state.
THEOREM HsmInvariance == HsmSpec => []HsmInv
  <1>1. HsmInit => HsmInv
    <2> SUFFICES ASSUME HsmInit PROVE HsmInv
      OBVIOUS
    <2>1. 0 \in 0..MaxHandshakes /\ 0 \in 0..MaxCommands /\ 0 \in 0..MaxHsmFaults
      BY HsmAssumption
    <2>2. Vacant \in [nonce : Nonces \cup {Free, Other}, received : Nat] /\ Vacant.nonce = Free
      BY DEF Vacant
    <2>3. DeviceOK(device, nonce)
      BY <2>2 DEF HsmInit, DeviceOK
    <2>4. session \in SessionSet /\ session.state = "LoggedOut"
      BY LostLemma DEF HsmInit
    <2>5. call \in CallSet /\ call.pc = "none" /\ call.user = FALSE
      BY DEF HsmInit, NoCall, CallSet
    <2>6. HsmTypeOK
      BY <2>1, <2>3, <2>4, <2>5 DEF HsmInit, HsmTypeOK, DeviceOK, SessionSet, CallSet, Roles
    <2>7. RunsOK /\ UserOK /\ SessionFits(session, device, nonce, call.pc)
      BY <2>4, <2>5 DEF HsmInit, RunsOK, UserOK, SessionFits
    <2> QED BY <2>3, <2>6, <2>7 DEF HsmInv
  <1>2. HsmInv /\ [HsmNext]_hsmVars => HsmInv'
    <2> SUFFICES ASSUME HsmInv, [HsmNext]_hsmVars PROVE HsmInv'
      OBVIOUS
    <2>1. CASE UNCHANGED hsmVars
      <3>1. RunsOK' /\ UserOK'
        BY <2>1 DEF hsmVars, HsmInv, RunsOK, UserOK, LoggedIn, Active
      <3> QED BY <2>1, <3>1, HsmFacts, SlotStep DEF hsmVars
    <2> QED BY <2>1, IdleStep, CallStep, DeviceStep, ReadStep, LookupStep, DiscoveryStep, AnswerStep,
               ReauthStep DEF HsmNext
  <1> QED BY <1>1, <1>2, PTL DEF HsmSpec

\* Recreating a session never runs a command twice, whatever is lost.
THEOREM NoCommandTwice == HsmSpec => []ReplayedOnlyUnrun
  <1>1. HsmInv => ReplayedOnlyUnrun
    BY DEF HsmInv, RunsOK, ReplayedOnlyUnrun
  <1> QED BY <1>1, HsmInvariance, PTL

\* A session in use shares its MAC chain with the device.
THEOREM ChainsShared == HsmSpec => []ChainsAgree
  <1>1. HsmInv => ChainsAgree
    <2> SUFFICES ASSUME HsmInv, Active, call.pc \notin {"sent", "reauth"},
                        device[session.sid].nonce = session.nonce
                 PROVE  device[session.sid].received = session.sent
      BY DEF ChainsAgree
    <2>1. session.sid \in Sids
          /\ device[session.sid].received + 0 = session.sent
      BY DEF HsmInv, SessionFits, Active
    <2>2. device[session.sid].received \in Nat
      BY <2>1 DEF HsmInv, DeviceOK
    <2> QED BY <2>1, <2>2
  <1> QED BY <1>1, HsmInvariance, PTL

\* Nothing of a user's call runs in the public discovery session before a step
\* of the call has told it of the lost session.
THEOREM UserKeptUntilTold == HsmSpec => []NeverSilentlyDemoted
  <1>1. HsmInv => NeverSilentlyDemoted
    BY DEF HsmInv, UserOK, NeverSilentlyDemoted
  <1> QED BY <1>1, HsmInvariance, PTL

-----------------------------------------------------------------------------
(***************************************************************************)
(* Proofs about the CTAPHID transport: an answer is the answer to the      *)
(* request that was sent, the channel is the transport's own, and no       *)
(* request runs twice, for every number of requests, channels, INIT        *)
(* exchanges and waiting reports.                                          *)
(***************************************************************************)

HidReports == [channel : Nat \cup {Broadcast}, kind : {"init", "answer", "invalid"},
               number : Nat, new : Nat]
HidMessages == [channel : Nat \cup {Broadcast}, number : Nat]

\* The parts of the inductive invariant.
HidShape ==
    /\ HidTypeOK
    /\ reports \in Seq(HidReports)
    /\ working \subseteq HidMessages

\* A message in the device is an INIT of the transport, or a request that has not run.
MessageFits(m) ==
    \/ m.channel = Broadcast /\ m.number \in 1..inits
    \/ m.channel \in 1..channels /\ m.number \in 1..requests /\ ran[m.number] = 0

\* A report is the answer to an INIT, with a channel of its own if the INIT was the
\* transport's, or the answer to a request.
ReportFits(report) ==
    \/ /\ report.channel = Broadcast /\ report.number \in 0..inits
       /\ report.new \in 1..channels
       /\ report.number > 0 => report.new \notin theirs
    \/ report.channel \in 1..channels /\ report.kind \in {"answer", "invalid"}

MessagesFit ==
    /\ \A m \in working : MessageFits(m)
    /\ \A m, n \in working :
           m.channel # Broadcast /\ n.channel # Broadcast /\ m.number = n.number => m = n
ReportsFit == \A i \in 1..Len(reports) : ReportFits(reports[i])

\* Which states the transport goes through, and what it has returned.
HostFits ==
    /\ hid.io => hid.channel \in 1..channels /\ hid.channel \notin theirs
    /\ hid.pc = "wait" => hid.io /\ requests > 0
    /\ hid.pc = "init" => inits > 0
    /\ hid.pc = "init" /\ hid.resent => hid.io /\ requests > 0
    /\ \A r \in 1..MaxRequests : ran[r] <= 1 /\ (r > requests => ran[r] = 0)
    /\ answer > 0 => answer = requests /\ ran[answer] = 1

NoMessageOn(channel) == \A m \in working : m.channel # channel
NoReportOn(channel) == \A i \in 1..Len(reports) : reports[i].channel # channel

\* Between requests nothing is left on the channel of the transport.
QuietWhenIdle ==
    hid.pc = "idle" /\ hid.io => NoMessageOn(hid.channel) /\ NoReportOn(hid.channel)

\* While it waits, all there is on its channel is the request or the one answer to it.
OneAnswerAwaited ==
    hid.pc = "wait" =>
        /\ \A m \in working : m.channel # Broadcast =>
               (m.channel = hid.channel <=> m.number = requests)
        /\ \A i \in 1..Len(reports) : reports[i].channel = hid.channel =>
               /\ NoMessageOn(hid.channel)
               /\ reports[i].number = requests
               /\ ran[requests] = (IF reports[i].kind = "answer" THEN 1 ELSE 0)
               /\ \A j \in 1..Len(reports) : reports[j].channel = hid.channel => i = j

\* While it takes a channel, the one it is about to get was never used, and the
\* request it will send again neither ran nor is about to.
FreshChannel ==
    hid.pc = "init" =>
        \A i \in 1..Len(reports) : reports[i].channel = Broadcast /\ reports[i].number = inits =>
            NoMessageOn(reports[i].new) /\ NoReportOn(reports[i].new)
ResendsUnrun ==
    hid.pc = "init" /\ hid.resent =>
        /\ ran[requests] = 0
        /\ \A m \in working : m.channel # Broadcast => m.number # requests

HidInv ==
    /\ HidShape /\ MessagesFit /\ ReportsFit /\ HostFits
    /\ QuietWhenIdle /\ OneAnswerAwaited /\ FreshChannel /\ ResendsUnrun

(***************************************************************************)
(* The queue of reports                                                    *)
(***************************************************************************)
\* What Tail leaves of the reports that wait in the handle.
LEMMA ReportsTail ==
    ASSUME NEW S, NEW s \in Seq(S), s # <<>>
    PROVE  /\ Head(s) = s[1] /\ 1 \in 1..Len(s)
           /\ Tail(s) \in Seq(S) /\ Len(Tail(s)) = Len(s) - 1
           /\ \A i \in 1..Len(Tail(s)) : i + 1 \in 1..Len(s) /\ Tail(s)[i] = s[i + 1]
  OBVIOUS

\* What Append adds to the reports that wait in the handle.
LEMMA ReportsAppend ==
    ASSUME NEW S, NEW s \in Seq(S), NEW e \in S
    PROVE  /\ Append(s, e) \in Seq(S) /\ Len(Append(s, e)) = Len(s) + 1
           /\ Append(s, e)[Len(s) + 1] = e
           /\ \A i \in 1..Len(s) : Append(s, e)[i] = s[i]
           /\ \A i \in 1..Len(Append(s, e)) : i \in 1..Len(s) \/ i = Len(s) + 1
  OBVIOUS

\* The fields of a report, of a message and of the transport's state.
LEMMA HidFields ==
    ASSUME HidShape
    PROVE  /\ hid.io \in BOOLEAN /\ hid.channel \in 0..MaxChannels
           /\ hid.pc \in {"idle", "init", "wait"} /\ hid.resent \in BOOLEAN
           /\ MaxRequests \in Nat /\ MaxChannels \in Nat /\ MaxInits \in Nat
           /\ MaxReports \in Nat /\ Broadcast \notin Int
           /\ channels \in Nat /\ inits \in Nat /\ requests \in Nat
           /\ channels \in 0..MaxChannels /\ inits \in 0..MaxInits
           /\ requests \in 0..MaxRequests /\ Len(reports) \in Nat
           /\ ran \in [1..MaxRequests -> Nat]
           /\ \A i \in 1..Len(reports) : reports[i] \in HidReports
  BY HidAssumption DEF HidShape, HidTypeOK

(***************************************************************************)
(* Every step keeps the invariant                                          *)
(***************************************************************************)
\* Initially there are no messages, reports or channels.
LEMMA HidInitial ==
    ASSUME HidInit
    PROVE  HidInv
<1>1. Len(reports) = 0 /\ 1..Len(reports) = {}
  BY DEF HidInit
<1>2. HidShape
  <2>1. hid \in [io : BOOLEAN, channel : 0..MaxChannels,
                 pc : {"idle", "init", "wait"}, resent : BOOLEAN]
    <3>1. 0 \in 0..MaxChannels
      BY HidAssumption
    <3> QED
      BY <3>1 DEF HidInit, Dropped
  <2>2. /\ channels \in 0..MaxChannels /\ inits \in 0..MaxInits
        /\ requests \in 0..MaxRequests /\ answer \in -1..MaxRequests
    BY HidAssumption DEF HidInit, Unanswered
  <2> QED
    BY <1>1, <2>1, <2>2, HidAssumption DEF HidInit, HidShape, HidTypeOK
<1>3. /\ hid.io = FALSE /\ hid.pc = "idle" /\ answer = 0 /\ working = {}
      /\ ran = [r \in 1..MaxRequests |-> 0]
  BY DEF HidInit, Dropped, Unanswered
<1>4. MessagesFit /\ ReportsFit
  BY <1>1, <1>3 DEF MessagesFit, ReportsFit
<1>5. HostFits
  BY <1>3 DEF HostFits
<1> QED
  BY <1>2, <1>3, <1>4, <1>5 DEF HidInv, QuietWhenIdle, OneAnswerAwaited, FreshChannel, ResendsUnrun

\* refresh starts an INIT with a new handle, in which nothing waits.
LEMMA ReconnectKeeps ==
    ASSUME HidInv, Reconnect
    PROVE  HidInv'
<1>1. HidShape /\ MessagesFit /\ ReportsFit /\ HostFits
  BY DEF HidInv
<1> USE HidFields
<1>2. /\ hid'.io = FALSE /\ hid'.channel = 0 /\ hid'.pc = "init" /\ hid'.resent = FALSE
      /\ hid' \in [io : BOOLEAN, channel : 0..MaxChannels,
                   pc : {"idle", "init", "wait"}, resent : BOOLEAN]
  <2>1. 0 \in 0..MaxChannels
    BY HidAssumption
  <2>2. hid' = [io |-> FALSE, channel |-> 0, pc |-> "init", resent |-> FALSE]
    BY DEF Reconnect, Dropped
  <2> QED
    BY <2>1, <2>2
<1>3. /\ inits' = inits + 1 /\ inits' \in 0..MaxInits
      /\ working' = working \cup {InitMessage(inits')}
      /\ reports' = <<>> /\ Len(reports') = 0 /\ 1..Len(reports') = {}
      /\ UNCHANGED <<known, theirs, channels, ran, requests, answer>>
  BY <1>1 DEF Reconnect, SendsInit, authenticatorVars
<1>4. HidShape'
  BY <1>1, <1>2, <1>3, SMTT(30) DEF HidShape, HidTypeOK, HidMessages, InitMessage
<1>5. MessagesFit'
  BY <1>1, <1>3, SMTT(30) DEF MessagesFit, MessageFits, InitMessage
<1>6. HostFits'
  BY <1>1, <1>2, <1>3 DEF HostFits
<1> QED
  BY <1>2, <1>3, <1>4, <1>5, <1>6 DEF HidInv, ReportsFit, QuietWhenIdle, OneAnswerAwaited,
     FreshChannel, ResendsUnrun

\* transact puts the request on a channel on which nothing is left.
LEMMA TransactKeeps ==
    ASSUME HidInv, Transact
    PROVE  HidInv'
<1>1. /\ HidShape /\ MessagesFit /\ ReportsFit /\ HostFits /\ QuietWhenIdle
  BY DEF HidInv
<1> USE HidFields
<1>2. /\ hid'.io = TRUE /\ hid'.channel = hid.channel /\ hid'.pc = "wait"
      /\ hid'.resent = FALSE
      /\ hid' \in [io : BOOLEAN, channel : 0..MaxChannels,
                   pc : {"idle", "init", "wait"}, resent : BOOLEAN]
  BY <1>1 DEF Transact, HidShape, HidTypeOK
<1>3. /\ requests' = requests + 1 /\ requests' \in 1..MaxRequests
      /\ working' = working \cup {RequestMessage(requests', hid.channel)}
      /\ answer' = 0
      /\ UNCHANGED <<known, theirs, channels, ran, reports, inits>>
  BY <1>1 DEF Transact, Unanswered, authenticatorVars
<1>4. /\ hid.channel \in 1..channels /\ hid.channel \notin theirs
      /\ hid.channel # Broadcast
      /\ NoMessageOn(hid.channel) /\ NoReportOn(hid.channel)
      /\ ran[requests'] = 0
  BY <1>1, <1>3 DEF HostFits, Transact, QuietWhenIdle
<1>5. HidShape'
  BY <1>1, <1>2, <1>3, <1>4, SMTT(30) DEF HidShape, HidTypeOK, HidMessages, RequestMessage
<1>6. MessagesFit'
  BY <1>1, <1>3, <1>4, SMTT(30) DEF MessagesFit, MessageFits, RequestMessage
<1>7. HostFits'
  BY <1>1, <1>2, <1>3, <1>4, SMTT(30) DEF HostFits
<1>8. ReportsFit'
  BY <1>1, <1>3 DEF ReportsFit, ReportFits
<1>9. OneAnswerAwaited'
  BY <1>1, <1>2, <1>3, <1>4, SMTT(30) DEF OneAnswerAwaited, NoMessageOn, NoReportOn, MessagesFit,
     MessageFits, RequestMessage
<1> QED
  BY <1>2, <1>5, <1>6, <1>7, <1>8, <1>9 DEF HidInv, QuietWhenIdle, FreshChannel, ResendsUnrun

\* initialize_channel takes the channel of its own INIT, on which nothing was sent yet,
\* or gives the handle up.
LEMMA InitializedKeeps ==
    ASSUME HidInv, Initialized
    PROVE  HidInv'
<1>1. /\ HidShape /\ MessagesFit /\ ReportsFit /\ HostFits /\ FreshChannel /\ ResendsUnrun
  BY DEF HidInv
<1> USE HidFields
<1>2. /\ hid.pc = "init" /\ reports # <<>> /\ reports[1].channel = Broadcast
      /\ 1 \in 1..Len(reports) /\ reports \in Seq(HidReports)
      /\ Head(reports) = reports[1]
      /\ reports' = Tail(reports)
      /\ UNCHANGED <<known, theirs, channels, ran, inits, requests>>
  BY <1>1, ReportsTail DEF Initialized, Reads, Incoming, HidShape, authenticatorVars
<1>3. /\ reports' \in Seq(HidReports) /\ Len(reports') = Len(reports) - 1
      /\ \A i \in 1..Len(reports') : i + 1 \in 1..Len(reports) /\ reports'[i] = reports[i + 1]
  BY <1>2, ReportsTail
<1>4. ReportsFit'
  BY <1>1, <1>2, <1>3, SMTT(30) DEF ReportsFit, ReportFits
<1>5. CASE reports[1].number = inits
  <2>0. PICK c \in Nat : c = reports[1].new
    BY <1>1, <1>2 DEF HidReports
  <2>1. TakesChannel(c)
    BY <1>2, <1>5, <2>0 DEF Initialized, Incoming
  <2>2. /\ c \in 1..channels /\ c \notin theirs /\ c # Broadcast
        /\ NoMessageOn(c) /\ NoReportOn(c)
    BY <1>1, <1>2, <1>5, <2>0, SMTT(30) DEF ReportsFit, ReportFits, HostFits, FreshChannel
  <2>3. /\ hid'.io = TRUE /\ hid'.channel = c /\ hid'.resent = hid.resent
        /\ hid'.pc = IF hid.resent THEN "wait" ELSE "idle"
        /\ hid' \in [io : BOOLEAN, channel : 0..MaxChannels,
                     pc : {"idle", "init", "wait"}, resent : BOOLEAN]
        /\ answer' = answer
    <3>1. c \in 0..MaxChannels
      BY <1>1, <2>2
    <3>2. hid' = [hid EXCEPT !.io = TRUE, !.channel = c,
                             !.pc = IF hid.resent THEN "wait" ELSE "idle"]
      BY <2>1 DEF TakesChannel
    <3>3. answer' = answer
      BY <2>1 DEF TakesChannel
    <3> QED
      BY <1>1, <3>1, <3>2, <3>3 DEF HidShape, HidTypeOK
  <2>4. NoReportOn(c)'
    BY <1>3, <2>2 DEF NoReportOn
  <2>5. HostFits'
    BY <1>1, <1>2, <2>2, <2>3 DEF HostFits
  <2>6. CASE ~hid.resent
    <3>1. working' = working
      BY <2>1, <2>6 DEF TakesChannel
    <3>2. HidShape'
      BY <1>1, <1>2, <1>3, <2>3, <3>1, SMTT(30) DEF HidShape, HidTypeOK
    <3>3. MessagesFit'
      BY <1>1, <1>2, <3>1 DEF MessagesFit, MessageFits
    <3>4. QuietWhenIdle'
      BY <2>2, <2>3, <2>4, <3>1 DEF QuietWhenIdle, NoMessageOn
    <3> QED
      BY <1>4, <2>3, <2>5, <2>6, <3>2, <3>3, <3>4 DEF HidInv, OneAnswerAwaited, FreshChannel,
         ResendsUnrun
  <2>7. CASE hid.resent
    <3>1. working' = working \cup {RequestMessage(requests, c)}
      BY <2>1, <2>7 DEF TakesChannel
    <3>2. HidShape'
      <4>1. working' \subseteq HidMessages
        BY <1>1, <3>1 DEF HidShape, HidMessages, RequestMessage
      <4> QED
        BY <1>1, <1>2, <1>3, <2>3, <4>1, SMTT(30) DEF HidShape, HidTypeOK
    <3>3. requests \in 1..requests /\ ran[requests] = 0
      BY <1>1, <1>2, <2>7 DEF HostFits, ResendsUnrun
    <3>4. MessagesFit'
      BY <1>1, <1>2, <2>2, <2>7, <3>1, <3>3, SMTT(30) DEF MessagesFit, MessageFits, RequestMessage,
         ResendsUnrun
    <3>5. OneAnswerAwaited'
      BY <1>1, <1>2, <2>2, <2>3, <2>4, <2>7, <3>1, SMTT(30) DEF OneAnswerAwaited, NoMessageOn, NoReportOn,
         ResendsUnrun, RequestMessage
    <3> QED
      BY <1>4, <2>3, <2>5, <2>7, <3>2, <3>4, <3>5 DEF HidInv, QuietWhenIdle, FreshChannel,
         ResendsUnrun
  <2> QED
    BY <2>6, <2>7
<1>6. CASE reports[1].number # inits
  <2>1. Drops /\ working' = working
    BY <1>2, <1>6 DEF Initialized, Incoming
  <2>2. /\ hid'.io = FALSE /\ hid'.pc = "idle"
        /\ hid' \in [io : BOOLEAN, channel : 0..MaxChannels,
                     pc : {"idle", "init", "wait"}, resent : BOOLEAN]
        /\ answer' \in {answer, -1}
    BY <1>1, <2>1 DEF Drops, Dropped, Failed
  <2>3. HidShape'
    BY <1>1, <1>2, <1>3, <2>1, <2>2, SMTT(30) DEF HidShape, HidTypeOK
  <2>4. MessagesFit'
    BY <1>1, <1>2, <2>1 DEF MessagesFit, MessageFits
  <2>5. HostFits'
    BY <1>1, <1>2, <2>2, SMTT(30) DEF HostFits
  <2> QED
    BY <1>4, <2>2, <2>3, <2>4, <2>5 DEF HidInv, QuietWhenIdle, OneAnswerAwaited, FreshChannel,
       ResendsUnrun
<1> QED
  BY <1>5, <1>6

\* read_message returns the one answer on the channel, which leaves nothing on it.
LEMMA AnsweredKeeps ==
    ASSUME HidInv, Answered
    PROVE  HidInv'
<1>1. /\ HidShape /\ MessagesFit /\ ReportsFit /\ HostFits /\ OneAnswerAwaited
  BY DEF HidInv
<1> USE HidFields
<1>2. /\ hid.pc = "wait" /\ reports # <<>> /\ reports[1].channel = hid.channel
      /\ 1 \in 1..Len(reports) /\ reports \in Seq(HidReports)
      /\ reports[1].kind = "answer" /\ answer' = reports[1].number
      /\ reports' = Tail(reports)
      /\ UNCHANGED <<known, theirs, channels, ran, inits, working, requests>>
  BY <1>1, ReportsTail DEF Answered, Reads, Incoming, HidShape, authenticatorVars
<1>3. /\ reports' \in Seq(HidReports) /\ Len(reports') = Len(reports) - 1
      /\ \A i \in 1..Len(reports') : i + 1 \in 1..Len(reports) /\ reports'[i] = reports[i + 1]
  BY <1>2, ReportsTail
<1>4. /\ hid'.io = hid.io /\ hid'.channel = hid.channel /\ hid'.pc = "idle"
      /\ hid'.resent = hid.resent
      /\ hid' \in [io : BOOLEAN, channel : 0..MaxChannels,
                   pc : {"idle", "init", "wait"}, resent : BOOLEAN]
  BY <1>1 DEF Answered, HidShape, HidTypeOK
<1>5. /\ answer' = requests /\ ran[requests] = 1 /\ NoMessageOn(hid.channel)
      /\ \A j \in 1..Len(reports) : reports[j].channel = hid.channel => j = 1
  BY <1>1, <1>2 DEF OneAnswerAwaited
<1>6. HidShape'
  BY <1>1, <1>2, <1>3, <1>4, <1>5, SMTT(30) DEF HidShape, HidTypeOK
<1>7. MessagesFit'
  BY <1>1, <1>2 DEF MessagesFit, MessageFits
<1>8. ReportsFit'
  BY <1>1, <1>2, <1>3 DEF ReportsFit, ReportFits
<1>9. HostFits'
  BY <1>1, <1>2, <1>4, <1>5 DEF HostFits
<1>10. QuietWhenIdle'
  BY <1>2, <1>3, <1>4, <1>5 DEF QuietWhenIdle, NoMessageOn, NoReportOn
<1> QED
  BY <1>4, <1>6, <1>7, <1>8, <1>9, <1>10 DEF HidInv, OneAnswerAwaited, FreshChannel, ResendsUnrun

\* A refused request did not run: it is sent again on a new channel, once.
LEMMA InvalidChannelKeeps ==
    ASSUME HidInv, InvalidChannel
    PROVE  HidInv'
<1>1. /\ HidShape /\ MessagesFit /\ ReportsFit /\ HostFits /\ OneAnswerAwaited
  BY DEF HidInv
<1> USE HidFields
<1>2. /\ hid.pc = "wait" /\ reports # <<>> /\ reports[1].channel = hid.channel
      /\ 1 \in 1..Len(reports) /\ reports \in Seq(HidReports)
      /\ reports[1].kind = "invalid"
      /\ reports' = Tail(reports)
      /\ UNCHANGED <<known, theirs, channels, ran, requests>>
  BY <1>1, ReportsTail DEF InvalidChannel, Reads, Incoming, HidShape, authenticatorVars
<1>3. /\ reports' \in Seq(HidReports) /\ Len(reports') = Len(reports) - 1
      /\ \A i \in 1..Len(reports') : i + 1 \in 1..Len(reports) /\ reports'[i] = reports[i + 1]
  BY <1>2, ReportsTail
<1>4. CASE hid.resent
  <2>1. Drops /\ working' = working /\ inits' = inits
    BY <1>2, <1>4 DEF InvalidChannel
  <2>2. /\ hid'.io = FALSE /\ hid'.pc = "idle"
        /\ hid' \in [io : BOOLEAN, channel : 0..MaxChannels,
                     pc : {"idle", "init", "wait"}, resent : BOOLEAN]
        /\ answer' \in {answer, -1}
    BY <1>1, <2>1 DEF Drops, Dropped, Failed
  <2>3. HidShape'
    BY <1>1, <1>2, <1>3, <2>1, <2>2, SMTT(30) DEF HidShape, HidTypeOK
  <2>4. MessagesFit'
    BY <1>1, <1>2, <2>1 DEF MessagesFit, MessageFits
  <2>5. HostFits'
    BY <1>1, <1>2, <2>2, SMTT(30) DEF HostFits
  <2>6. ReportsFit'
    BY <1>1, <1>2, <1>3, <2>1, SMTT(30) DEF ReportsFit, ReportFits
  <2> QED
    BY <2>2, <2>3, <2>4, <2>5, <2>6 DEF HidInv, QuietWhenIdle, OneAnswerAwaited, FreshChannel,
       ResendsUnrun
<1>5. CASE ~hid.resent
  <2>1. /\ inits' = inits + 1 /\ inits' \in 0..MaxInits
        /\ working' = working \cup {InitMessage(inits')} /\ answer' = answer
        /\ hid' = [hid EXCEPT !.pc = "init", !.resent = TRUE]
    BY <1>1, <1>5 DEF InvalidChannel, SendsInit
  <2>2. /\ hid'.io = hid.io /\ hid'.channel = hid.channel
        /\ hid'.pc = "init" /\ hid'.resent = TRUE
        /\ hid' \in [io : BOOLEAN, channel : 0..MaxChannels,
                     pc : {"idle", "init", "wait"}, resent : BOOLEAN]
    BY <1>1, <2>1 DEF HidShape, HidTypeOK
  <2>3. HidShape'
    <3>1. working' \subseteq HidMessages
      BY <1>1, <2>1 DEF HidShape, HidMessages, InitMessage
    <3> QED
      BY <1>1, <1>2, <1>3, <2>1, <2>2, <3>1, SMTT(30) DEF HidShape, HidTypeOK
  <2>4. MessagesFit'
    BY <1>1, <1>2, <2>1, SMTT(30) DEF MessagesFit, MessageFits, InitMessage
  <2>5. HostFits'
    BY <1>1, <1>2, <2>1, <2>2, SMTT(30) DEF HostFits
  <2>6. ReportsFit'
    BY <1>1, <1>2, <1>3, <2>1, SMTT(30) DEF ReportsFit, ReportFits
  <2>7. FreshChannel'
    <3>1. \A i \in 1..Len(reports') : reports'[i].channel = Broadcast => reports'[i].number # inits'
      BY <1>1, <1>2, <1>3, <2>1, SMTT(30) DEF ReportsFit, ReportFits
    <3> QED
      BY <3>1 DEF FreshChannel
  <2>8. ran[requests] = 0 /\ NoMessageOn(hid.channel)
    BY <1>1, <1>2 DEF OneAnswerAwaited
  <2>9. ResendsUnrun'
    BY <1>1, <1>2, <2>1, <2>8, SMTT(30) DEF ResendsUnrun, OneAnswerAwaited, NoMessageOn, InitMessage
  <2> QED
    BY <2>2, <2>3, <2>4, <2>5, <2>6, <2>7, <2>9 DEF HidInv, QuietWhenIdle, OneAnswerAwaited
<1> QED
  BY <1>4, <1>5, <1>1

\* A skipped packet is on no channel that anyone waits on.
LEMMA IgnoredKeeps ==
    ASSUME HidInv, Ignored
    PROVE  HidInv'
<1>1. /\ HidShape /\ MessagesFit /\ ReportsFit /\ HostFits /\ OneAnswerAwaited /\ FreshChannel
      /\ ResendsUnrun
  BY DEF HidInv
<1> USE HidFields
<1>2. /\ hid.pc \in {"init", "wait"} /\ reports # <<>> /\ reports \in Seq(HidReports)
      /\ reports' = Tail(reports)
      /\ UNCHANGED <<known, theirs, channels, ran, inits, working, requests, answer, hid>>
  BY <1>1 DEF Ignored, HidShape, authenticatorVars
<1>3. /\ reports' \in Seq(HidReports) /\ Len(reports') = Len(reports) - 1
      /\ \A i \in 1..Len(reports') : i + 1 \in 1..Len(reports) /\ reports'[i] = reports[i + 1]
  BY <1>2, ReportsTail
<1>4. HidShape'
  BY <1>1, <1>2, <1>3, SMTT(30) DEF HidShape, HidTypeOK
<1>5. MessagesFit' /\ HostFits' /\ ResendsUnrun'
  BY <1>1, <1>2 DEF MessagesFit, MessageFits, HostFits, ResendsUnrun
<1>6. ReportsFit'
  BY <1>1, <1>2, <1>3 DEF ReportsFit, ReportFits
<1>7. OneAnswerAwaited'
  BY <1>1, <1>2, <1>3, SMTT(30) DEF OneAnswerAwaited, NoMessageOn
<1>8. FreshChannel'
  BY <1>1, <1>2, <1>3, SMTT(30) DEF FreshChannel, NoMessageOn, NoReportOn
<1> QED
  BY <1>2, <1>4, <1>5, <1>6, <1>7, <1>8 DEF HidInv, QuietWhenIdle

\* A failure gives the handle up; the device may still hold the request.
LEMMA HidFailsKeeps ==
    ASSUME HidInv, HidFails
    PROVE  HidInv'
<1>1. /\ HidShape /\ MessagesFit /\ ReportsFit /\ HostFits
  BY DEF HidInv
<1> USE HidFields
<1>2. /\ Drops /\ reports' = <<>> /\ Len(reports') = 0 /\ 1..Len(reports') = {}
      /\ UNCHANGED <<known, theirs, channels, ran, inits, working, requests>>
  BY DEF HidFails, authenticatorVars
<1>3. /\ hid'.io = FALSE /\ hid'.pc = "idle"
      /\ hid' \in [io : BOOLEAN, channel : 0..MaxChannels,
                   pc : {"idle", "init", "wait"}, resent : BOOLEAN]
      /\ answer' \in {answer, -1}
  BY <1>1, <1>2 DEF Drops, Dropped, Failed
<1>4. HidShape'
  BY <1>1, <1>2, <1>3, SMTT(30) DEF HidShape, HidTypeOK
<1>5. MessagesFit'
  BY <1>1, <1>2 DEF MessagesFit, MessageFits
<1>6. HostFits'
  BY <1>1, <1>2, <1>3, SMTT(30) DEF HostFits
<1> QED
  BY <1>2, <1>3, <1>4, <1>5, <1>6 DEF HidInv, ReportsFit, QuietWhenIdle, OneAnswerAwaited,
     FreshChannel, ResendsUnrun

\* The device's answer to an INIT hands out a channel that nobody has used; it reaches
\* the handle, or the handle is closed and the report is lost.
LEMMA HandsOutKeeps ==
    ASSUME HidInv, NEW asked \in 0..inits, HandsOut(asked),
           working' \subseteq working,
           \/ theirs' = theirs
           \/ asked = 0 /\ theirs' = theirs \cup {channels'},
           UNCHANGED <<hid, inits, requests, ran, answer>>
    PROVE  HidInv'
<1>1. /\ HidShape /\ MessagesFit /\ ReportsFit /\ HostFits /\ QuietWhenIdle /\ OneAnswerAwaited
      /\ FreshChannel /\ ResendsUnrun
  BY DEF HidInv
<1> USE HidFields
<1>2. PICK c \in Nat : c = channels + 1
  BY <1>1
<1> DEFINE report == [channel |-> Broadcast, kind |-> "init", number |-> asked, new |-> c]
<1>3. /\ channels' = c /\ c \in 0..MaxChannels /\ known' = known \cup {c}
      /\ Len(reports) < MaxReports
      /\ reports' = (IF hid.io \/ hid.pc = "init" THEN Append(reports, report) ELSE reports)
  BY <1>1, <1>2 DEF HandsOut, HandleRoom, Reported
<1>4. asked \in Nat /\ asked <= inits /\ report \in HidReports
  <2>1. asked \in Nat /\ asked <= inits
    BY <1>1
  <2> QED
    BY <2>1 DEF HidReports
<1>5. /\ report.channel = Broadcast /\ report.number = asked /\ report.new = c
  OBVIOUS
<1>6. /\ hid' = hid /\ inits' = inits /\ requests' = requests /\ ran' = ran /\ answer' = answer
      /\ \A m \in working' : m \in working
      /\ \A t \in theirs' : t \in theirs \/ (asked = 0 /\ t = c)
      /\ \A t \in theirs : t \in 1..channels
  BY <1>1, <1>3 DEF HidShape, HidTypeOK
<1>7. MessagesFit'
  BY <1>1, <1>2, <1>3, <1>6, SMTT(30) DEF MessagesFit, MessageFits
<1>8. HostFits'
  BY <1>1, <1>2, <1>3, <1>6, SMTT(30) DEF HostFits
<1>9. ResendsUnrun'
  BY <1>1, <1>6 DEF ResendsUnrun
<1>10. /\ channels' \in 0..MaxChannels /\ known' \subseteq 1..channels'
       /\ theirs' \subseteq 1..channels' /\ working' \subseteq HidMessages
  <2>1. /\ known \subseteq 1..channels /\ 1..channels \subseteq 1..c /\ c \in 1..c
        /\ working' \subseteq HidMessages
    BY <1>1, <1>2 DEF HidShape, HidTypeOK
  <2> QED
    BY <1>1, <1>3, <1>6, <2>1
<1>11. ASSUME NEW i \in 1..Len(reports)
       PROVE  /\ reports[i].channel # c
              /\ reports[i].channel = Broadcast => reports[i].new # c
              /\ \/ /\ reports[i].channel = Broadcast /\ reports[i].number \in 0..inits
                    /\ reports[i].new \in 1..c
                    /\ reports[i].number > 0 => reports[i].new \notin theirs'
                 \/ reports[i].channel \in 1..c /\ reports[i].kind \in {"answer", "invalid"}
  <2>1. ReportFits(reports[i])
    BY <1>1 DEF ReportsFit
  <2> QED
    BY <1>1, <1>2, <1>6, <2>1, SMTT(30) DEF ReportFits
<1>12. ASSUME NEW m \in working
       PROVE  m.channel # c
  BY <1>1, <1>2 DEF MessagesFit, MessageFits
<1> HIDE DEF report
<1>13. CASE ~(hid.io \/ hid.pc = "init")
  <2>1. reports' = reports
    BY <1>3, <1>13
  <2>2. HidShape'
    BY <1>1, <1>6, <1>10, <2>1 DEF HidShape, HidTypeOK
  <2>3. ReportsFit'
    BY <1>3, <1>6, <1>11, <2>1 DEF ReportsFit, ReportFits
  <2>4. hid.pc # "wait"
    BY <1>1, <1>13 DEF HostFits
  <2> QED
    BY <1>6, <1>7, <1>8, <1>9, <1>13, <2>2, <2>3, <2>4 DEF HidInv, QuietWhenIdle,
       OneAnswerAwaited, FreshChannel
<1>14. CASE hid.io \/ hid.pc = "init"
  <2>1. reports' = Append(reports, report) /\ reports \in Seq(HidReports)
    BY <1>1, <1>3, <1>14 DEF HidShape
  <2>2. /\ reports' \in Seq(HidReports) /\ Len(reports') = Len(reports) + 1
        /\ reports'[Len(reports) + 1] = report
        /\ \A i \in 1..Len(reports) : reports'[i] = reports[i]
        /\ \A i \in 1..Len(reports') : i \in 1..Len(reports) \/ i = Len(reports) + 1
    BY <1>4, <2>1, ReportsAppend
  <2>3. HidShape'
    <3>1. Len(reports') <= MaxReports
      BY <1>1, <1>3, <2>2
    <3> QED
      BY <1>1, <1>6, <1>10, <2>2, <3>1 DEF HidShape, HidTypeOK
  <2>4. \A i \in 1..Len(reports') : \/ i \in 1..Len(reports) /\ reports'[i] = reports[i]
                                    \/ i = Len(reports) + 1 /\ reports'[i] = report
    BY <2>2
  <2>5. ReportsFit'
    <3>1. SUFFICES ASSUME NEW i \in 1..Len(reports')
                   PROVE  ReportFits(reports[i])'
      BY DEF ReportsFit
    <3>2. CASE i \in 1..Len(reports) /\ reports'[i] = reports[i]
      BY <1>3, <1>6, <1>11, <3>2 DEF ReportFits
    <3>3. CASE reports'[i] = report
      <4>1. /\ report.channel = Broadcast /\ report.number \in 0..inits /\ report.new \in 1..c
            /\ report.number > 0 => report.new \notin theirs'
        BY <1>1, <1>2, <1>4, <1>5, <1>6, SMTT(30)
      <4> QED
        BY <1>3, <1>6, <3>3, <4>1 DEF ReportFits
    <3> QED
      BY <2>4, <3>2, <3>3
  <2>6. hid.io => hid.channel # Broadcast
    BY <1>1 DEF HostFits
  <2>7. hid.io => \A i \in 1..Len(reports') : reports'[i].channel = hid.channel =>
                      i \in 1..Len(reports) /\ reports'[i] = reports[i]
    BY <1>5, <2>4, <2>6
  <2>8. QuietWhenIdle'
    BY <1>1, <1>6, <2>7 DEF QuietWhenIdle, NoMessageOn, NoReportOn
  <2>9. OneAnswerAwaited'
    <3>1. SUFFICES ASSUME hid.pc = "wait"
                   PROVE  OneAnswerAwaited'
      BY <1>6 DEF OneAnswerAwaited
    <3>2. hid.io
      BY <1>1, <3>1 DEF HostFits
    <3>3. \A m \in working' : m.channel # Broadcast =>
               (m.channel = hid.channel <=> m.number = requests)
      BY <1>1, <1>6, <3>1 DEF OneAnswerAwaited
    <3>4. ASSUME NEW i \in 1..Len(reports'), reports'[i].channel = hid.channel
          PROVE  /\ NoMessageOn(hid.channel)'
                 /\ reports'[i].number = requests
                 /\ ran[requests] = (IF reports'[i].kind = "answer" THEN 1 ELSE 0)
                 /\ \A j \in 1..Len(reports') : reports'[j].channel = hid.channel => i = j
      <4>1. i \in 1..Len(reports) /\ reports'[i] = reports[i]
        BY <2>7, <3>2, <3>4
      <4>2. /\ NoMessageOn(hid.channel) /\ reports[i].number = requests
            /\ ran[requests] = (IF reports[i].kind = "answer" THEN 1 ELSE 0)
            /\ \A j \in 1..Len(reports) : reports[j].channel = hid.channel => i = j
        BY <1>1, <3>1, <3>4, <4>1 DEF OneAnswerAwaited
      <4>3. NoMessageOn(hid.channel)'
        BY <1>6, <4>2 DEF NoMessageOn
      <4> QED
        BY <2>7, <3>2, <4>1, <4>2, <4>3
    <3> QED
      BY <1>6, <3>3, <3>4 DEF OneAnswerAwaited
  <2>10. FreshChannel'
    <3>1. SUFFICES ASSUME hid.pc = "init", NEW i \in 1..Len(reports'),
                          reports'[i].channel = Broadcast, reports'[i].number = inits
                   PROVE  /\ \A m \in working' : m.channel # reports'[i].new
                          /\ \A j \in 1..Len(reports') : reports'[j].channel # reports'[i].new
      BY <1>6 DEF FreshChannel, NoMessageOn, NoReportOn
    <3>2. CASE i \in 1..Len(reports) /\ reports'[i] = reports[i]
      <4>1. NoMessageOn(reports[i].new) /\ NoReportOn(reports[i].new)
        BY <1>1, <3>1, <3>2 DEF FreshChannel
      <4>2. reports[i].new # Broadcast
        BY <1>1, <1>11, <3>1, <3>2, SMTT(30)
      <4> QED
        BY <1>5, <1>6, <2>4, <3>2, <4>1, <4>2 DEF NoMessageOn, NoReportOn
    <3>3. CASE reports'[i] = report
      <4>1. c # Broadcast
        BY <1>1, <1>2
      <4> QED
        BY <1>5, <1>6, <1>11, <1>12, <2>4, <3>3, <4>1
    <3> QED
      BY <2>4, <3>2, <3>3
  <2> QED
    BY <1>7, <1>8, <1>9, <2>3, <2>5, <2>8, <2>9, <2>10 DEF HidInv
<1> QED
  BY <1>13, <1>14

\* The device answers an INIT of the transport, or one of the other program.
LEMMA InitializesKeeps ==
    ASSUME HidInv, DeviceInitializes \/ OtherInitializes
    PROVE  HidInv'
<1>1. HidShape /\ MessagesFit
  BY DEF HidInv
<1>2. CASE DeviceInitializes
  <2>1. PICK m \in working : /\ m.channel = Broadcast /\ working' = working \ {m}
                             /\ HandsOut(m.number)
    BY <1>2 DEF DeviceInitializes
  <2>2. m.number \in 0..inits
    BY <1>1, <2>1, HidFields DEF MessagesFit, MessageFits
  <2>3. theirs' = theirs /\ UNCHANGED <<hid, inits, requests, ran, answer>>
    BY <1>2 DEF DeviceInitializes
  <2>4. working' \subseteq working
    BY <2>1
  <2> QED
    BY <2>1, <2>2, <2>3, <2>4, HandsOutKeeps
<1>3. CASE OtherInitializes
  <2>1. /\ HandsOut(0) /\ theirs' = theirs \cup {channels'} /\ working' = working
        /\ UNCHANGED <<hid, inits, requests, ran, answer>>
    BY <1>3 DEF OtherInitializes
  <2>2. 0 \in 0..inits
    BY <1>1, HidFields
  <2>3. working' \subseteq working
    BY <2>1
  <2> QED
    BY <2>1, <2>2, <2>3, HandsOutKeeps
<1> QED
  BY <1>2, <1>3

\* The device runs or refuses a request that has not run; what it reports is the one
\* answer on the channel of the request, or is lost with the handle.
LEMMA DeviceAnswersKeeps ==
    ASSUME HidInv, DeviceAnswers
    PROVE  HidInv'
<1>1. /\ HidShape /\ MessagesFit /\ ReportsFit /\ HostFits /\ QuietWhenIdle /\ OneAnswerAwaited
      /\ FreshChannel /\ ResendsUnrun
  BY DEF HidInv
<1> USE HidFields
<1>2. PICK m \in working :
          /\ m.channel # Broadcast /\ working' = working \ {m}
          /\ ran' = IF m.channel \in known THEN [ran EXCEPT ![m.number] = @ + 1] ELSE ran
          /\ reports' = Reported([channel |-> m.channel,
                                  kind |-> IF m.channel \in known THEN "answer" ELSE "invalid",
                                  number |-> m.number, new |-> 0])
  BY DEF DeviceAnswers
<1>3. PICK kind \in {"answer", "invalid"} :
          kind = IF m.channel \in known THEN "answer" ELSE "invalid"
  OBVIOUS
<1> DEFINE report == [channel |-> m.channel, kind |-> kind, number |-> m.number, new |-> 0]
<1>4. /\ reports' = (IF hid.io \/ hid.pc = "init" THEN Append(reports, report) ELSE reports)
      /\ Len(reports) < MaxReports
      /\ UNCHANGED <<hid, known, theirs, channels, inits, requests, answer>>
  BY <1>2, <1>3 DEF DeviceAnswers, HandleRoom, Reported
<1>5. /\ m.channel \in 1..channels /\ m.number \in 1..requests /\ m.number \in 1..MaxRequests
      /\ ran[m.number] = 0 /\ m.channel \in Nat /\ m.number \in Nat
  BY <1>1, <1>2, SMTT(30) DEF MessagesFit, MessageFits
<1>6. /\ report.channel = m.channel /\ report.kind = kind /\ report.number = m.number
      /\ report \in HidReports
  BY <1>3, <1>5 DEF HidReports
<1>7. /\ ran' \in [1..MaxRequests -> Nat]
      /\ ran'[m.number] = (IF kind = "answer" THEN 1 ELSE 0)
      /\ \A r \in 1..MaxRequests : r # m.number => ran'[r] = ran[r]
  BY <1>1, <1>2, <1>3, <1>5
<1>8. ASSUME NEW n \in working'
      PROVE  n \in working /\ n # m /\ (n.channel # Broadcast => n.number # m.number)
  BY <1>1, <1>2 DEF MessagesFit
<1>9. MessagesFit'
  <2>1. ASSUME NEW n \in working'
        PROVE  MessageFits(n)'
    <3>1. MessageFits(n)
      BY <1>1, <1>8 DEF MessagesFit
    <3>2. CASE n.channel = Broadcast /\ n.number \in 1..inits
      BY <1>4, <3>2 DEF MessageFits
    <3>3. CASE n.channel \in 1..channels /\ n.number \in 1..requests /\ ran[n.number] = 0
      <4>1. n.channel # Broadcast /\ n.number \in 1..MaxRequests
        BY <1>1, <3>3
      <4>2. ran'[n.number] = 0
        BY <1>7, <1>8, <3>3, <4>1
      <4> QED
        BY <1>4, <3>3, <4>2 DEF MessageFits
    <3> QED
      BY <3>1, <3>2, <3>3 DEF MessageFits
  <2> QED
    BY <1>1, <1>8, <2>1 DEF MessagesFit
<1>10. HostFits'
  <2>1. \A r \in 1..MaxRequests : ran'[r] <= 1 /\ (r > requests => ran'[r] = 0)
    BY <1>1, <1>5, <1>7, SMTT(30) DEF HostFits
  <2>2. answer > 0 => answer = requests /\ ran'[answer] = 1
    <3>1. SUFFICES ASSUME answer > 0
                   PROVE  answer = requests /\ ran'[answer] = 1
      OBVIOUS
    <3>2. answer = requests /\ ran[answer] = 1 /\ answer \in 1..MaxRequests
      BY <1>1, <3>1 DEF HostFits
    <3> QED
      BY <1>5, <1>7, <3>2
  <2> QED
    BY <1>1, <1>4, <2>1, <2>2 DEF HostFits
<1>11. ResendsUnrun'
  <2>1. SUFFICES ASSUME hid.pc = "init", hid.resent
                 PROVE  /\ ran'[requests] = 0
                        /\ \A n \in working' : n.channel # Broadcast => n.number # requests
    BY <1>4 DEF ResendsUnrun
  <2>2. /\ requests \in 1..MaxRequests /\ ran[requests] = 0 /\ m.number # requests
    BY <1>1, <1>2, <2>1 DEF HostFits, ResendsUnrun
  <2> QED
    BY <1>1, <1>7, <1>8, <2>1, <2>2 DEF ResendsUnrun
<1>12. ASSUME NEW channel, NoMessageOn(channel)
       PROVE  NoMessageOn(channel)' /\ m.channel # channel
  BY <1>2, <1>8, <1>12 DEF NoMessageOn
<1>13. hid.pc = "wait" => /\ hid.io /\ requests \in 1..MaxRequests /\ hid.channel \in 1..channels
                          /\ hid.channel # Broadcast
                          /\ (m.channel = hid.channel <=> m.number = requests)
                          /\ \A n \in working' : n.channel # Broadcast =>
                                 (n.channel = hid.channel <=> n.number = requests)
  BY <1>1, <1>2, <1>8 DEF HostFits, OneAnswerAwaited
<1> HIDE DEF report
<1>14. CASE ~(hid.io \/ hid.pc = "init")
  <2>1. reports' = reports /\ hid.pc = "idle" /\ ~hid.io
    BY <1>1, <1>4, <1>13, <1>14
  <2>2. HidShape'
    BY <1>1, <1>4, <1>7, <1>8, <2>1 DEF HidShape, HidTypeOK
  <2>3. ReportsFit'
    BY <1>1, <1>4, <2>1 DEF ReportsFit, ReportFits
  <2> QED
    BY <1>4, <1>9, <1>10, <1>11, <2>1, <2>2, <2>3 DEF HidInv, QuietWhenIdle,
       OneAnswerAwaited, FreshChannel
<1>15. CASE hid.io \/ hid.pc = "init"
  <2>1. reports' = Append(reports, report) /\ reports \in Seq(HidReports)
    BY <1>1, <1>4, <1>15 DEF HidShape
  <2>2. /\ reports' \in Seq(HidReports) /\ Len(reports') = Len(reports) + 1
        /\ reports'[Len(reports) + 1] = report
        /\ \A i \in 1..Len(reports) : reports'[i] = reports[i]
        /\ \A i \in 1..Len(reports') : i \in 1..Len(reports) \/ i = Len(reports) + 1
    BY <1>6, <2>1, ReportsAppend
  <2>3. HidShape'
    <3>1. Len(reports') <= MaxReports /\ working' \subseteq working
      BY <1>1, <1>2, <1>4, <2>2
    <3> QED
      BY <1>1, <1>4, <1>7, <2>2, <3>1 DEF HidShape, HidTypeOK
  <2>4. \A i \in 1..Len(reports') : \/ i \in 1..Len(reports) /\ reports'[i] = reports[i]
                                    \/ i = Len(reports) + 1 /\ reports'[i] = report
    BY <2>2
  <2>5. ReportsFit'
    <3>1. SUFFICES ASSUME NEW i \in 1..Len(reports')
                   PROVE  ReportFits(reports[i])'
      BY DEF ReportsFit
    <3>2. CASE i \in 1..Len(reports) /\ reports'[i] = reports[i]
      BY <1>1, <1>4, <3>2 DEF ReportsFit, ReportFits
    <3>3. CASE reports'[i] = report
      BY <1>3, <1>4, <1>5, <1>6, <3>3 DEF ReportFits
    <3> QED
      BY <2>4, <3>2, <3>3
  <2>6. QuietWhenIdle'
    <3>1. SUFFICES ASSUME hid.pc = "idle", hid.io
                   PROVE  NoMessageOn(hid.channel)' /\ NoReportOn(hid.channel)'
      BY <1>4 DEF QuietWhenIdle
    <3>2. NoMessageOn(hid.channel) /\ NoReportOn(hid.channel)
      BY <1>1, <3>1 DEF QuietWhenIdle
    <3>3. PICK channel : channel = hid.channel
      OBVIOUS
    <3>4. NoMessageOn(channel)' /\ m.channel # channel
      BY <1>12, <3>2, <3>3
    <3>5. NoReportOn(channel)'
      BY <1>6, <2>4, <3>2, <3>3, <3>4 DEF NoReportOn
    <3> QED
      BY <1>4, <3>3, <3>4, <3>5 DEF NoMessageOn, NoReportOn
  <2>7. OneAnswerAwaited'
    <3>1. SUFFICES ASSUME hid.pc = "wait",
                          NEW i \in 1..Len(reports'), reports'[i].channel = hid.channel
                   PROVE  /\ \A n \in working' : n.channel # hid.channel
                          /\ reports'[i].number = requests
                          /\ ran'[requests] = (IF reports'[i].kind = "answer" THEN 1 ELSE 0)
                          /\ \A j \in 1..Len(reports') : reports'[j].channel = hid.channel => i = j
      BY <1>4, <1>13 DEF OneAnswerAwaited, NoMessageOn
    <3>2. CASE m.channel = hid.channel
      <4>1. NoReportOn(hid.channel)
        BY <1>1, <3>1, <3>2 DEF OneAnswerAwaited, NoMessageOn, NoReportOn
      <4>2. \A j \in 1..Len(reports') : reports'[j].channel = hid.channel =>
                j = Len(reports) + 1 /\ reports'[j] = report
        BY <2>4, <4>1 DEF NoReportOn
      <4>3. m.number = requests
        BY <1>13, <3>1, <3>2
      <4>4. \A n \in working' : n.channel # hid.channel
        BY <1>8, <1>13, <3>1, <4>3
      <4> QED
        BY <1>6, <1>7, <3>1, <4>2, <4>3, <4>4
    <3>3. CASE m.channel # hid.channel
      <4>1. \A j \in 1..Len(reports') : reports'[j].channel = hid.channel =>
                j \in 1..Len(reports) /\ reports'[j] = reports[j]
        BY <1>6, <2>4, <3>3
      <4>2. i \in 1..Len(reports) /\ reports'[i] = reports[i]
        BY <3>1, <4>1
      <4>3. /\ NoMessageOn(hid.channel) /\ reports[i].number = requests
            /\ ran[requests] = (IF reports[i].kind = "answer" THEN 1 ELSE 0)
            /\ \A j \in 1..Len(reports) : reports[j].channel = hid.channel => i = j
        BY <1>1, <3>1, <4>2 DEF OneAnswerAwaited
      <4>4. ran'[requests] = ran[requests]
        BY <1>7, <1>13, <3>1, <3>3
      <4> QED
        BY <1>8, <4>1, <4>2, <4>3, <4>4 DEF NoMessageOn
    <3> QED
      BY <3>2, <3>3
  <2>8. FreshChannel'
    <3>1. SUFFICES ASSUME hid.pc = "init", NEW i \in 1..Len(reports'),
                          reports'[i].channel = Broadcast, reports'[i].number = inits
                   PROVE  /\ \A n \in working' : n.channel # reports'[i].new
                          /\ \A j \in 1..Len(reports') : reports'[j].channel # reports'[i].new
      BY <1>4 DEF FreshChannel, NoMessageOn, NoReportOn
    <3>2. i \in 1..Len(reports) /\ reports'[i] = reports[i]
      BY <1>2, <1>6, <2>4, <3>1
    <3>3. NoMessageOn(reports[i].new) /\ NoReportOn(reports[i].new)
      BY <1>1, <3>1, <3>2 DEF FreshChannel
    <3> QED
      BY <1>2, <1>6, <1>8, <2>4, <3>2, <3>3 DEF NoMessageOn, NoReportOn
  <2> QED
    BY <1>9, <1>10, <1>11, <2>3, <2>5, <2>6, <2>7, <2>8 DEF HidInv
<1> QED
  BY <1>14, <1>15

\* A forgotten channel changes what the device will answer, not what was sent.
LEMMA ForgetsKeeps ==
    ASSUME HidInv, Forgets
    PROVE  HidInv'
<1>1. /\ known' \subseteq known
      /\ UNCHANGED <<hid, reports, theirs, channels, inits, working, requests, ran, answer>>
  BY DEF Forgets
<1>2. HidShape'
  BY <1>1 DEF HidInv, HidShape, HidTypeOK
<1> QED
  BY <1>1, <1>2 DEF HidInv, MessagesFit, MessageFits, ReportsFit, ReportFits, HostFits,
     QuietWhenIdle, OneAnswerAwaited, FreshChannel, ResendsUnrun, NoMessageOn, NoReportOn

\* A step that changes nothing keeps the invariant.
LEMMA HidStutterKeeps ==
    ASSUME HidInv, UNCHANGED hidVars
    PROVE  HidInv'
  BY DEF hidVars, HidInv, HidShape, HidTypeOK, MessagesFit, MessageFits, ReportsFit, ReportFits,
     HostFits, QuietWhenIdle, OneAnswerAwaited, FreshChannel, ResendsUnrun, NoMessageOn, NoReportOn

(***************************************************************************)
(* The theorems                                                            *)
(***************************************************************************)
\* The invariant holds throughout: every message and report of the transport is
\* accounted for.
THEOREM HidInvariance == HidSpec => []HidInv
<1>1. ASSUME HidInv, [HidNext]_hidVars
      PROVE  HidInv'
  BY <1>1, ReconnectKeeps, TransactKeeps, InitializedKeeps, AnsweredKeeps, InvalidChannelKeeps,
     IgnoredKeeps, HidFailsKeeps, InitializesKeeps, DeviceAnswersKeeps, ForgetsKeeps,
     HidStutterKeeps DEF HidNext
<1> QED
  BY HidInitial, <1>1, PTL DEF HidSpec

\* For any number of requests, channels, time-outs and INITs of another program, what
\* transact returns is the answer to its own request, on a channel of its own.
THEOREM AnswersAreOwn == HidSpec => []OwnAnswer
<1>1. HidInv => OwnAnswer
  BY DEF HidInv, HostFits, OwnAnswer
<1> QED
  BY HidInvariance, <1>1, PTL

\* The second try after a refused channel never makes a request run twice, and a
\* request that returned an answer ran.
THEOREM RequestsRunOnce == HidSpec => []RunsOnce
<1>1. HidInv => RunsOnce
  BY DEF HidInv, HostFits, RunsOnce
<1> QED
  BY HidInvariance, <1>1, PTL

-----------------------------------------------------------------------------
(***************************************************************************)
(* The encrypted store of a software slot, for one process:                *)
(* whatever fails, and wherever the power is lost, a header that was       *)
(* acknowledged or is being published is found, the user's PIN opens what  *)
(* is left, and no acknowledged object is lost or comes back.              *)
(*                                                                         *)
(* Two processes can break these properties: one that is logged in writes  *)
(* records under the key of a token that the other has initialised again.  *)
(***************************************************************************)
OneProcess == \A p, q \in Processes : p = q

PinOrNone == Pins \cup {NoPin}
Users == [pin : PinOrNone, public : Nat, private : Nat]
Officers == [pin : PinOrNone, public : Nat]
HeaderFiles == [label : Nat, so : Officers, user : Users]
Directories == [Generations -> HeaderFiles]
RecordFiles == [id : Nat, object : Nat, key : Nat]
DiskContents == [headers : Directories, records : SUBSET RecordFiles]
ObjectPcs == {"put", "putSync", "unlink", "unlinkSync", "refresh", "rollback", "rollbackSync"}
JobKinds == {"none", "init", "user", "so", "create", "update", "destroy"}
Jobs == [kind : JobKinds, header : HeaderFiles, generation : Nat, new : RecordFiles,
         old : RecordFiles, pin : PinOrNone, newPin : PinOrNone]
Slots == [login : {"none", "User", "So"}, public : Nat, private : Nat,
          loaded : SUBSET RecordFiles, job : Jobs,
          pc : {"idle", "delete", "reread", "link", "sync", "sweep"} \cup ObjectPcs]

(***************************************************************************)
(* The parts of the inductive invariant: headers and keys                  *)
(***************************************************************************)
StoreShape ==
    /\ headers \in Directories /\ records \in SUBSET RecordFiles
    /\ disk \in SUBSET DiskContents
    /\ proc \in [Processes -> Slots]
    /\ keys \in Nat /\ written \in Nat

\* The generation of the newest header.
Newest(dir, g) == g \in Present(dir) /\ \A h \in Present(dir) : h <= g

UserFits(user) == user.pin # NoPin => user.private # 0

DirectoryFits(dir) ==
    /\ \A g \in Present(dir) : dir[g].label # 0 /\ UserFits(dir[g].user)
    /\ Present(dir) # {} => \E g \in Generations : Newest(dir, g)

\* What a power loss may leave is a store that the current PINs open.
LeftFits(left) ==
    /\ DirectoryFits(left.headers)
    /\ Current(left.headers) \in acceptable
    /\ \A r \in left.records : r.key # 0 /\ r.key = Current(left.headers).user.private

DiskFits ==
    /\ [headers |-> headers, records |-> records] \in disk
    /\ \A left \in disk : LeftFits(left)

\* The private key of a new header is that of the current one, or nothing is encrypted
\* and no user is logged in.
KeyCarriesOver(slot, user) ==
    \/ user.private = Current(headers).user.private
    \/ records = {} /\ slot.login # "User"

\* What a process knows and prepares.
SlotFits(slot) ==
    /\ slot.login = "User" =>
           slot.private = Current(headers).user.private /\ slot.private # 0
    /\ slot.pc = "delete" =>
           /\ slot.login # "User"
           /\ slot.job.generation = CurrentGeneration(headers) + 1
           /\ slot.job.generation \in Generations
    /\ slot.pc = "reread" =>
           \/ slot.job.kind = "so"
           \/ /\ slot.job.kind = "user"
              /\ UserFits(slot.job.header.user) /\ KeyCarriesOver(slot, slot.job.header.user)
    /\ slot.pc = "link" =>
           /\ slot.job.header.label # 0 /\ UserFits(slot.job.header.user)
           /\ slot.job.generation = CurrentGeneration(headers) + 1
           /\ slot.job.generation \in Generations
           /\ KeyCarriesOver(slot, slot.job.header.user)
    /\ slot.pc \in {"sync", "sweep"} =>
           /\ Newest(headers, slot.job.generation)
           /\ headers[slot.job.generation] = slot.job.header
    /\ slot.pc = "put" => slot.login = "User" /\ slot.job.new.key = slot.private

SlotsFit == \A p \in Processes : SlotFits(proc[p])

StoreInv == StoreShape /\ DiskFits /\ SlotsFit

(***************************************************************************)
(* The parts of the inductive invariant: objects                           *)
(***************************************************************************)
Numbered(r) == r.id <= written /\ r.object <= written

\* A record is left of every object that was acknowledged, and none of one that is gone.
Keeps(files) ==
    /\ \A r \in files : Numbered(r) /\ r.object \notin gone
    /\ \A object \in kept : \E r \in files : r.object = object

\* The new record can be taken back: it is not the only one of its object.
Spare(files, new) == \A object \in kept : \E r \in files : r.object = object /\ r # new

NewFits(slot, new) ==
    /\ Numbered(new) /\ new.object \notin gone
    /\ slot.pc # "unlinkSync" => \A left \in disk : Spare(left.records, new)
    /\ slot.pc = "putSync" => new \in records
    /\ slot.pc \in {"unlink", "refresh"} => \A left \in disk : new \in left.records

OldFits(slot, old) ==
    /\ Numbered(old)
    /\ slot.pc = "unlinkSync" => old \notin records

ObjectJobFits(slot) ==
    LET job == slot.job IN
    /\ job.kind \in {"create", "update"} => NewFits(slot, job.new)
    /\ job.kind \in {"update", "destroy"} => OldFits(slot, job.old)
    /\ job.kind = "update" => job.old # job.new /\ job.old.object = job.new.object
    /\ job.kind = "destroy" => job.old.object \notin kept /\ slot.pc \in {"unlink", "unlinkSync"}
    /\ slot.pc \in {"put", "putSync", "refresh", "rollback", "rollbackSync"} =>
           job.kind \in {"create", "update"}
    /\ slot.pc \in {"unlink", "unlinkSync"} => job.kind \in {"update", "destroy"}

SlotObjectsFit(slot) ==
    /\ \A r \in slot.loaded : Numbered(r) /\ r.object \notin gone
    /\ slot.pc \in ObjectPcs => ObjectJobFits(slot)
    /\ slot.pc = "delete" => kept = {}

DiskKeeps == \A left \in disk : Keeps(left.records)

ObjectsInv ==
    /\ \A object \in gone : object \in Nat /\ object <= written
    /\ DiskKeeps
    /\ \A p \in Processes : SlotObjectsFit(proc[p])

(***************************************************************************)
(* Headers                                                                 *)
(***************************************************************************)
\* The newest header is the current one.
LEMMA NewestIsCurrent ==
    ASSUME NEW dir, NEW g, Newest(dir, g)
    PROVE  CurrentGeneration(dir) = g /\ Current(dir) = dir[g] /\ Present(dir) # {}
<1>1. g \in Present(dir) /\ Present(dir) # {}
  BY DEF Newest
<1>2. Present(dir) \subseteq Nat
  BY StoreAssumption DEF Present, Generations
<1>3. PICK top : top = CHOOSE x \in Present(dir) : \A h \in Present(dir) : h <= x
  OBVIOUS
<1>4. top \in Present(dir) /\ \A h \in Present(dir) : h <= top
  BY <1>1, <1>3 DEF Newest
<1>5. top = g
  BY <1>1, <1>2, <1>4 DEF Newest
<1>6. CurrentGeneration(dir) = g
  BY <1>1, <1>3, <1>5 DEF CurrentGeneration
<1> QED
  BY <1>1, <1>6 DEF Current

\* What current_header_path and read_current_header find.
LEMMA CurrentHeader ==
    ASSUME NEW dir \in Directories, DirectoryFits(dir)
    PROVE  /\ Current(dir) \in HeaderFiles /\ UserFits(Current(dir).user)
           /\ CurrentGeneration(dir) \in Nat
           /\ Present(dir) # {} => Current(dir).label # 0
           /\ Present(dir) = {} => Current(dir) = NoHeader
           /\ \A h \in Present(dir) : h \in Generations /\ h <= CurrentGeneration(dir)
<1>1. CASE Present(dir) = {}
  <2>1. Current(dir) = NoHeader /\ CurrentGeneration(dir) = 0
    BY <1>1 DEF Current, CurrentGeneration
  <2>2. NoHeader \in HeaderFiles /\ UserFits(NoHeader.user)
    BY DEF NoHeader, NoUser, HeaderFiles, Officers, Users, PinOrNone, UserFits
  <2> QED
    BY <1>1, <2>1, <2>2
<1>2. CASE Present(dir) # {}
  <2>1. PICK g \in Generations : Newest(dir, g)
    BY <1>2 DEF DirectoryFits
  <2>2. CurrentGeneration(dir) = g /\ Current(dir) = dir[g]
    BY <2>1, NewestIsCurrent
  <2>3. g \in Nat /\ dir[g] \in HeaderFiles
    BY <2>1, StoreAssumption DEF Generations, Directories
  <2>4. dir[g].label # 0 /\ UserFits(dir[g].user)
    BY <2>1 DEF DirectoryFits, Newest
  <2> QED
    BY <1>2, <2>1, <2>2, <2>3, <2>4 DEF Newest, Present
<1> QED
  BY <1>1, <1>2

\* The values that stand for nothing.
LEMMA StoreConstants ==
    /\ NoHeader \in HeaderFiles /\ NoUser \in Users /\ NoJob \in Jobs /\ Cleared \in Slots
    /\ NoPin \in PinOrNone /\ Pins \subseteq PinOrNone
    /\ NoHeader.label = 0 /\ NoHeader.user = NoUser /\ NoUser.private = 0 /\ NoUser.pin = NoPin
<1>1. NoPin \in PinOrNone /\ Pins \subseteq PinOrNone
  BY DEF PinOrNone
<1>2. NoUser \in Users /\ NoUser.private = 0 /\ NoUser.pin = NoPin
  BY <1>1 DEF NoUser, Users
<1>3. NoHeader \in HeaderFiles /\ NoHeader.label = 0 /\ NoHeader.user = NoUser
  BY <1>1, <1>2 DEF NoHeader, HeaderFiles, Officers
<1>4. NoRecord \in RecordFiles
  BY DEF NoRecord, RecordFiles
<1>5. NoJob \in Jobs
  BY <1>1, <1>3, <1>4 DEF NoJob, Jobs, JobKinds
<1>6. Cleared \in Slots
  BY <1>5 DEF Cleared, Slots, ObjectPcs
<1> QED
  BY <1>1, <1>2, <1>3, <1>5, <1>6

\* The types of what the steps read.
LEMMA StoreTypes ==
    ASSUME StoreInv
    PROVE  /\ headers \in Directories /\ records \in SUBSET RecordFiles
           /\ disk \in SUBSET DiskContents /\ proc \in [Processes -> Slots]
           /\ keys \in Nat /\ written \in Nat
           /\ \A p \in Processes : proc[p] \in Slots /\ proc[p].job \in Jobs /\ SlotFits(proc[p])
           /\ [headers |-> headers, records |-> records] \in disk
           /\ DirectoryFits(headers) /\ Current(headers) \in acceptable
           /\ \A r \in records : r.key # 0 /\ r.key = Current(headers).user.private
           /\ Current(headers) \in HeaderFiles /\ UserFits(Current(headers).user)
           /\ Current(headers).user \in Users /\ Current(headers).so \in Officers
           /\ CurrentGeneration(headers) \in Nat
<1>1. StoreShape /\ DiskFits /\ SlotsFit
  BY DEF StoreInv
<1>2. PICK left : left = [headers |-> headers, records |-> records]
  OBVIOUS
<1>3. left \in disk /\ LeftFits(left) /\ left.headers = headers /\ left.records = records
  BY <1>1, <1>2 DEF DiskFits
<1>4. /\ DirectoryFits(headers) /\ Current(headers) \in acceptable
      /\ \A r \in records : r.key # 0 /\ r.key = Current(headers).user.private
  BY <1>3 DEF LeftFits
<1>5. headers \in Directories
  BY <1>1 DEF StoreShape
<1>6. /\ Current(headers) \in HeaderFiles /\ UserFits(Current(headers).user)
      /\ CurrentGeneration(headers) \in Nat
  BY <1>4, <1>5, CurrentHeader
<1>7. Current(headers).user \in Users /\ Current(headers).so \in Officers
  BY <1>6 DEF HeaderFiles
<1>8. \A p \in Processes : proc[p] \in Slots /\ proc[p].job \in Jobs /\ SlotFits(proc[p])
  BY <1>1 DEF StoreShape, SlotsFit, Slots
<1> QED
  BY <1>1, <1>2, <1>3, <1>4, <1>6, <1>7, <1>8 DEF StoreShape

(***************************************************************************)
(* What a step has to show                                                 *)
(***************************************************************************)
\* The only process changes.
LEMMA SlotChanges ==
    ASSUME OneProcess, proc \in [Processes -> Slots], NEW p \in Processes, NEW slot \in Slots,
           Becomes(p, slot), SlotFits(slot)'
    PROVE  proc' \in [Processes -> Slots] /\ SlotsFit'
<1>1. proc' \in [Processes -> Slots] /\ proc'[p] = slot
  BY DEF Becomes
<1>2. \A q \in Processes : proc'[q] = slot
  BY <1>1 DEF OneProcess
<1> QED
  BY <1>1, <1>2 DEF SlotsFit

\* Steps that leave the files alone.
LEMMA QuietStep ==
    ASSUME OneProcess, StoreInv, NEW p \in Processes, NEW slot \in Slots, Becomes(p, slot),
           UNCHANGED <<headers, records, disk, acceptable>>, keys' \in Nat, written' \in Nat,
           SlotFits(slot)
    PROVE  StoreInv'
<1>1. SlotFits(slot)'
  BY DEF SlotFits, KeyCarriesOver
<1>2. proc' \in [Processes -> Slots] /\ SlotsFit'
  BY <1>1, StoreTypes, SlotChanges
<1>3. StoreShape'
  BY <1>2 DEF StoreInv, StoreShape
<1>4. DiskFits'
  BY DEF StoreInv, DiskFits, LeftFits
<1> QED
  BY <1>2, <1>3, <1>4 DEF StoreInv

\* The new contents of the directories fit, and so do those a power loss may leave.
LEMMA DiskStep ==
    ASSUME StoreInv, headers' \in Directories, records' \in SUBSET RecordFiles,
           (Changes /\ acceptable \subseteq acceptable') \/ Syncs,
           DirectoryFits(headers'), Current(headers') \in acceptable',
           \A r \in records' : r.key # 0 /\ r.key = Current(headers').user.private
    PROVE  disk' \in SUBSET DiskContents /\ DiskFits'
<1>1. PICK now : now = [headers |-> headers', records |-> records']
  OBVIOUS
<1>2. now \in DiskContents /\ now.headers = headers' /\ now.records = records'
  BY <1>1 DEF DiskContents
<1>3. LeftFits(now)'
  BY <1>2 DEF LeftFits
<1>4. CASE Changes /\ acceptable \subseteq acceptable'
  <2>1. disk' = disk \cup {now} /\ acceptable \subseteq acceptable'
    BY <1>1, <1>4 DEF Changes
  <2>2. ASSUME NEW left \in disk PROVE LeftFits(left)'
    BY <2>1 DEF StoreInv, DiskFits, LeftFits
  <2> QED
    BY <1>1, <1>2, <1>3, <2>1, <2>2, StoreTypes DEF DiskFits
<1>5. CASE Syncs
  <2>1. disk' = {now}
    BY <1>1, <1>5 DEF Syncs
  <2> QED
    BY <1>1, <1>2, <1>3, <2>1 DEF DiskFits
<1> QED
  BY <1>4, <1>5

\* Steps that change the records under one header.
LEMMA RecordsStep ==
    ASSUME OneProcess, StoreInv, NEW p \in Processes, NEW slot \in Slots, Becomes(p, slot),
           UNCHANGED <<headers, acceptable, keys, written>>, Changes \/ Syncs,
           records' \in SUBSET RecordFiles,
           \A r \in records' : r.key # 0 /\ r.key = Current(headers).user.private,
           SlotFits(slot), slot.pc \notin {"reread", "link"} \/ records' \subseteq records
    PROVE  StoreInv'
<1> USE StoreTypes
<1>1. SlotFits(slot)'
  BY DEF SlotFits, KeyCarriesOver
<1>2. proc' \in [Processes -> Slots] /\ SlotsFit'
  BY <1>1, SlotChanges
<1>3. disk' \in SUBSET DiskContents /\ DiskFits'
  BY DiskStep
<1>4. StoreShape'
  BY <1>2, <1>3 DEF StoreShape
<1> QED
  BY <1>2, <1>3, <1>4 DEF StoreInv

(***************************************************************************)
(* Steps that leave the files alone                                        *)
(***************************************************************************)
\* A login that succeeds has the private key of the current header.
LEMMA LoginKeeps ==
    ASSUME OneProcess, StoreInv, NEW p \in Processes, NEW pin \in Pins,
           Login(p, pin) \/ LoginSo(p, pin) \/ Logout(p)
    PROVE  StoreInv'
<1> USE StoreTypes, StoreConstants
<1>1. UNCHANGED <<headers, records, disk, acceptable, keys, written>>
  BY DEF Login, LoginSo, Logout, filesVars, ghostVars
<1>2. SlotFits(Cleared)
  BY DEF SlotFits, Cleared
<1>3. CASE Becomes(p, Cleared)
  BY <1>1, <1>2, <1>3, QuietStep
<1>4. CASE Login(p, pin) /\ ~Becomes(p, Cleared)
  <2>1. PICK user \in Users : user = Current(headers).user
    OBVIOUS
  <2>2. /\ user.pin = pin
        /\ Becomes(p, [Cleared EXCEPT !.login = "User", !.public = user.public,
                                      !.private = user.private, !.loaded = records])
    BY <1>4, <2>1 DEF Login
  <2>3. PICK slot : slot = [Cleared EXCEPT !.login = "User", !.public = user.public,
                                           !.private = user.private, !.loaded = records]
    OBVIOUS
  <2>4. slot \in Slots /\ slot.login = "User" /\ slot.private = user.private /\ slot.pc = "idle"
    BY <2>1, <2>3 DEF Slots, Users, Cleared
  <2>5. user.private # 0
    BY <2>1, <2>2, StoreAssumption DEF UserFits
  <2>6. SlotFits(slot)
    BY <2>1, <2>4, <2>5 DEF SlotFits
  <2> QED
    BY <1>1, <2>2, <2>3, <2>4, <2>6, QuietStep
<1>5. CASE LoginSo(p, pin) /\ ~Becomes(p, Cleared)
  <2>1. PICK so \in Officers : so = Current(headers).so
    OBVIOUS
  <2>2. PICK slot : slot = [Cleared EXCEPT !.login = "So", !.public = so.public]
    OBVIOUS
  <2>3. Becomes(p, slot)
    BY <1>5, <2>1, <2>2 DEF LoginSo
  <2>4. slot \in Slots /\ slot.login = "So" /\ slot.pc = "idle"
    BY <2>1, <2>2 DEF Slots, Officers, Cleared
  <2>5. SlotFits(slot)
    BY <2>4 DEF SlotFits
  <2> QED
    BY <1>1, <2>3, <2>4, <2>5, QuietStep
<1> QED
  BY <1>3, <1>4, <1>5 DEF Logout

\* The process returns, or goes on without files or keys at stake.
LEMMA SlotGoes ==
    ASSUME StoreInv, NEW p \in Processes, NEW slot, slot.pc \in {"idle"} \cup (ObjectPcs \ {"put"}),
           slot.login = proc[p].login, slot.private = proc[p].private
    PROVE  SlotFits(slot)
  BY StoreTypes DEF SlotFits, ObjectPcs

\* A token is initialised by a process without a login.
LEMMA InitTokenKeeps ==
    ASSUME OneProcess, StoreInv, NEW p \in Processes, NEW pin \in Pins, InitToken(p, pin)
    PROVE  StoreInv'
<1> USE StoreTypes, StoreConstants
<1>1. UNCHANGED <<headers, records, disk, acceptable, keys, written>>
  BY DEF InitToken, filesVars
<1>2. PICK generation \in Nat : generation = CurrentGeneration(headers) + 1
  OBVIOUS
<1>3. generation \in Generations
  BY <1>2, StoreAssumption DEF InitToken, Generations
<1>4. PICK job : job = [NoJob EXCEPT !.kind = "init", !.pin = pin, !.generation = generation]
  OBVIOUS
<1>5. job \in Jobs /\ job.generation = generation
  BY <1>4 DEF Jobs, JobKinds
<1>6. PICK slot : slot = [proc[p] EXCEPT !.pc = "delete", !.job = job]
  OBVIOUS
<1>7. slot \in Slots /\ slot.pc = "delete" /\ slot.job = job /\ slot.login = "none"
  BY <1>5, <1>6 DEF Slots, InitToken
<1>8. SlotFits(slot)
  BY <1>2, <1>3, <1>5, <1>7 DEF SlotFits
<1>9. Becomes(p, slot)
  BY <1>2, <1>4, <1>6 DEF InitToken, Starts
<1> QED
  BY <1>1, <1>7, <1>8, <1>9, QuietStep

\* The header of the initialised token has a new key, and nothing is encrypted.
LEMMA FreshHeaderKeeps ==
    ASSUME OneProcess, StoreInv, NEW p \in Processes, FreshHeader(p)
    PROVE  StoreInv'
<1> USE StoreTypes, StoreConstants
<1>1. /\ UNCHANGED <<headers, records, disk, acceptable, written>> /\ keys' = keys + 1
      /\ records = {} /\ proc[p].pc = "delete"
  BY DEF FreshHeader, filesVars, ghostVars, Steps
<1>2. PICK header : header = [label |-> keys', so |-> [pin |-> proc[p].job.pin, public |-> keys'],
                              user |-> NoUser]
  OBVIOUS
<1>3. header \in HeaderFiles /\ header.label # 0 /\ header.user = NoUser
  <2>1. keys' \in Nat /\ keys' # 0 /\ proc[p].job.pin \in PinOrNone
    BY <1>1 DEF Jobs
  <2>2. [pin |-> proc[p].job.pin, public |-> keys'] \in Officers
    BY <2>1 DEF Officers
  <2> QED
    BY <1>2, <2>1, <2>2 DEF HeaderFiles
<1>4. PICK job : job = [proc[p].job EXCEPT !.header = header]
  OBVIOUS
<1>5. job \in Jobs /\ job.header = header /\ job.generation = proc[p].job.generation
  BY <1>3, <1>4 DEF Jobs
<1>6. PICK slot : slot = [proc[p] EXCEPT !.pc = "link", !.job = job]
  OBVIOUS
<1>7. slot \in Slots /\ slot.pc = "link" /\ slot.job = job /\ slot.login = proc[p].login
  BY <1>5, <1>6 DEF Slots
<1>8. /\ proc[p].login # "User" /\ job.generation = CurrentGeneration(headers) + 1
      /\ job.generation \in Generations
  BY <1>1, <1>5 DEF SlotFits
<1>9. SlotFits(slot)
  BY <1>1, <1>3, <1>5, <1>7, <1>8 DEF SlotFits, KeyCarriesOver, UserFits
<1>10. slot = [proc[p] EXCEPT !.pc = "link", !.job.header = header]
  BY <1>4, <1>6 DEF Slots
<1>11. Becomes(p, slot)
  BY <1>2, <1>10 DEF FreshHeader
<1> QED
  BY <1>1, <1>7, <1>9, <1>11, QuietStep

\* The wrappers of a PIN change hold the key of the current header, those of a first
\* user PIN a new one while nothing is encrypted yet.
LEMMA ChangePinKeeps ==
    ASSUME OneProcess, StoreInv, NEW p \in Processes, NEW pin \in Pins, NEW newPin \in Pins,
           ChangePin(p, pin, newPin) \/ ChangeSoPin(p, pin, newPin) \/ InitUserPin(p, newPin)
    PROVE  StoreInv'
<1> USE StoreTypes, StoreConstants
<1>1. UNCHANGED <<headers, records, disk, acceptable, written>> /\ keys' \in Nat
  BY DEF ChangePin, ChangeSoPin, InitUserPin, filesVars, ghostVars
<1>2. ASSUME NEW job \in Jobs, Starts(p, "reread", job),
             \/ job.kind = "so"
             \/ /\ job.kind = "user"
                /\ UserFits(job.header.user) /\ KeyCarriesOver(proc[p], job.header.user)
      PROVE  StoreInv'
  <2>1. PICK slot : slot = [proc[p] EXCEPT !.pc = "reread", !.job = job]
    OBVIOUS
  <2>2. /\ slot \in Slots /\ slot.pc = "reread" /\ slot.job = job
        /\ slot.login = proc[p].login /\ slot.private = proc[p].private
    BY <2>1 DEF Slots
  <2>3. SlotFits(slot)
    BY <1>2, <2>2 DEF SlotFits, KeyCarriesOver
  <2>4. Becomes(p, slot)
    BY <1>2, <2>1 DEF Starts
  <2> QED
    BY <1>1, <2>2, <2>3, <2>4, QuietStep
<1>3. ASSUME NEW user \in Users
      PROVE  \E job \in Jobs : /\ job = [NoJob EXCEPT !.kind = "user", !.header.user = user]
                               /\ job.kind = "user" /\ job.header.user = user
  <2>1. PICK header \in HeaderFiles : header = [NoHeader EXCEPT !.user = user]
    BY DEF HeaderFiles
  <2>5. header.user = user
    BY <2>1 DEF NoHeader
  <2>2. PICK job : job = [NoJob EXCEPT !.kind = "user", !.header = header]
    OBVIOUS
  <2>3. job \in Jobs /\ job.kind = "user" /\ job.header = header
    BY <2>2 DEF Jobs, JobKinds
  <2>4. job = [NoJob EXCEPT !.kind = "user", !.header.user = user]
    BY <2>1, <2>2 DEF NoJob
  <2> QED
    BY <2>3, <2>4, <2>5
<1>4. CASE ChangePin(p, pin, newPin)
  <2>1. PICK user \in Users : user = [Current(headers).user EXCEPT !.pin = newPin]
    BY DEF Users
  <2>2. user.private = Current(headers).user.private
    BY <2>1 DEF Users
  <2>3. user.private # 0
    BY <1>4, <2>2, StoreAssumption DEF ChangePin, UserFits
  <2>4. PICK job \in Jobs : /\ job = [NoJob EXCEPT !.kind = "user", !.header.user = user]
                            /\ job.kind = "user" /\ job.header.user = user
    BY <1>3
  <2>5. Starts(p, "reread", job)
    BY <1>4, <2>1, <2>4 DEF ChangePin
  <2> QED
    BY <1>2, <2>2, <2>3, <2>4, <2>5 DEF UserFits, KeyCarriesOver
<1>5. CASE InitUserPin(p, newPin)
  <2>1. /\ Current(headers).user = NoUser /\ keys' = keys + 1 /\ proc[p].login = "So"
        /\ Starts(p, "reread", [NoJob EXCEPT !.kind = "user", !.header.user =
                  [pin |-> newPin, public |-> proc[p].public, private |-> keys']])
    BY <1>5 DEF InitUserPin
  <2>2. PICK user \in Users : user = [pin |-> newPin, public |-> proc[p].public, private |-> keys']
    <3>1. proc[p].public \in Nat /\ keys' \in Nat /\ newPin \in PinOrNone
      BY <1>1 DEF Slots
    <3> QED
      BY <3>1 DEF Users
  <2>3. user.private # 0
    BY <2>1, <2>2
  <2>4. records = {}
    BY <2>1
  <2>5. PICK job \in Jobs : /\ job = [NoJob EXCEPT !.kind = "user", !.header.user = user]
                            /\ job.kind = "user" /\ job.header.user = user
    BY <1>3
  <2>6. Starts(p, "reread", job)
    BY <2>1, <2>2, <2>5
  <2> QED
    BY <1>2, <2>1, <2>3, <2>4, <2>5, <2>6 DEF UserFits, KeyCarriesOver
<1>6. CASE ChangeSoPin(p, pin, newPin)
  <2>1. PICK so \in Officers : so = [Current(headers).so EXCEPT !.pin = newPin]
    BY DEF Officers
  <2>2. PICK header \in HeaderFiles : header = [NoHeader EXCEPT !.so = so]
    BY DEF HeaderFiles
  <2>3. PICK job : job = [NoJob EXCEPT !.kind = "so", !.header = header]
    OBVIOUS
  <2>4. job \in Jobs /\ job.kind = "so"
    BY <2>3 DEF Jobs, JobKinds
  <2>5. job = [NoJob EXCEPT !.kind = "so", !.header.so = so]
    BY <2>2, <2>3 DEF NoJob
  <2>6. Starts(p, "reread", job)
    BY <1>6, <2>1, <2>5 DEF ChangeSoPin
  <2> QED
    BY <1>2, <2>4, <2>6
<1> QED
  BY <1>4, <1>5, <1>6

\* The new header keeps what it does not replace.
LEMMA ReplacementHeaderKeeps ==
    ASSUME OneProcess, StoreInv, NEW p \in Processes, ReplacementHeader(p)
    PROVE  StoreInv'
<1> USE StoreTypes, StoreConstants
<1>1. /\ UNCHANGED <<headers, records, disk, acceptable, keys, written>>
      /\ proc[p].pc = "reread" /\ Present(headers) # {}
      /\ CurrentGeneration(headers) < MaxGeneration
  BY DEF ReplacementHeader, filesVars, ghostVars, Steps
<1>2. PICK now \in HeaderFiles : now = Current(headers)
  OBVIOUS
<1>3. now.label # 0 /\ UserFits(now.user) /\ now.user = Current(headers).user
  BY <1>1, <1>2, CurrentHeader
<1>4. PICK header : header = IF proc[p].job.kind = "so"
                             THEN [now EXCEPT !.so = proc[p].job.header.so]
                             ELSE [now EXCEPT !.user = proc[p].job.header.user]
  OBVIOUS
<1>5. /\ header \in HeaderFiles /\ header.label # 0
      /\ header.user = IF proc[p].job.kind = "so" THEN now.user ELSE proc[p].job.header.user
  BY <1>2, <1>3, <1>4 DEF HeaderFiles, Jobs
<1>6. /\ UserFits(header.user) /\ KeyCarriesOver(proc[p], header.user)
  BY <1>1, <1>3, <1>5 DEF SlotFits, KeyCarriesOver
<1>7. PICK generation \in Nat : generation = CurrentGeneration(headers) + 1
  OBVIOUS
<1>8. generation \in Generations
  BY <1>1, <1>7, StoreAssumption DEF Generations
<1>9. PICK job : job = [proc[p].job EXCEPT !.generation = generation, !.header = header]
  OBVIOUS
<1>10. job \in Jobs /\ job.header = header /\ job.generation = generation
  BY <1>5, <1>9 DEF Jobs
<1>11. PICK slot : slot = [proc[p] EXCEPT !.pc = "link", !.job = job]
  OBVIOUS
<1>12. /\ slot \in Slots /\ slot.pc = "link" /\ slot.job = job /\ slot.login = proc[p].login
       /\ slot.private = proc[p].private
  BY <1>10, <1>11 DEF Slots
<1>13. SlotFits(slot)
  BY <1>5, <1>6, <1>7, <1>8, <1>10, <1>12 DEF SlotFits, KeyCarriesOver
<1>14. slot = [proc[p] EXCEPT !.pc = "link", !.job.generation = generation, !.job.header = header]
  BY <1>9, <1>11 DEF Slots
<1>15. Becomes(p, slot)
  BY <1>2, <1>4, <1>7, <1>14 DEF ReplacementHeader
<1> QED
  BY <1>1, <1>12, <1>13, <1>15, QuietStep

\* An operation on an object begins under the key of the login.
LEMMA ObjectBegins ==
    ASSUME OneProcess, StoreInv, NEW p \in Processes,
           \/ CreateObject(p)
           \/ \E r \in proc[p].loaded : UpdateObject(p, r) \/ DestroyObject(p, r)
    PROVE  StoreInv'
<1> USE StoreTypes, StoreConstants
<1>1. /\ UNCHANGED <<headers, records, disk, acceptable, keys>>
      /\ written' = written \/ written' = written + 1
      /\ proc[p].login = "User"
  <2> HIDE StoreTypes, StoreConstants
  <2>1. CASE CreateObject(p)
    BY <2>1 DEF CreateObject, filesVars, ghostVars, UserReady
  <2>2. ASSUME NEW r, UpdateObject(p, r)
        PROVE  /\ UNCHANGED <<headers, records, disk, acceptable, keys>>
               /\ written' = written + 1 /\ proc[p].login = "User"
    BY <2>2 DEF UpdateObject, filesVars, ghostVars, UserReady
  <2>3. ASSUME NEW r, DestroyObject(p, r)
        PROVE  /\ UNCHANGED <<headers, records, disk, acceptable, keys, written>>
               /\ proc[p].login = "User"
    BY <2>3 DEF DestroyObject, filesVars, UserReady
  <2> QED
    BY <2>1, <2>2, <2>3
<1>9. written' \in Nat
  BY <1>1
<1>2. ASSUME NEW object \in Nat
      PROVE  NewRecord(p, object) \in RecordFiles /\ NewRecord(p, object).key = proc[p].private
  BY DEF NewRecord, RecordFiles, Slots
<1>3. \E job \in Jobs, pc \in {"put", "unlink"} :
          Starts(p, pc, job) /\ (pc = "put" => job.new.key = proc[p].private)
  <2>1. CASE CreateObject(p)
    <3>1. PICK new \in RecordFiles : new = NewRecord(p, written + 1) /\ new.key = proc[p].private
      BY <1>2
    <3>2. PICK job : job = [NoJob EXCEPT !.kind = "create", !.new = new]
      OBVIOUS
    <3>3. job \in Jobs /\ job.new = new
      BY <3>2 DEF Jobs, JobKinds
    <3> QED
      BY <2>1, <3>1, <3>2, <3>3 DEF CreateObject
  <2>2. ASSUME NEW r \in proc[p].loaded, UpdateObject(p, r)
        PROVE  \E job \in Jobs : Starts(p, "put", job) /\ job.new.key = proc[p].private
    <3>1. r \in RecordFiles /\ r.object \in Nat
      BY DEF Slots, RecordFiles
    <3>2. PICK new \in RecordFiles : new = NewRecord(p, r.object) /\ new.key = proc[p].private
      BY <1>2, <3>1
    <3>3. PICK job : job = [NoJob EXCEPT !.kind = "update", !.old = r, !.new = new]
      OBVIOUS
    <3>4. job \in Jobs /\ job.new = new
      BY <3>1, <3>3 DEF Jobs, JobKinds
    <3> QED
      BY <2>2, <3>2, <3>3, <3>4 DEF UpdateObject
  <2>3. ASSUME NEW r \in proc[p].loaded, DestroyObject(p, r)
        PROVE  \E job \in Jobs : Starts(p, "unlink", job)
    <3>1. r \in RecordFiles
      BY DEF Slots
    <3>2. PICK job : job = [NoJob EXCEPT !.kind = "destroy", !.old = r]
      OBVIOUS
    <3>3. job \in Jobs
      BY <3>1, <3>2 DEF Jobs, JobKinds
    <3> QED
      BY <2>3, <3>2, <3>3 DEF DestroyObject
  <2> QED
    BY <2>1, <2>2, <2>3
<1>4. PICK job \in Jobs, pc \in {"put", "unlink"} :
          Starts(p, pc, job) /\ (pc = "put" => job.new.key = proc[p].private)
  BY <1>3
<1>5. PICK slot : slot = [proc[p] EXCEPT !.pc = pc, !.job = job]
  OBVIOUS
<1>6. /\ slot \in Slots /\ slot.pc = pc /\ slot.job = job /\ slot.login = proc[p].login
      /\ slot.private = proc[p].private
  BY <1>5 DEF Slots, ObjectPcs
<1>7. SlotFits(slot)
  BY <1>1, <1>4, <1>6 DEF SlotFits
<1>8. Becomes(p, slot)
  BY <1>4, <1>5 DEF Starts
<1> QED
  BY <1>1, <1>6, <1>7, <1>8, <1>9, QuietStep

\* Acknowledgements, errors and the death of the process.
LEMMA ReturnsKeeps ==
    ASSUME OneProcess, StoreInv, NEW p \in Processes, Created(p) \/ IoError(p) \/ Crash(p)
    PROVE  StoreInv'
<1> USE StoreTypes, StoreConstants
<1>1. UNCHANGED <<headers, records, disk, acceptable, keys, written>>
  BY DEF Created, IoError, Crash, Fault, filesVars
<1>2. CASE Crash(p)
  <2>1. SlotFits(Cleared)
    BY DEF SlotFits, Cleared
  <2> QED
    BY <1>1, <1>2, <2>1, QuietStep DEF Crash
<1>3. CASE ~Crash(p)
  <2>1. Returns(p) \/ Goes(p, "rollback")
    BY <1>3 DEF Created, IoError
  <2>2. \E slot \in Slots : Becomes(p, slot) /\ SlotFits(slot)
    <3>1. CASE Returns(p)
      <4>1. PICK slot : slot = [proc[p] EXCEPT !.pc = "idle", !.job = NoJob]
        OBVIOUS
      <4>2. /\ slot \in Slots /\ slot.pc = "idle" /\ slot.login = proc[p].login
            /\ slot.private = proc[p].private
        BY <4>1 DEF Slots
      <4> QED
        BY <3>1, <4>1, <4>2, SlotGoes DEF Returns
    <3>2. CASE Goes(p, "rollback")
      <4>1. PICK slot : slot = [proc[p] EXCEPT !.pc = "rollback"]
        OBVIOUS
      <4>2. /\ slot \in Slots /\ slot.pc = "rollback" /\ slot.login = proc[p].login
            /\ slot.private = proc[p].private
        BY <4>1 DEF Slots, ObjectPcs
      <4> QED
        BY <3>2, <4>1, <4>2, SlotGoes DEF Goes, ObjectPcs
    <3> QED
      BY <2>1, <3>1, <3>2
  <2> QED
    BY <1>1, <2>2, QuietStep
<1> QED
  BY <1>2, <1>3

(***************************************************************************)
(* Steps that change the records                                           *)
(***************************************************************************)
\* A process goes from one file operation on records to the next, or returns.
LEMMA ObjectGoes ==
    ASSUME OneProcess, StoreInv, NEW p \in Processes, NEW pc \in {"idle"} \cup (ObjectPcs \ {"put"}),
           NEW loaded \in SUBSET RecordFiles, NEW job \in Jobs,
           Becomes(p, [proc[p] EXCEPT !.loaded = loaded, !.pc = pc, !.job = job]),
           UNCHANGED <<headers, acceptable, keys, written>>, Changes \/ Syncs,
           records' \in SUBSET RecordFiles,
           \A r \in records' : r.key # 0 /\ r.key = Current(headers).user.private
    PROVE  StoreInv'
<1>1. PICK slot : slot = [proc[p] EXCEPT !.loaded = loaded, !.pc = pc, !.job = job]
  OBVIOUS
<1>2. /\ slot \in Slots /\ slot.pc = pc /\ slot.login = proc[p].login
      /\ slot.private = proc[p].private
  BY <1>1, StoreTypes DEF Slots
<1>3. SlotFits(slot) /\ slot.pc \notin {"reread", "link"}
  BY <1>2, SlotGoes DEF ObjectPcs
<1> QED
  BY <1>1, <1>2, <1>3, RecordsStep

\* The parts of a slot that a step does not name stay.
LEMMA SlotUpdates ==
    ASSUME NEW slot \in Slots, NEW pc, NEW loaded, NEW job
    PROVE  /\ slot.loaded \in SUBSET RecordFiles /\ slot.job \in Jobs
           /\ [slot EXCEPT !.pc = pc] =
                  [slot EXCEPT !.loaded = slot.loaded, !.pc = pc, !.job = slot.job]
           /\ [slot EXCEPT !.pc = pc, !.job = job] =
                  [slot EXCEPT !.loaded = slot.loaded, !.pc = pc, !.job = job]
           /\ [slot EXCEPT !.loaded = loaded, !.pc = pc] =
                  [slot EXCEPT !.loaded = loaded, !.pc = pc, !.job = slot.job]
  BY DEF Slots

\* A record is written under the key of the login.
LEMMA PutRecordKeeps ==
    ASSUME OneProcess, StoreInv, NEW p \in Processes, PutRecord(p)
    PROVE  StoreInv'
<1>1. PICK new : new = proc[p].job.new
  OBVIOUS
<1>2. /\ records' = records \cup {new} /\ UNCHANGED <<headers, acceptable, keys, written>>
      /\ Changes /\ proc[p].pc = "put" /\ Goes(p, "putSync")
  BY <1>1 DEF PutRecord, ghostVars, Steps
<1>3. new \in RecordFiles /\ new.key # 0 /\ new.key = Current(headers).user.private
  BY <1>1, <1>2, StoreTypes DEF Jobs, SlotFits
<1>4. /\ records' \in SUBSET RecordFiles
      /\ \A r \in records' : r.key # 0 /\ r.key = Current(headers).user.private
  <2>1. /\ records \in SUBSET RecordFiles
        /\ \A r \in records : r.key # 0 /\ r.key = Current(headers).user.private
    BY StoreTypes, SMTT(30)
  <2> QED
    BY <1>2, <1>3, <2>1
<1>5. /\ proc[p].loaded \in SUBSET RecordFiles /\ proc[p].job \in Jobs
      /\ Becomes(p, [proc[p] EXCEPT !.loaded = proc[p].loaded, !.pc = "putSync",
                                    !.job = proc[p].job])
  BY <1>2, StoreTypes, SlotUpdates DEF Goes
<1>6. "putSync" \in {"idle"} \cup (ObjectPcs \ {"put"})
  BY DEF ObjectPcs
<1> QED
  BY <1>2, <1>4, <1>5, <1>6, ObjectGoes

\* The sync of a record that was put, and the steps of a destruction.
LEMMA RecordStepsKeep ==
    ASSUME OneProcess, StoreInv, NEW p \in Processes,
           SyncRecord(p) \/ UnlinkRecord(p) \/ Unlinked(p) \/ Rollback(p) \/ RolledBack(p)
    PROVE  StoreInv'
<1>1. /\ records' \subseteq records /\ UNCHANGED <<headers, acceptable, keys, written>>
      /\ Changes \/ Syncs
  BY DEF SyncRecord, UnlinkRecord, Unlinked, Rollback, RolledBack, ghostVars
<1>2. /\ records' \in SUBSET RecordFiles
      /\ \A r \in records' : r.key # 0 /\ r.key = Current(headers).user.private
  BY <1>1, StoreTypes
<1>3. PICK slot \in Slots : slot = proc[p]
  BY StoreTypes
<1>4. /\ slot.loaded \in SUBSET RecordFiles /\ slot.job \in Jobs /\ NoJob \in Jobs
      /\ slot.job.new \in RecordFiles
  BY StoreConstants, SMTT(30) DEF Slots, Jobs
<1>5. \E pc \in {"idle"} \cup (ObjectPcs \ {"put"}), loaded \in SUBSET RecordFiles, job \in Jobs :
          Becomes(p, [slot EXCEPT !.loaded = loaded, !.pc = pc, !.job = job])
  <2>1. ASSUME NEW pc \in {"idle"} \cup (ObjectPcs \ {"put"}), Goes(p, pc)
        PROVE  Becomes(p, [slot EXCEPT !.loaded = slot.loaded, !.pc = pc, !.job = slot.job])
    BY <1>3, <2>1, SlotUpdates DEF Goes
  <2>2. CASE SyncRecord(p)
    <3>1. PICK pc, loaded :
              /\ pc = IF slot.job.kind = "create" THEN "refresh" ELSE "unlink"
              /\ loaded = slot.loaded \cup {slot.job.new}
      OBVIOUS
    <3>2. Becomes(p, [slot EXCEPT !.loaded = loaded, !.pc = pc])
      BY <1>3, <2>2, <3>1 DEF SyncRecord
    <3>3. pc \in {"idle"} \cup (ObjectPcs \ {"put"}) /\ loaded \in SUBSET RecordFiles
      BY <1>4, <3>1 DEF ObjectPcs
    <3>4. Becomes(p, [slot EXCEPT !.loaded = loaded, !.pc = pc, !.job = slot.job])
      BY <3>2, SlotUpdates
    <3> QED
      BY <1>4, <3>3, <3>4
  <2>3. CASE UnlinkRecord(p)
    <3>1. Goes(p, "unlinkSync") \/ Goes(p, "rollback") \/ Returns(p)
      BY <2>3 DEF UnlinkRecord
    <3>2. /\ "unlinkSync" \in {"idle"} \cup (ObjectPcs \ {"put"})
          /\ "rollback" \in {"idle"} \cup (ObjectPcs \ {"put"})
          /\ "idle" \in {"idle"} \cup (ObjectPcs \ {"put"})
      BY DEF ObjectPcs
    <3>3. CASE Returns(p)
      <4>1. Becomes(p, [slot EXCEPT !.pc = "idle", !.job = NoJob])
        BY <1>3, <3>3, SMTT(30) DEF Returns
      <4>2. Becomes(p, [slot EXCEPT !.loaded = slot.loaded, !.pc = "idle", !.job = NoJob])
        BY <4>1, SlotUpdates, ZenonT(30)
      <4> QED
        BY <1>4, <3>2, <4>2, Zenon
    <3> QED
      BY <1>4, <2>1, <3>1, <3>2, <3>3
  <2>4. CASE Unlinked(p) \/ RolledBack(p)
    <3>1. PICK loaded \in SUBSET RecordFiles :
              Becomes(p, [slot EXCEPT !.loaded = loaded, !.pc = "idle", !.job = NoJob])
      BY <1>3, <1>4, <2>4 DEF Unlinked, RolledBack
    <3> QED
      BY <1>4, <3>1, ZenonT(30)
  <2>5. CASE Rollback(p)
    <3>1. "rollbackSync" \in {"idle"} \cup (ObjectPcs \ {"put"})
      BY DEF ObjectPcs
    <3> QED
      BY <1>4, <2>1, <2>5, <3>1 DEF Rollback
  <2> QED
    BY <2>2, <2>3, <2>4, <2>5, Zenon
<1> QED
  BY <1>1, <1>2, <1>3, <1>5, ObjectGoes

\* The deletion of the records of a token that is initialised again.
LEMMA DeleteRecordKeeps ==
    ASSUME OneProcess, StoreInv, NEW p \in Processes, DeleteRecord(p)
    PROVE  StoreInv'
<1>1. /\ records' \subseteq records /\ UNCHANGED <<headers, acceptable, keys, written, proc>>
      /\ Syncs /\ proc[p].pc = "delete"
  BY DEF DeleteRecord, ghostVars, Steps
<1>2. /\ records' \in SUBSET RecordFiles
      /\ \A r \in records' : r.key # 0 /\ r.key = Current(headers).user.private
  BY <1>1, StoreTypes
<1>3. Becomes(p, proc[p]) /\ proc[p] \in Slots /\ SlotFits(proc[p])
  BY <1>1, StoreTypes DEF Becomes
<1> QED
  BY <1>1, <1>2, <1>3, RecordsStep

(***************************************************************************)
(* Steps that change the headers                                           *)
(***************************************************************************)
\* The new header becomes the newest.
LEMMA HeaderAdded ==
    ASSUME NEW dir \in Directories, DirectoryFits(dir), NEW header \in HeaderFiles,
           header.label # 0, UserFits(header.user), NEW g \in Generations,
           g = CurrentGeneration(dir) + 1, NEW new \in Directories, new[g] = header,
           \A h \in Generations : h # g => new[h] = dir[h]
    PROVE  /\ DirectoryFits(new) /\ Newest(new, g)
           /\ Current(new) = header /\ dir[g] = NoHeader
<1>1. new[g] = header /\ \A h \in Generations : h # g => new[h] = dir[h]
  OBVIOUS
<1>2. header # NoHeader
  BY StoreConstants
<1>3. Present(new) = Present(dir) \cup {g} /\ g \in Nat
  BY <1>1, <1>2, StoreAssumption DEF Present, Generations
<1>4. \A h \in Present(dir) : h \in Generations /\ h <= CurrentGeneration(dir)
  BY CurrentHeader
<1>5. CurrentGeneration(dir) \in Nat /\ Generations \subseteq Nat
  BY CurrentHeader, StoreAssumption DEF Generations
<1>6. Newest(new, g)
  <2>1. \A h \in Present(dir) : h <= g
    <3>1. TAKE h \in Present(dir)
    <3>2. h \in Nat /\ h <= CurrentGeneration(dir)
      BY <1>4, <1>5
    <3> QED
      BY <1>5, <3>2
  <2>2. g <= g
    BY <1>3
  <2>3. \A h \in Present(new) : h <= g
    BY <1>3, <2>1, <2>2
  <2>4. g \in Present(new)
    BY <1>3
  <2> QED
    BY <2>3, <2>4 DEF Newest
<1>7. DirectoryFits(new)
  BY <1>1, <1>3, <1>4, <1>5, <1>6 DEF DirectoryFits
<1>8. Current(new) = header
  BY <1>1, <1>6, NewestIsCurrent
<1>9. dir[g] = NoHeader
  BY <1>4, <1>5 DEF Present
<1> QED
  BY <1>1, <1>6, <1>7, <1>8, <1>9

\* publish_header: the new header is linked under the next generation.
LEMMA LinkHeaderKeeps ==
    ASSUME OneProcess, StoreInv, NEW p \in Processes, LinkHeader(p)
    PROVE  StoreInv'
<1> USE StoreTypes
<1>1. PICK job \in Jobs : job = proc[p].job
  OBVIOUS
<1>2. /\ proc[p].pc = "link" /\ UNCHANGED <<records, keys, written>> /\ Changes
  BY DEF LinkHeader, Steps
<1>3. /\ job.header.label # 0 /\ UserFits(job.header.user)
      /\ job.generation = CurrentGeneration(headers) + 1 /\ job.generation \in Generations
      /\ job.header \in HeaderFiles
      /\ KeyCarriesOver(proc[p], job.header.user)
  BY <1>1, <1>2 DEF SlotFits, Jobs
<1>4. PICK new : new = [headers EXCEPT ![job.generation] = job.header]
  OBVIOUS
<1>5. /\ new \in Directories /\ DirectoryFits(new) /\ Newest(new, job.generation)
      /\ new[job.generation] = job.header /\ Current(new) = job.header
      /\ headers[job.generation] = NoHeader
  <2>1. headers \in Directories /\ DirectoryFits(headers)
    OBVIOUS
  <2>2. PICK g \in Generations : g = job.generation
    BY <1>3
  <2>3. PICK header \in HeaderFiles : header = job.header
    BY <1>3
  <2> HIDE StoreTypes
  <2>4. g = CurrentGeneration(headers) + 1
    BY <1>3, <2>2
  <2>5. header.label # 0 /\ UserFits(header.user)
    BY <1>3, <2>3
  <2>6. /\ new \in Directories /\ new[g] = header
        /\ \A h \in Generations : h # g => new[h] = headers[h]
    BY <1>4, <2>1, <2>2, <2>3 DEF Directories
  <2>7. /\ DirectoryFits(new) /\ Newest(new, g)
        /\ Current(new) = header /\ headers[g] = NoHeader
    BY <2>1, <2>4, <2>5, <2>6, HeaderAdded
  <2> QED
    BY <2>2, <2>3, <2>6, <2>7, Zenon
<1>6. headers' = new /\ acceptable' = acceptable \cup {job.header} /\ Goes(p, "sync")
  BY <1>1, <1>4, <1>5 DEF LinkHeader
<1>7. \A r \in records' : r.key # 0 /\ r.key = Current(headers').user.private
  BY <1>2, <1>3, <1>5, <1>6 DEF KeyCarriesOver
<1>8. disk' \in SUBSET DiskContents /\ DiskFits'
  BY <1>2, <1>5, <1>6, <1>7, DiskStep
<1>9. PICK slot : slot = [proc[p] EXCEPT !.pc = "sync"]
  OBVIOUS
<1>10. /\ slot \in Slots /\ slot.pc = "sync" /\ slot.login = proc[p].login /\ slot.job = job
       /\ slot.private = proc[p].private
  BY <1>1, <1>9 DEF Slots
<1>11. slot.login = "User" => slot.private = job.header.user.private /\ slot.private # 0
  BY <1>3, <1>10 DEF KeyCarriesOver, SlotFits
<1>12. SlotFits(slot)'
  BY <1>5, <1>6, <1>10, <1>11 DEF SlotFits
<1>13. proc' \in [Processes -> Slots] /\ SlotsFit'
  BY <1>6, <1>9, <1>10, <1>12, SlotChanges DEF Goes
<1>14. StoreShape'
  BY <1>2, <1>5, <1>6, <1>8, <1>13 DEF StoreShape
<1> QED
  BY <1>8, <1>13, <1>14 DEF StoreInv

\* The directory is synced, and the older headers are still there.
LEMMA SyncHeaderKeeps ==
    ASSUME OneProcess, StoreInv, NEW p \in Processes, SyncHeader(p)
    PROVE  StoreInv'
<1> USE StoreTypes
<1>1. /\ proc[p].pc = "sync" /\ UNCHANGED <<headers, records, keys, written, acceptable>> /\ Syncs
      /\ Goes(p, "sweep")
  BY DEF SyncHeader, Steps, ghostVars
<1>2. PICK slot : slot = [proc[p] EXCEPT !.pc = "sweep"]
  OBVIOUS
<1>3. /\ slot \in Slots /\ slot.pc = "sweep" /\ slot.login = proc[p].login
      /\ slot.job = proc[p].job /\ slot.private = proc[p].private
  BY <1>2 DEF Slots
<1>4. SlotFits(slot)
  BY <1>1, <1>3 DEF SlotFits
<1> QED
  BY <1>1, <1>2, <1>3, <1>4, RecordsStep DEF Goes

\* remove_old_headers: the newest header stays.
LEMMA SweepHeaderKeeps ==
    ASSUME OneProcess, StoreInv, NEW p \in Processes, SweepHeader(p)
    PROVE  StoreInv'
<1> USE StoreTypes
<1>1. PICK g \in Present(headers) :
          g < proc[p].job.generation /\ headers' = [headers EXCEPT ![g] = NoHeader]
  BY DEF SweepHeader
<1>2. /\ proc[p].pc = "sweep" /\ UNCHANGED <<records, keys, written, acceptable, proc>> /\ Changes
  BY DEF SweepHeader, Steps, ghostVars
<1>3. PICK top \in Generations : top = proc[p].job.generation /\ Newest(headers, top)
  BY <1>2 DEF SlotFits, Newest, Present
<1>4. /\ headers' \in Directories /\ g \in Generations /\ headers'[g] = NoHeader
      /\ \A h \in Generations : h # g => headers'[h] = headers[h]
  BY <1>1, StoreConstants DEF Directories, Present
<1>5. Present(headers') = Present(headers) \ {g}
  BY <1>4 DEF Present
<1>6. g # top
  BY <1>1, <1>3, <1>4, StoreAssumption DEF Generations
<1>7. Newest(headers', top) /\ headers'[top] = headers[top]
  BY <1>3, <1>4, <1>5, <1>6 DEF Newest
<1>8. Current(headers') = headers[top] /\ Current(headers) = headers[top]
  BY <1>3, <1>7, NewestIsCurrent
<1>9. DirectoryFits(headers')
  BY <1>4, <1>5, <1>7 DEF DirectoryFits, Present
<1>10. disk' \in SUBSET DiskContents /\ DiskFits'
  BY <1>2, <1>4, <1>8, <1>9, DiskStep, SMTT(30)
<1>11. SlotFits(proc[p])'
  BY <1>2, <1>3, <1>7, <1>8 DEF SlotFits
<1>12. SlotsFit'
  BY <1>11 DEF SlotsFit, OneProcess
<1>13. StoreShape'
  BY <1>2, <1>4, <1>10 DEF StoreShape
<1> QED
  BY <1>10, <1>12, <1>13 DEF StoreInv

\* The change is acknowledged: only its header is acceptable now.
LEMMA SweptHeadersKeeps ==
    ASSUME OneProcess, StoreInv, NEW p \in Processes, SweptHeaders(p)
    PROVE  StoreInv'
<1> USE StoreTypes, StoreConstants
<1>1. /\ proc[p].pc = "sweep" /\ UNCHANGED <<headers, records, keys, written>> /\ Syncs
      /\ Returns(p) /\ acceptable' = {proc[p].job.header}
  BY DEF SweptHeaders, Steps
<1>2. Current(headers) = proc[p].job.header
  BY <1>1, NewestIsCurrent DEF SlotFits
<1>3. disk' \in SUBSET DiskContents /\ DiskFits'
  BY <1>1, <1>2, DiskStep
<1>4. PICK slot : slot = [proc[p] EXCEPT !.pc = "idle", !.job = NoJob]
  OBVIOUS
<1>5. /\ slot \in Slots /\ slot.pc = "idle" /\ slot.login = proc[p].login
      /\ slot.private = proc[p].private
  BY <1>4 DEF Slots
<1>6. SlotFits(slot)'
  BY <1>1, <1>5 DEF SlotFits
<1>7. proc' \in [Processes -> Slots] /\ SlotsFit'
  BY <1>1, <1>4, <1>5, <1>6, SlotChanges DEF Returns
<1>8. StoreShape'
  BY <1>1, <1>3, <1>7 DEF StoreShape
<1> QED
  BY <1>3, <1>7, <1>8 DEF StoreInv

\* The power is lost: the process is gone, and one of the possible contents is left.
LEMMA PowerLossKeeps ==
    ASSUME StoreInv, PowerLoss
    PROVE  StoreInv'
<1> USE StoreTypes, StoreConstants
<1>1. PICK left \in disk : headers' = left.headers /\ records' = left.records
  BY DEF PowerLoss
<1>2. /\ Syncs /\ proc' = [p \in Processes |-> Cleared]
      /\ UNCHANGED <<keys, written, acceptable>>
  BY DEF PowerLoss, Fault
<1>3. headers' \in Directories /\ records' \in SUBSET RecordFiles
  BY <1>1 DEF DiskContents
<1>4. LeftFits(left)
  BY <1>1 DEF StoreInv, DiskFits
<1>5. /\ DirectoryFits(headers') /\ Current(headers') \in acceptable'
      /\ \A r \in records' : r.key # 0 /\ r.key = Current(headers').user.private
  BY <1>1, <1>2, <1>4 DEF LeftFits
<1>6. disk' \in SUBSET DiskContents /\ DiskFits'
  BY <1>2, <1>3, <1>5, DiskStep
<1>7. StoreShape'
  BY <1>2, <1>3, <1>6 DEF StoreShape
<1>8. SlotsFit'
  BY <1>2 DEF SlotsFit, SlotFits, Cleared
<1> QED
  BY <1>6, <1>7, <1>8 DEF StoreInv

(***************************************************************************)
(* Theorems: headers and keys                                              *)
(***************************************************************************)
\* An empty directory.
LEMMA StoreInitial ==
    ASSUME StoreInit
    PROVE  StoreInv
<1> USE StoreConstants
<1>1. headers \in Directories /\ records = {}
  BY DEF StoreInit, Directories
<1>2. PICK left : left = [headers |-> headers, records |-> records]
  OBVIOUS
<1>3. disk = {left} /\ left.headers = headers /\ left.records = {} /\ left \in DiskContents
  BY <1>1, <1>2 DEF StoreInit, DiskContents
<1>4. StoreShape
  BY <1>1, <1>3 DEF StoreShape, StoreInit
<1>5. Present(headers) = {}
  BY DEF StoreInit, Present
<1>6. DirectoryFits(headers) /\ Current(headers) = NoHeader
  BY <1>5 DEF DirectoryFits, Current
<1>7. LeftFits(left)
  BY <1>3, <1>6 DEF LeftFits, StoreInit
<1>8. DiskFits
  BY <1>2, <1>3, <1>7 DEF DiskFits
<1>9. SlotsFit
  BY DEF SlotsFit, SlotFits, Cleared, StoreInit
<1> QED
  BY <1>4, <1>8, <1>9 DEF StoreInv

\* Every step keeps the invariant.
LEMMA StoreKeeps ==
    ASSUME OneProcess, StoreInv, [StoreNext]_storeVars
    PROVE  StoreInv'
<1>1. ASSUME NEW p \in Processes, StoreStep(p)
      PROVE  StoreInv'
  <2>1. CASE \E pin \in Pins : Login(p, pin) \/ LoginSo(p, pin) \/ InitToken(p, pin)
    BY <2>1, LoginKeeps, InitTokenKeeps
  <2>2. CASE Logout(p)
    <3>1. CASE Pins = {}
      <4>1. UNCHANGED <<headers, records, disk, acceptable, keys, written>> /\ Becomes(p, Cleared)
        BY <2>2 DEF Logout, filesVars, ghostVars
      <4>2. Cleared \in Slots /\ SlotFits(Cleared)
        BY StoreConstants DEF SlotFits, Cleared
      <4> QED
        BY <4>1, <4>2, StoreTypes, QuietStep
    <3>2. CASE Pins # {}
      BY <2>2, <3>2, LoginKeeps
    <3> QED
      BY <3>1, <3>2
  <2>3. CASE DeleteRecord(p) \/ FreshHeader(p) \/ ReplacementHeader(p)
    BY <2>3, DeleteRecordKeeps, FreshHeaderKeeps, ReplacementHeaderKeeps
  <2>4. CASE \E pin, newPin \in Pins : ChangePin(p, pin, newPin) \/ ChangeSoPin(p, pin, newPin)
    BY <2>4, ChangePinKeeps
  <2>5. CASE \E newPin \in Pins : InitUserPin(p, newPin)
    BY <2>5, ChangePinKeeps
  <2>6. CASE LinkHeader(p) \/ SyncHeader(p) \/ SweepHeader(p) \/ SweptHeaders(p)
    BY <2>6, LinkHeaderKeeps, SyncHeaderKeeps, SweepHeaderKeeps, SweptHeadersKeeps
  <2>7. CASE \/ CreateObject(p)
             \/ \E r \in proc[p].loaded : UpdateObject(p, r) \/ DestroyObject(p, r)
    BY <2>7, ObjectBegins
  <2>8. CASE PutRecord(p) \/ Created(p) \/ IoError(p) \/ Crash(p)
    BY <2>8, PutRecordKeeps, ReturnsKeeps
  <2>9. CASE SyncRecord(p) \/ UnlinkRecord(p) \/ Unlinked(p) \/ Rollback(p) \/ RolledBack(p)
    BY <2>9, RecordStepsKeep
  <2> QED
    BY <1>1, <2>1, <2>2, <2>3, <2>4, <2>5, <2>6, <2>7, <2>8, <2>9 DEF StoreStep
<1>2. CASE UNCHANGED storeVars
  BY <1>2 DEF storeVars, StoreInv, StoreShape, DiskFits, LeftFits, SlotsFit, SlotFits,
              KeyCarriesOver
<1>3. CASE PowerLoss
  BY <1>3, PowerLossKeeps
<1> QED
  BY <1>1, <1>2, <1>3 DEF StoreNext

\* The invariant of the headers and keys holds in every reachable state of a store that
\* one process uses.
THEOREM StoreInvariance ==
    ASSUME OneProcess
    PROVE  StoreSpec => []StoreInv
<1>1. StoreInit => StoreInv
  BY StoreInitial
<1>2. StoreInv /\ [StoreNext]_storeVars => StoreInv'
  BY StoreKeeps
<1> QED
  BY <1>1, <1>2, PTL DEF StoreSpec

\* Whenever the power fails, the header found afterwards is the one last acknowledged or
\* one whose publication was under way since.
THEOREM HeaderSurvives ==
    ASSUME OneProcess
    PROVE  StoreSpec => []EitherHeaderWins
<1>1. StoreInv => EitherHeaderWins
  BY DEF StoreInv, DiskFits, LeftFits, EitherHeaderWins
<1> QED
  BY <1>1, StoreInvariance, PTL

\* Whenever the power fails, every record left decrypts under the private key that the
\* current header wraps.
THEOREM PinOpensStore ==
    ASSUME OneProcess
    PROVE  StoreSpec => []LoginOpens
<1>1. StoreInv => LoginOpens
  BY DEF StoreInv, DiskFits, LeftFits, LoginOpens
<1> QED
  BY <1>1, StoreInvariance, PTL


(***************************************************************************)
(* Objects                                                                 *)
(***************************************************************************)
\* What the steps of the objects read.
LEMMA ObjectsTypes ==
    ASSUME StoreInv, ObjectsInv, NEW p \in Processes
    PROVE  /\ proc[p] \in Slots /\ proc[p].job \in Jobs /\ proc[p].loaded \in SUBSET RecordFiles
           /\ proc[p].job.new \in RecordFiles /\ proc[p].job.old \in RecordFiles
           /\ written \in Nat /\ records \in SUBSET RecordFiles
           /\ Keeps(records) /\ DiskKeeps /\ SlotObjectsFit(proc[p])
           /\ \A object \in gone : object \in Nat /\ object <= written
<1>1. /\ proc[p] \in Slots /\ proc[p].job \in Jobs /\ written \in Nat
      /\ records \in SUBSET RecordFiles
  BY StoreTypes
<1>2. proc[p].loaded \in SUBSET RecordFiles
  BY <1>1 DEF Slots
<1>3. proc[p].job.new \in RecordFiles /\ proc[p].job.old \in RecordFiles
  BY <1>1 DEF Jobs
<1>4. /\ DiskKeeps /\ SlotObjectsFit(proc[p])
      /\ \A object \in gone : object \in Nat /\ object <= written
  BY DEF ObjectsInv
<1>5. PICK left : left = [headers |-> headers, records |-> records]
  OBVIOUS
<1>6. left \in disk /\ left.records = records
  BY <1>5, StoreTypes
<1>7. Keeps(records)
  BY <1>4, <1>6 DEF DiskKeeps
<1> QED
  BY <1>1, <1>2, <1>3, <1>4, <1>7

\* What a power loss may leave after a change or a sync.
LEMMA DiskLeaves ==
    ASSUME Changes \/ Syncs, NEW left \in disk'
    PROVE  /\ left \in disk \/ left.records = records'
           /\ Syncs => left.records = records'
  BY DEF Changes, Syncs

\* The records on disk keep the objects when the new ones do.
LEMMA DiskKeepsOn ==
    ASSUME DiskKeeps, UNCHANGED <<written, kept, gone>>, Changes \/ Syncs, Keeps(records')
    PROVE  DiskKeeps'
<1>1. \A files : Keeps(files) => Keeps(files)'
  BY DEF Keeps, Numbered
<1>2. \A left \in disk' : Keeps(left.records)
  BY DiskLeaves DEF DiskKeeps
<1> QED
  BY <1>1, <1>2 DEF DiskKeeps

\* The only process and the disk fit after the step.
LEMMA ObjectsStep ==
    ASSUME OneProcess, NEW p \in Processes, DiskKeeps', SlotObjectsFit(proc[p])',
           \A object \in gone' : object \in Nat /\ object <= written'
    PROVE  ObjectsInv'
<1>1. \A q \in Processes : q = p
  BY DEF OneProcess
<1> QED
  BY <1>1 DEF ObjectsInv

\* Steps outside of the operations on objects.
LEMMA OtherStep ==
    ASSUME OneProcess, StoreInv, ObjectsInv, NEW p \in Processes, DiskKeeps',
           UNCHANGED <<written, kept, gone>>, proc'[p].pc \notin ObjectPcs,
           proc'[p].pc = "delete" => kept = {},
           proc'[p].loaded \subseteq proc[p].loaded \cup records
    PROVE  ObjectsInv'
<1>1. \A r \in proc'[p].loaded : Numbered(r) /\ r.object \notin gone
  BY ObjectsTypes DEF SlotObjectsFit, Keeps
<1>2. \A r \in proc'[p].loaded : Numbered(r)' /\ r.object \notin gone'
  BY <1>1 DEF Numbered
<1>3. SlotObjectsFit(proc[p])'
  BY <1>2 DEF SlotObjectsFit
<1>4. \A object \in gone' : object \in Nat /\ object <= written'
  BY ObjectsTypes
<1> QED
  BY <1>3, <1>4, ObjectsStep

\* The slot after a step.
LEMMA SlotAfter ==
    ASSUME StoreInv, NEW p \in Processes
    PROVE  /\ \A slot : Becomes(p, slot) => proc'[p] = slot
           /\ \A pc : Goes(p, pc) => /\ proc'[p].pc = pc /\ proc'[p].job = proc[p].job
                                     /\ proc'[p].loaded = proc[p].loaded
           /\ Returns(p) => proc'[p].pc = "idle" /\ proc'[p].loaded = proc[p].loaded
           /\ \A pc, job : Starts(p, pc, job) => /\ proc'[p].pc = pc /\ proc'[p].job = job
                                                 /\ proc'[p].loaded = proc[p].loaded
<1>1. ASSUME NEW slot, Becomes(p, slot) PROVE proc'[p] = slot
  BY <1>1, StoreTypes DEF Becomes
<1>2. proc[p] \in Slots
  BY StoreTypes
<1>3. ASSUME NEW pc, Goes(p, pc)
      PROVE  proc'[p].pc = pc /\ proc'[p].job = proc[p].job /\ proc'[p].loaded = proc[p].loaded
  BY <1>1, <1>2, <1>3 DEF Goes, Slots
<1>4. ASSUME Returns(p)
      PROVE  proc'[p].pc = "idle" /\ proc'[p].loaded = proc[p].loaded
  BY <1>1, <1>2, <1>4 DEF Returns, Slots
<1>5. ASSUME NEW pc, NEW job, Starts(p, pc, job)
      PROVE  proc'[p].pc = pc /\ proc'[p].job = job /\ proc'[p].loaded = proc[p].loaded
  BY <1>1, <1>2, <1>5 DEF Starts, Slots
<1> QED
  BY <1>1, <1>3, <1>4, <1>5


\* Login, logout, and the preparation of headers.
LEMMA QuietObjects ==
    ASSUME OneProcess, StoreInv, ObjectsInv, NEW p \in Processes,
           \/ \E pin \in Pins : Login(p, pin) \/ LoginSo(p, pin)
           \/ Logout(p) \/ FreshHeader(p) \/ ReplacementHeader(p)
           \/ \E pin, newPin \in Pins : ChangePin(p, pin, newPin) \/ ChangeSoPin(p, pin, newPin)
           \/ \E newPin \in Pins : InitUserPin(p, newPin)
    PROVE  ObjectsInv'
<1>1. UNCHANGED <<disk, written, kept, gone>>
  BY DEF Login, LoginSo, Logout, FreshHeader, ReplacementHeader, ChangePin, ChangeSoPin,
         InitUserPin, filesVars, ghostVars
<1>2. DiskKeeps'
  BY <1>1, ObjectsTypes DEF DiskKeeps, Keeps, Numbered
<1>3. proc'[p].pc \in {"idle", "link", "reread"} /\ proc'[p].loaded \subseteq proc[p].loaded \cup records
  <2>1. CASE \/ \E pin \in Pins : Login(p, pin) \/ LoginSo(p, pin)
             \/ Logout(p)
    <3>1. \/ Becomes(p, Cleared)
          \/ \E public, private : Becomes(p, [Cleared EXCEPT !.login = "User", !.public = public,
                                                  !.private = private, !.loaded = records])
          \/ \E public : Becomes(p, [Cleared EXCEPT !.login = "So", !.public = public])
      BY <2>1 DEF Login, LoginSo, Logout
    <3>2. CASE Becomes(p, Cleared)
      <4>1. proc'[p] = Cleared
        BY <3>2, SlotAfter
      <4> QED
        BY <4>1 DEF Cleared
    <3>3. CASE \E public, private :
                   Becomes(p, [Cleared EXCEPT !.login = "User", !.public = public,
                                              !.private = private, !.loaded = records])
      <4>1. PICK public, private :
                Becomes(p, [Cleared EXCEPT !.login = "User", !.public = public,
                                           !.private = private, !.loaded = records])
        BY <3>3
      <4>2. proc'[p] = [Cleared EXCEPT !.login = "User", !.public = public,
                                       !.private = private, !.loaded = records]
        BY <4>1, SlotAfter
      <4> QED
        BY <4>2 DEF Cleared
    <3>4. CASE \E public : Becomes(p, [Cleared EXCEPT !.login = "So", !.public = public])
      <4>1. PICK public : Becomes(p, [Cleared EXCEPT !.login = "So", !.public = public])
        BY <3>4
      <4>2. proc'[p] = [Cleared EXCEPT !.login = "So", !.public = public]
        BY <4>1, SlotAfter
      <4> QED
        BY <4>2 DEF Cleared
    <3> QED
      BY <3>1, <3>2, <3>3, <3>4
  <2>2. CASE FreshHeader(p) \/ ReplacementHeader(p)
    <3>1. proc[p] \in Slots /\ proc[p].job \in Jobs
      BY StoreTypes
    <3>2. CASE FreshHeader(p)
      <4>1. PICK header : Becomes(p, [proc[p] EXCEPT !.pc = "link", !.job.header = header])
        BY <3>2 DEF FreshHeader
      <4>2. proc'[p] = [proc[p] EXCEPT !.pc = "link", !.job.header = header]
        BY <4>1, SlotAfter
      <4> QED
        BY <3>1, <4>2 DEF Slots
    <3>3. CASE ReplacementHeader(p)
      <4>1. PICK header, g :
                Becomes(p, [proc[p] EXCEPT !.pc = "link", !.job.generation = g,
                                           !.job.header = header])
        BY <3>3 DEF ReplacementHeader
      <4>2. proc'[p] = [proc[p] EXCEPT !.pc = "link", !.job.generation = g,
                                       !.job.header = header]
        BY <4>1, SlotAfter
      <4> QED
        BY <3>1, <4>2 DEF Slots
    <3> QED
      BY <2>2, <3>2, <3>3
  <2>3. CASE \/ \E pin, newPin \in Pins : ChangePin(p, pin, newPin) \/ ChangeSoPin(p, pin, newPin)
             \/ \E newPin \in Pins : InitUserPin(p, newPin)
    <3>1. PICK job : Starts(p, "reread", job)
      BY <2>3 DEF ChangePin, ChangeSoPin, InitUserPin
    <3>2. proc'[p].pc = "reread" /\ proc'[p].loaded = proc[p].loaded
      BY <3>1, SlotAfter
    <3> QED
      BY <3>2, SMTT(30)
  <2> QED
    BY <2>1, <2>2, <2>3
<1> QED
  BY <1>1, <1>2, <1>3, OtherStep, SMTT(30) DEF ObjectPcs

\* An initialisation gives up all objects, and deletes the records.
LEMMA InitTokenObjects ==
    ASSUME OneProcess, StoreInv, ObjectsInv, NEW p \in Processes,
           (\E pin \in Pins : InitToken(p, pin)) \/ DeleteRecord(p)
    PROVE  ObjectsInv'
<1>1. CASE \E pin \in Pins : InitToken(p, pin)
  <2>1. UNCHANGED <<disk, written, gone>> /\ kept' = {} /\ \E job : Starts(p, "delete", job)
    BY <1>1 DEF InitToken, filesVars
  <2>2. proc'[p].pc = "delete" /\ proc'[p].loaded = proc[p].loaded
    BY <2>1, SlotAfter
  <2>3. DiskKeeps'
    BY <2>1, ObjectsTypes DEF DiskKeeps, Keeps, Numbered
  <2>4. \A r \in proc[p].loaded : Numbered(r)' /\ r.object \notin gone'
    BY <2>1, ObjectsTypes DEF SlotObjectsFit, Numbered
  <2>5. SlotObjectsFit(proc[p])'
    BY <2>1, <2>2, <2>4 DEF SlotObjectsFit, ObjectPcs
  <2> QED
    BY <2>1, <2>3, <2>5, ObjectsTypes, ObjectsStep
<1>2. CASE DeleteRecord(p)
  <2>1. /\ records' \subseteq records /\ UNCHANGED <<proc, written, kept, gone>> /\ Syncs
        /\ proc[p].pc = "delete"
    BY <1>2 DEF DeleteRecord, ghostVars, Steps
  <2>2. kept = {}
    BY <2>1, ObjectsTypes DEF SlotObjectsFit
  <2>3. Keeps(records')
    BY <2>1, <2>2, ObjectsTypes DEF Keeps
  <2>4. DiskKeeps'
    BY <2>1, <2>3, ObjectsTypes, DiskKeepsOn
  <2> QED
    BY <2>1, <2>2, <2>4, OtherStep DEF ObjectPcs
<1> QED
  BY <1>1, <1>2

\* The publication of a header leaves the records alone.
LEMMA HeaderObjects ==
    ASSUME OneProcess, StoreInv, ObjectsInv, NEW p \in Processes,
           LinkHeader(p) \/ SyncHeader(p) \/ SweepHeader(p) \/ SweptHeaders(p)
    PROVE  ObjectsInv'
<1>1. UNCHANGED <<records, written, kept, gone>> /\ (Changes \/ Syncs)
  BY DEF LinkHeader, SyncHeader, SweepHeader, SweptHeaders, ghostVars
<1>2. DiskKeeps'
  BY <1>1, ObjectsTypes, DiskKeepsOn
<1>3. \/ \E pc \in {"sync", "sweep"} : Goes(p, pc)
      \/ Returns(p)
      \/ UNCHANGED proc /\ proc[p].pc = "sweep"
  BY DEF LinkHeader, SyncHeader, SweepHeader, SweptHeaders, Steps
<1>4. proc'[p].pc \in {"sync", "sweep", "idle"} /\ proc'[p].loaded = proc[p].loaded
  BY <1>3, SlotAfter
<1> QED
  BY <1>1, <1>2, <1>4, OtherStep DEF ObjectPcs

\* The power is lost, or the process dies.
LEMMA LossObjects ==
    ASSUME OneProcess, StoreInv, ObjectsInv, PowerLoss \/ \E p \in Processes : Crash(p)
    PROVE  ObjectsInv'
<1>1. CASE PowerLoss
  <2>1. PICK left \in disk : records' = left.records
    BY <1>1 DEF PowerLoss
  <2>2. /\ UNCHANGED <<written, kept, gone>> /\ Syncs
        /\ proc' = [q \in Processes |-> Cleared]
    BY <1>1 DEF PowerLoss, Fault
  <2>3. DiskKeeps /\ \A object \in gone : object \in Nat /\ object <= written
    BY DEF ObjectsInv
  <2>4. Keeps(records')
    BY <2>1, <2>3 DEF DiskKeeps
  <2>5. DiskKeeps'
    BY <2>2, <2>3, <2>4, DiskKeepsOn
  <2>6. \A q \in Processes : SlotObjectsFit(proc[q])'
    BY <2>2 DEF SlotObjectsFit, Cleared, ObjectPcs
  <2> QED
    BY <2>2, <2>3, <2>5, <2>6 DEF ObjectsInv
<1>2. CASE \E p \in Processes : Crash(p)
  <2>1. PICK p \in Processes : Crash(p)
    BY <1>2
  <2>2. UNCHANGED <<disk, written, kept, gone>> /\ Becomes(p, Cleared)
    BY <2>1 DEF Crash, Fault, filesVars
  <2>3. proc'[p].pc = "idle" /\ proc'[p].loaded = {}
    BY <2>2, SlotAfter DEF Cleared
  <2>4. DiskKeeps'
    BY <2>2, ObjectsTypes DEF DiskKeeps, Keeps, Numbered
  <2> QED
    BY <2>2, <2>3, <2>4, OtherStep DEF ObjectPcs
<1> QED
  BY <1>1, <1>2


\* A record is numbered: older records are different, and keep their place.
LEMMA RecordNumbered ==
    ASSUME StoreInv, ObjectsInv, NEW p \in Processes, written' = written + 1,
           UNCHANGED <<disk, kept, gone>>, NEW new \in RecordFiles, new.id = written + 1
    PROVE  /\ DiskKeeps' /\ \A object \in gone' : object \in Nat /\ object <= written'
           /\ \A r \in RecordFiles : Numbered(r) => Numbered(r)' /\ r # new
           /\ \A left \in disk' : Spare(left.records, new)'
<1>1. \A r \in RecordFiles : Numbered(r) => Numbered(r)' /\ r # new
  BY ObjectsTypes DEF Numbered, RecordFiles
<1>2. \A left \in disk : left.records \in SUBSET RecordFiles
  BY StoreTypes DEF DiskContents
<1>3. ASSUME NEW left \in disk PROVE Keeps(left.records)' /\ Spare(left.records, new)'
  <2>1. Keeps(left.records) /\ left.records \in SUBSET RecordFiles
    BY <1>2, ObjectsTypes DEF DiskKeeps
  <2> QED
    BY <1>1, <2>1 DEF Keeps, Spare
<1>4. DiskKeeps' /\ \A left \in disk' : Spare(left.records, new)'
  BY <1>3 DEF DiskKeeps
<1>5. ASSUME NEW object \in gone' PROVE object \in Nat /\ object <= written'
  <2>1. object \in Nat /\ object <= written /\ written \in Nat
    BY ObjectsTypes
  <2> QED
    BY <2>1
<1> QED
  BY <1>1, <1>4, <1>5

\* A creation or an update numbers its record.
LEMMA NewObjects ==
    ASSUME OneProcess, StoreInv, ObjectsInv, NEW p \in Processes,
           CreateObject(p) \/ \E r \in proc[p].loaded : UpdateObject(p, r)
    PROVE  ObjectsInv'
<1> USE ObjectsTypes
<1>1. written' = written + 1 /\ UNCHANGED <<disk, kept, gone>>
  BY DEF CreateObject, UpdateObject, filesVars, ghostVars
<1>2. PICK job, object :
          /\ object \in Nat /\ Starts(p, "put", job) /\ job.new = NewRecord(p, object)
          /\ \/ job.kind = "create" /\ object = written + 1
             \/ job.kind = "update" /\ job.old \in proc[p].loaded /\ object = job.old.object
  <2>1. CASE CreateObject(p)
    <3>1. PICK job : /\ Starts(p, "put", job)
                     /\ job = [NoJob EXCEPT !.kind = "create", !.new = NewRecord(p, written + 1)]
      BY <2>1 DEF CreateObject
    <3>2. job.kind = "create" /\ job.new = NewRecord(p, written + 1) /\ written + 1 \in Nat
      BY <3>1 DEF NoJob
    <3> QED
      BY <3>1, <3>2, Zenon
  <2>2. CASE \E r \in proc[p].loaded : UpdateObject(p, r)
    <3>1. PICK r \in proc[p].loaded : UpdateObject(p, r)
      BY <2>2
    <3>2. PICK job : /\ Starts(p, "put", job)
                     /\ job = [NoJob EXCEPT !.kind = "update", !.old = r,
                                            !.new = NewRecord(p, r.object)]
      BY <3>1 DEF UpdateObject
    <3>3. job.kind = "update" /\ job.old = r /\ job.new = NewRecord(p, r.object)
      BY <3>2 DEF NoJob
    <3>4. r.object \in Nat
      BY DEF RecordFiles
    <3> QED
      BY <3>2, <3>3, <3>4, Zenon
  <2> QED
    BY <2>1, <2>2
<1>3. PICK new : new = job.new
  OBVIOUS
<1>4. new \in RecordFiles /\ new.id = written + 1 /\ new.object = object
  BY <1>2, <1>3 DEF NewRecord, RecordFiles, Slots
<1>5. PICK slot : slot = proc'[p]
  OBVIOUS
<1>6. slot.pc = "put" /\ slot.job = job /\ slot.loaded = proc[p].loaded
  BY <1>2, <1>5, SlotAfter
<1>7. PICK kind, old : kind = job.kind /\ old = job.old
  OBVIOUS
<1>8. /\ DiskKeeps' /\ \A gones \in gone' : gones \in Nat /\ gones <= written'
      /\ \A r \in RecordFiles : Numbered(r) => Numbered(r)' /\ r # new
      /\ \A left \in disk' : Spare(left.records, new)'
  BY <1>1, <1>4, RecordNumbered
<1>9. \A r \in slot.loaded : Numbered(r)' /\ r.object \notin gone' /\ r # new
  BY <1>1, <1>6, <1>8 DEF SlotObjectsFit
<1>10. Numbered(new)' /\ new.object \notin gone'
  <2>1. CASE kind = "create"
    <3>1. object \notin gone
      BY <1>2, <1>7, <2>1
    <3> QED
      BY <1>1, <1>2, <1>4, <1>7, <2>1, <3>1 DEF Numbered
  <2>2. CASE kind = "update"
    <3>1. Numbered(old)' /\ old.object \notin gone' /\ object = old.object
      BY <1>2, <1>6, <1>7, <1>9, <2>2
    <3> QED
      BY <1>1, <1>4, <3>1 DEF Numbered
  <2> QED
    BY <1>2, <1>7, <2>1, <2>2
<1>11. NewFits(slot, new)'
  BY <1>6, <1>8, <1>10 DEF NewFits
<1>12. kind = "update" => OldFits(slot, old)' /\ old # new /\ old.object = new.object
  BY <1>2, <1>4, <1>6, <1>7, <1>9 DEF OldFits
<1>13. ObjectJobFits(slot)'
  BY <1>2, <1>3, <1>6, <1>7, <1>11, <1>12 DEF ObjectJobFits
<1>14. SlotObjectsFit(slot)'
  BY <1>6, <1>9, <1>13 DEF SlotObjectsFit
<1> QED
  BY <1>5, <1>8, <1>14, ObjectsStep

\* A destruction gives up its object.
LEMMA DestroyedObjects ==
    ASSUME OneProcess, StoreInv, ObjectsInv, NEW p \in Processes, NEW r \in proc[p].loaded,
           DestroyObject(p, r)
    PROVE  ObjectsInv'
<1> USE ObjectsTypes
<1>1. UNCHANGED <<disk, written, gone>> /\ kept' = kept \ {r.object}
  BY DEF DestroyObject, filesVars
<1>2. PICK slot : slot = proc'[p]
  OBVIOUS
<1>3. /\ slot.pc = "unlink" /\ slot.loaded = proc[p].loaded
      /\ slot.job = [NoJob EXCEPT !.kind = "destroy", !.old = r]
  BY <1>2, SlotAfter DEF DestroyObject
<1>4. slot.job.kind = "destroy" /\ slot.job.old = r
  BY <1>3 DEF NoJob
<1>5. DiskKeeps'
  BY <1>1 DEF DiskKeeps, Keeps, Numbered
<1>6. \A file \in slot.loaded : Numbered(file)' /\ file.object \notin gone'
  BY <1>1, <1>3 DEF SlotObjectsFit, Numbered
<1>7. OldFits(slot, r)' /\ r.object \notin kept'
  BY <1>1, <1>3, <1>6 DEF OldFits
<1>8. ObjectJobFits(slot)'
  BY <1>3, <1>4, <1>7 DEF ObjectJobFits
<1>9. SlotObjectsFit(slot)'
  BY <1>3, <1>6, <1>8 DEF SlotObjectsFit
<1> QED
  BY <1>1, <1>2, <1>5, <1>9, ObjectsStep


\* A power loss may leave the current contents.
LEMMA CurrentLeft ==
    ASSUME StoreInv
    PROVE  \E left \in disk : left.records = records
<1>1. PICK left : left = [headers |-> headers, records |-> records]
  OBVIOUS
<1> QED
  BY <1>1, StoreTypes

\* The job of an operation on objects.
LEMMA ObjectJob ==
    ASSUME StoreInv, ObjectsInv, NEW p \in Processes, proc[p].pc \in ObjectPcs,
           NEW job, job = proc[p].job
    PROVE  /\ job.kind \in {"create", "update", "destroy"}
           /\ job.new \in RecordFiles /\ job.old \in RecordFiles
           /\ job.kind \in {"create", "update"} => NewFits(proc[p], job.new)
           /\ job.kind \in {"update", "destroy"} => OldFits(proc[p], job.old)
           /\ job.kind = "update" => job.old # job.new /\ job.old.object = job.new.object
           /\ job.kind = "destroy" =>
                  job.old.object \notin kept /\ proc[p].pc \in {"unlink", "unlinkSync"}
           /\ proc[p].pc \notin {"unlink", "unlinkSync"} => job.kind \in {"create", "update"}
           /\ proc[p].pc \in {"unlink", "unlinkSync"} => job.kind \in {"update", "destroy"}
<1>1. ObjectJobFits(proc[p])
  BY ObjectsTypes DEF SlotObjectsFit
<1>2. job.new \in RecordFiles /\ job.old \in RecordFiles
  BY ObjectsTypes
<1> QED
  BY <1>1, <1>2 DEF ObjectJobFits, ObjectPcs

\* Steps of an operation on objects that goes on.
LEMMA JobStep ==
    ASSUME OneProcess, StoreInv, ObjectsInv, NEW p \in Processes, NEW job, job = proc[p].job,
           UNCHANGED <<written, kept, gone>>, Changes \/ Syncs, Keeps(records'),
           proc[p].pc \in ObjectPcs, proc'[p].pc \in ObjectPcs, proc'[p].job = job,
           \A r \in proc'[p].loaded : r \in proc[p].loaded \/ r = job.new,
           job.kind = "destroy" => proc'[p].loaded \subseteq proc[p].loaded,
           job.kind \in {"create", "update"} =>
               /\ proc'[p].pc # "unlinkSync" => \A left \in disk' : Spare(left.records, job.new)
               /\ proc'[p].pc = "putSync" => job.new \in records'
               /\ proc'[p].pc \in {"unlink", "refresh"} =>
                      \A left \in disk' : job.new \in left.records,
           proc'[p].pc = "unlinkSync" => job.old \notin records',
           proc'[p].pc \in {"unlink", "unlinkSync"} => job.kind \in {"update", "destroy"},
           proc'[p].pc \notin {"unlink", "unlinkSync"} => job.kind \in {"create", "update"}
    PROVE  ObjectsInv'
<1>1. PICK slot : slot = proc'[p]
  OBVIOUS
<1>2. DiskKeeps'
  BY ObjectsTypes, DiskKeepsOn
<1>3. \A r : Numbered(r) <=> Numbered(r)'
  BY DEF Numbered
<1>4. \A files, new : Spare(files, new) <=> Spare(files, new)'
  BY DEF Spare
<1>5. ASSUME job.kind \in {"create", "update"} PROVE NewFits(slot, job.new)'
  <2>1. Numbered(job.new)' /\ job.new.object \notin gone'
    BY <1>3, <1>5, ObjectJob DEF NewFits
  <2>2. slot.pc # "unlinkSync" => \A left \in disk' : Spare(left.records, job.new)'
    BY <1>1, <1>4, <1>5
  <2> QED
    BY <1>1, <1>5, <2>1, <2>2 DEF NewFits
<1>6. ASSUME job.kind \in {"update", "destroy"} PROVE OldFits(slot, job.old)'
  BY <1>1, <1>3, <1>6, ObjectJob DEF OldFits
<1>7. /\ job.kind = "update" => job.old # job.new /\ job.old.object = job.new.object
      /\ job.kind = "destroy" => job.old.object \notin kept'
  BY ObjectJob
<1>8. ObjectJobFits(slot)'
  BY <1>1, <1>5, <1>6, <1>7 DEF ObjectJobFits
<1>9. \A r \in slot.loaded : Numbered(r)' /\ r.object \notin gone'
  <2>1. \A r \in proc[p].loaded : Numbered(r) /\ r.object \notin gone
    BY ObjectsTypes DEF SlotObjectsFit
  <2>2. CASE job.kind = "destroy"
    BY <1>1, <1>3, <2>1, <2>2
  <2>3. CASE job.kind \in {"create", "update"}
    <3>1. Numbered(job.new) /\ job.new.object \notin gone
      BY <2>3, ObjectJob DEF NewFits
    <3> QED
      BY <1>1, <1>3, <2>1, <3>1
  <2> QED
    BY <2>2, <2>3, ObjectJob
<1>10. SlotObjectsFit(slot)'
  BY <1>1, <1>8, <1>9 DEF SlotObjectsFit, ObjectPcs
<1>11. \A object \in gone' : object \in Nat /\ object <= written'
  BY ObjectsTypes
<1> QED
  BY <1>1, <1>2, <1>10, <1>11, ObjectsStep


\* The new record gets its name, and the name is made durable.
LEMMA PutObjects ==
    ASSUME OneProcess, StoreInv, ObjectsInv, NEW p \in Processes, PutRecord(p) \/ SyncRecord(p)
    PROVE  ObjectsInv'
<1>1. PICK job : job = proc[p].job
  OBVIOUS
<1>2. UNCHANGED <<written, kept, gone>> /\ proc[p].pc \in {"put", "putSync"}
  BY DEF PutRecord, SyncRecord, Steps, ghostVars
<1>3. "put" \in ObjectPcs /\ "putSync" \in ObjectPcs /\ "refresh" \in ObjectPcs /\ "unlink" \in ObjectPcs
  BY DEF ObjectPcs
<1>4. job.kind \in {"create", "update"} /\ NewFits(proc[p], job.new)
  BY <1>1, <1>2, <1>3, ObjectJob
<1>5. Numbered(job.new) /\ job.new.object \notin gone /\ \A left \in disk : Spare(left.records, job.new)
  BY <1>2, <1>4 DEF NewFits
<1>6. Spare(records, job.new)
  BY <1>5, CurrentLeft
<1>7. CASE PutRecord(p)
  <2>1. records' = records \cup {job.new} /\ Changes /\ Goes(p, "putSync")
    BY <1>1, <1>7 DEF PutRecord
  <2>2. proc'[p].pc = "putSync" /\ proc'[p].job = job /\ proc'[p].loaded = proc[p].loaded
    BY <1>1, <2>1, SlotAfter
  <2>3. Keeps(records')
    BY <1>5, <2>1, ObjectsTypes DEF Keeps
  <2>4. Spare(records', job.new)
    BY <1>6, <2>1 DEF Spare
  <2>5. \A left \in disk' : Spare(left.records, job.new)
    BY <1>5, <2>1, <2>4, DiskLeaves
  <2> QED
    BY <1>1, <1>2, <1>3, <1>4, <2>1, <2>2, <2>3, <2>5, JobStep
<1>8. CASE SyncRecord(p)
  <2>1. /\ records' = records /\ Syncs /\ proc[p].pc = "putSync"
        /\ Becomes(p, [proc[p] EXCEPT !.loaded = @ \cup {job.new},
                              !.pc = IF job.kind = "create" THEN "refresh" ELSE "unlink"])
    BY <1>1, <1>8 DEF SyncRecord, Steps
  <2>2. proc'[p] = [proc[p] EXCEPT !.loaded = @ \cup {job.new},
                        !.pc = IF job.kind = "create" THEN "refresh" ELSE "unlink"]
    BY <2>1, SlotAfter
  <2>3. proc[p] \in Slots
    BY ObjectsTypes
  <2>4. /\ proc'[p].pc = IF job.kind = "create" THEN "refresh" ELSE "unlink"
        /\ proc'[p].job = job /\ proc'[p].loaded = proc[p].loaded \cup {job.new}
    BY <1>1, <2>2, <2>3 DEF Slots
  <2>5. job.new \in records
    BY <1>4, <2>1 DEF NewFits
  <2>6. \A left \in disk' : left.records = records
    BY <2>1, DiskLeaves
  <2>7. \A left \in disk' : Spare(left.records, job.new) /\ job.new \in left.records
    BY <1>6, <2>5, <2>6
  <2>8. Keeps(records')
    BY <2>1, ObjectsTypes
  <2>9. proc'[p].pc \in {"refresh", "unlink"} /\ (proc'[p].pc = "unlink" => job.kind = "update")
    BY <1>4, <2>4
  <2>10. \A r \in proc'[p].loaded : r \in proc[p].loaded \/ r = job.new
    BY <2>4
  <2> QED
    BY <1>1, <1>2, <1>3, <1>4, <2>1, <2>4, <2>7, <2>8, <2>9, <2>10, JobStep
<1> QED
  BY <1>7, <1>8

\* The new object is acknowledged: every power loss leaves it.
LEMMA CreatedObjects ==
    ASSUME OneProcess, StoreInv, ObjectsInv, NEW p \in Processes, Created(p)
    PROVE  ObjectsInv'
<1>1. PICK new : new = proc[p].job.new
  OBVIOUS
<1>2. /\ UNCHANGED <<disk, written, gone>> /\ kept' = kept \cup {new.object} /\ Returns(p)
      /\ proc[p].pc = "refresh"
  BY <1>1 DEF Created, Steps, filesVars
<1>3. \A left \in disk : new \in left.records
  BY <1>1, <1>2, ObjectJob DEF NewFits, ObjectPcs
<1>4. ASSUME NEW left \in disk PROVE Keeps(left.records)'
  <2>1. Keeps(left.records) /\ new \in left.records
    BY <1>3, ObjectsTypes DEF DiskKeeps
  <2> QED
    BY <1>2, <2>1 DEF Keeps, Numbered
<1>5. DiskKeeps'
  BY <1>2, <1>4 DEF DiskKeeps
<1>6. proc'[p].pc = "idle" /\ proc'[p].loaded = proc[p].loaded
  BY <1>2, SlotAfter
<1>7. \A r \in proc'[p].loaded : Numbered(r)' /\ r.object \notin gone'
  BY <1>2, <1>6, ObjectsTypes DEF SlotObjectsFit, Numbered
<1>8. SlotObjectsFit(proc[p])'
  BY <1>6, <1>7 DEF SlotObjectsFit, ObjectPcs
<1> QED
  BY <1>2, <1>5, <1>8, ObjectsTypes, ObjectsStep


\* The old record loses its name: its object has another one, or is given up.
LEMMA UnlinkObjects ==
    ASSUME OneProcess, StoreInv, ObjectsInv, NEW p \in Processes, UnlinkRecord(p)
    PROVE  ObjectsInv'
<1>1. PICK job : job = proc[p].job
  OBVIOUS
<1>2. UNCHANGED <<written, kept, gone>> /\ proc[p].pc = "unlink" /\ Changes
  BY DEF UnlinkRecord, Steps, ghostVars
<1>3. "unlink" \in ObjectPcs /\ "unlinkSync" \in ObjectPcs /\ "rollback" \in ObjectPcs
  BY DEF ObjectPcs
<1>4. /\ job.kind \in {"update", "destroy"}
      /\ job.kind = "update" => /\ NewFits(proc[p], job.new) /\ job.old # job.new
                                /\ job.old.object = job.new.object
      /\ job.kind = "destroy" => job.old.object \notin kept
  BY <1>1, <1>2, <1>3, ObjectJob
<1>5. job.kind = "update" => \A left \in disk : Spare(left.records, job.new) /\ job.new \in left.records
  BY <1>2, <1>4 DEF NewFits
<1>6. Keeps(records)
  BY ObjectsTypes
<1>7. CASE job.old \in records
  <2>1. records' = records \ {job.old} /\ Goes(p, "unlinkSync")
    BY <1>1, <1>7 DEF UnlinkRecord
  <2>2. proc'[p].pc = "unlinkSync" /\ proc'[p].job = job /\ proc'[p].loaded = proc[p].loaded
    BY <1>1, <2>1, SlotAfter
  <2>3. ASSUME NEW object \in kept PROVE \E r \in records' : r.object = object
    <3>1. PICK r \in records : r.object = object
      BY <1>6 DEF Keeps
    <3>2. CASE r # job.old
      BY <2>1, <3>1, <3>2
    <3>3. CASE r = job.old
      <4>1. job.kind = "update"
        BY <1>4, <3>1, <3>3
      <4>2. job.new \in records
        BY <1>5, <4>1, CurrentLeft
      <4> QED
        BY <1>4, <2>1, <3>1, <3>3, <4>1, <4>2
    <3> QED
      BY <3>2, <3>3
  <2>4. Keeps(records')
    BY <1>6, <2>1, <2>3 DEF Keeps
  <2> QED
    BY <1>1, <1>2, <1>3, <1>4, <2>1, <2>2, <2>4, JobStep
<1>8. CASE job.old \notin records /\ job.kind = "update"
  <2>1. records' = records /\ Goes(p, "rollback")
    BY <1>1, <1>8 DEF UnlinkRecord
  <2>2. proc'[p].pc = "rollback" /\ proc'[p].job = job /\ proc'[p].loaded = proc[p].loaded
    BY <1>1, <2>1, SlotAfter
  <2>3. Spare(records, job.new)
    BY <1>5, <1>8, CurrentLeft
  <2>4. \A left \in disk' : Spare(left.records, job.new)
    BY <1>2, <1>5, <1>8, <2>1, <2>3, DiskLeaves
  <2> QED
    BY <1>1, <1>2, <1>3, <1>6, <1>8, <2>1, <2>2, <2>4, JobStep
<1>9. CASE job.old \notin records /\ job.kind # "update"
  <2>1. records' = records /\ Returns(p)
    BY <1>1, <1>9 DEF UnlinkRecord
  <2>2. proc'[p].pc = "idle" /\ proc'[p].loaded = proc[p].loaded
    BY <2>1, SlotAfter
  <2>3. DiskKeeps'
    BY <1>2, <1>6, <2>1, ObjectsTypes, DiskKeepsOn
  <2> QED
    BY <1>2, <2>2, <2>3, OtherStep DEF ObjectPcs
<1> QED
  BY <1>7, <1>8, <1>9

\* The deletion is durable; a destroyed object without another copy is gone.
LEMMA UnlinkedObjects ==
    ASSUME OneProcess, StoreInv, ObjectsInv, NEW p \in Processes, Unlinked(p)
    PROVE  ObjectsInv'
<1> USE ObjectsTypes
<1>1. PICK job : job = proc[p].job
  OBVIOUS
<1>2. /\ UNCHANGED <<records, written, kept>> /\ proc[p].pc = "unlinkSync" /\ Syncs
      /\ Becomes(p, [proc[p] EXCEPT !.loaded = @ \ {job.old}, !.pc = "idle", !.job = NoJob])
  BY <1>1 DEF Unlinked, Steps
<1>3. \/ gone' = gone
      \/ /\ gone' = gone \cup {job.old.object} /\ job.kind = "destroy"
         /\ \A r \in (records \cup proc[p].loaded) \ {job.old} : r.object # job.old.object
  BY <1>1 DEF Unlinked
<1>4. proc'[p] = [proc[p] EXCEPT !.loaded = @ \ {job.old}, !.pc = "idle", !.job = NoJob]
  BY <1>2, SlotAfter
<1>5. proc'[p].pc = "idle" /\ proc'[p].loaded = proc[p].loaded \ {job.old}
  BY <1>4 DEF Slots
<1>6. /\ job.kind \in {"update", "destroy"} /\ job.old \in RecordFiles
      /\ Numbered(job.old) /\ job.old \notin records
  BY <1>1, <1>2, ObjectJob DEF OldFits, ObjectPcs
<1>7. \A r \in records \cup proc'[p].loaded : Numbered(r)' /\ r.object \notin gone'
  <2>1. \A r \in records \cup proc[p].loaded : Numbered(r) /\ r.object \notin gone
    BY DEF Keeps, SlotObjectsFit
  <2>2. \A r : Numbered(r) <=> Numbered(r)'
    BY <1>2 DEF Numbered
  <2> QED
    BY <1>3, <1>5, <1>6, <2>1, <2>2
<1>8. Keeps(records)'
  BY <1>2, <1>7 DEF Keeps
<1>9. DiskKeeps'
  <2>1. \A left \in disk' : left.records = records'
    BY <1>2, DiskLeaves
  <2> QED
    BY <1>8, <2>1 DEF DiskKeeps
<1>10. SlotObjectsFit(proc[p])'
  BY <1>5, <1>7 DEF SlotObjectsFit, ObjectPcs
<1>11. \A object \in gone' : object \in Nat /\ object <= written'
  BY <1>2, <1>3, <1>6 DEF Numbered, RecordFiles
<1> QED
  BY <1>9, <1>10, <1>11, ObjectsStep

\* The new record is taken back.
LEMMA RollbackObjects ==
    ASSUME OneProcess, StoreInv, ObjectsInv, NEW p \in Processes, Rollback(p) \/ RolledBack(p)
    PROVE  ObjectsInv'
<1>1. PICK job : job = proc[p].job
  OBVIOUS
<1>2. UNCHANGED <<written, kept, gone>> /\ proc[p].pc \in {"rollback", "rollbackSync"}
  BY DEF Rollback, RolledBack, Steps, ghostVars
<1>3. "rollback" \in ObjectPcs /\ "rollbackSync" \in ObjectPcs
  BY DEF ObjectPcs
<1>4. job.kind \in {"create", "update"} /\ NewFits(proc[p], job.new)
  BY <1>1, <1>2, <1>3, ObjectJob
<1>5. \A left \in disk : Spare(left.records, job.new)
  BY <1>2, <1>4 DEF NewFits
<1>6. Spare(records, job.new) /\ Keeps(records)
  BY <1>5, CurrentLeft, ObjectsTypes
<1>7. CASE Rollback(p)
  <2>1. records' = records \ {job.new} /\ Changes /\ Goes(p, "rollbackSync")
    BY <1>1, <1>7 DEF Rollback
  <2>2. proc'[p].pc = "rollbackSync" /\ proc'[p].job = job /\ proc'[p].loaded = proc[p].loaded
    BY <1>1, <2>1, SlotAfter
  <2>3. Keeps(records') /\ Spare(records', job.new)
    BY <1>6, <2>1 DEF Keeps, Spare
  <2>4. \A left \in disk' : Spare(left.records, job.new)
    BY <1>5, <2>1, <2>3, DiskLeaves
  <2> QED
    BY <1>1, <1>2, <1>3, <1>4, <2>1, <2>2, <2>3, <2>4, JobStep
<1>8. CASE RolledBack(p)
  <2>1. /\ records' = records /\ Syncs
        /\ Becomes(p, [proc[p] EXCEPT !.loaded = @ \ {job.new}, !.pc = "idle", !.job = NoJob])
    BY <1>1, <1>8 DEF RolledBack
  <2>2. proc'[p] = [proc[p] EXCEPT !.loaded = @ \ {job.new}, !.pc = "idle", !.job = NoJob]
    BY <2>1, SlotAfter
  <2>3. proc[p] \in Slots
    BY ObjectsTypes
  <2>4. proc'[p].pc = "idle" /\ proc'[p].loaded \subseteq proc[p].loaded
    BY <2>2, <2>3 DEF Slots
  <2>5. DiskKeeps'
    BY <1>2, <1>6, <2>1, ObjectsTypes, DiskKeepsOn
  <2> QED
    BY <1>2, <2>4, <2>5, OtherStep DEF ObjectPcs
<1> QED
  BY <1>7, <1>8


\* A file operation fails.  The sync inside an update does not: the old record has lost
\* its name, and the rollback would take the new one from disk too.
LEMMA IoErrorObjects ==
    ASSUME OneProcess, ~UpdateSyncFails, StoreInv, ObjectsInv, NEW p \in Processes, IoError(p)
    PROVE  ObjectsInv'
<1>1. PICK job : job = proc[p].job
  OBVIOUS
<1>2. /\ UNCHANGED <<headers, records, disk, written, kept, gone>>
      /\ ~(proc[p].pc = "unlinkSync" /\ job.kind = "update")
  <2>1. proc[p].pc = "unlinkSync" /\ job.kind = "update" => UpdateSyncFails
    BY <1>1, Zenon DEF IoError
  <2>2. UNCHANGED <<headers, records, disk, written, kept, gone>>
    BY DEF IoError, Fault, filesVars
  <2> QED
    BY <2>1, <2>2, Zenon
<1>3. Changes
  <2>1. [headers |-> headers', records |-> records'] \in disk
    BY <1>2, StoreTypes, Zenon
  <2> QED
    BY <1>2, <2>1 DEF Changes
<1>4. Keeps(records') /\ DiskKeeps'
  BY <1>2, <1>3, ObjectsTypes, DiskKeepsOn
<1>5. CASE Returns(p)
  <2>1. proc'[p].pc = "idle" /\ proc'[p].loaded = proc[p].loaded
    BY <1>5, SlotAfter
  <2> QED
    BY <1>2, <1>4, <2>1, OtherStep DEF ObjectPcs
<1>6. CASE /\ Goes(p, "rollback")
           /\ proc[p].pc = "refresh" \/ (proc[p].pc = "unlink" /\ job.kind = "update")
  <2>1. proc'[p].pc = "rollback" /\ proc'[p].job = job /\ proc'[p].loaded = proc[p].loaded
    BY <1>1, <1>6, SlotAfter
  <2>2. proc[p].pc \in ObjectPcs /\ "rollback" \in ObjectPcs
    BY <1>6 DEF ObjectPcs
  <2>3. job.kind \in {"create", "update"} /\ NewFits(proc[p], job.new)
    BY <1>1, <1>6, <2>2, ObjectJob
  <2>4. \A left \in disk' : Spare(left.records, job.new)
    BY <1>2, <1>6, <2>3 DEF NewFits
  <2> QED
    BY <1>1, <1>2, <1>3, <1>4, <2>1, <2>2, <2>3, <2>4, JobStep
<1>7. \/ Returns(p)
      \/ /\ Goes(p, "rollback")
         /\ proc[p].pc = "refresh" \/ (proc[p].pc = "unlink" /\ job.kind = "update")
  <2>1. IF proc[p].pc = "refresh" \/ (proc[p].pc \in {"unlink", "unlinkSync"} /\ job.kind = "update")
        THEN Goes(p, "rollback") ELSE Returns(p)
    BY <1>1, Zenon DEF IoError
  <2> QED
    BY <1>2, <2>1
<1> QED
  BY <1>5, <1>6, <1>7

\* Every step keeps the invariant of the objects.
LEMMA ObjectsKept ==
    ASSUME OneProcess, ~UpdateSyncFails, StoreInv, ObjectsInv, [StoreNext]_storeVars
    PROVE  ObjectsInv'
<1>1. ASSUME NEW p \in Processes, StoreStep(p)
      PROVE  ObjectsInv'
  <2>1. CASE \/ \E pin \in Pins : Login(p, pin) \/ LoginSo(p, pin)
             \/ Logout(p) \/ FreshHeader(p) \/ ReplacementHeader(p)
             \/ \E pin, newPin \in Pins : ChangePin(p, pin, newPin) \/ ChangeSoPin(p, pin, newPin)
             \/ \E newPin \in Pins : InitUserPin(p, newPin)
    BY <2>1, QuietObjects
  <2>2. CASE (\E pin \in Pins : InitToken(p, pin)) \/ DeleteRecord(p)
    BY <2>2, InitTokenObjects
  <2>3. CASE LinkHeader(p) \/ SyncHeader(p) \/ SweepHeader(p) \/ SweptHeaders(p)
    BY <2>3, HeaderObjects
  <2>4. CASE CreateObject(p) \/ \E r \in proc[p].loaded : UpdateObject(p, r)
    BY <2>4, NewObjects
  <2>5. CASE \E r \in proc[p].loaded : DestroyObject(p, r)
    BY <2>5, DestroyedObjects
  <2>6. CASE PutRecord(p) \/ SyncRecord(p)
    BY <2>6, PutObjects
  <2>7. CASE Created(p) \/ UnlinkRecord(p) \/ Unlinked(p)
    BY <2>7, CreatedObjects, UnlinkObjects, UnlinkedObjects
  <2>8. CASE Rollback(p) \/ RolledBack(p)
    BY <2>8, RollbackObjects
  <2>9. CASE IoError(p)
    BY <2>9, IoErrorObjects
  <2>10. CASE Crash(p)
    BY <2>10, LossObjects
  <2> QED
    BY <1>1, <2>1, <2>2, <2>3, <2>4, <2>5, <2>6, <2>7, <2>8, <2>9, <2>10 DEF StoreStep
<1>2. CASE UNCHANGED storeVars
  BY <1>2 DEF storeVars, ObjectsInv, DiskKeeps, Keeps, Spare, Numbered, SlotObjectsFit,
              ObjectJobFits, NewFits, OldFits
<1>3. CASE PowerLoss
  BY <1>3, LossObjects
<1> QED
  BY <1>1, <1>2, <1>3 DEF StoreNext

\* An object that was stored and never destroyed survives every failure, also while its
\* attributes are replaced, and one that was destroyed does not come back, in a store that
\* one process uses, as long as the sync inside an update does not fail.
THEOREM ObjectsAreKept ==
    ASSUME OneProcess, ~UpdateSyncFails
    PROVE  StoreSpec => []ObjectsSurvive
<1>1. StoreInit => ObjectsInv
  <2>1. ASSUME StoreInit PROVE DiskKeeps
    <3>1. disk = {[headers |-> headers, records |-> {}]} /\ kept = {}
      BY <2>1 DEF StoreInit
    <3>2. \A left \in disk : left.records = {}
      BY <3>1
    <3> QED
      BY <3>1, <3>2 DEF DiskKeeps, Keeps
  <2>2. ASSUME StoreInit, NEW p \in Processes PROVE SlotObjectsFit(proc[p])
    BY <2>2 DEF StoreInit, Cleared, SlotObjectsFit, ObjectPcs
  <2> QED
    BY <2>1, <2>2 DEF StoreInit, ObjectsInv
<1>2. StoreInv /\ ObjectsInv /\ [StoreNext]_storeVars => ObjectsInv'
  BY ObjectsKept
<1>3. ObjectsInv => ObjectsSurvive
  BY DEF ObjectsInv, DiskKeeps, Keeps, ObjectsSurvive
<1> QED
  BY <1>1, <1>2, <1>3, StoreInvariance, PTL DEF StoreSpec
=============================================================================
