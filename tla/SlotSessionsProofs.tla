------------------------- MODULE SlotSessionsProofs -------------------------
(***************************************************************************)
(* Invariants of SlotSessions for any number of slots, threads and         *)
(* handles.  The argument has two halves.  SlotOK says what every state a  *)
(* slot can be in satisfies, and each helper that the code runs under the  *)
(* slot mutex preserves it.  RoutingOK relates the registry, the handle    *)
(* counter and the calls that are between two critical sections; it is     *)
(* what makes a registration always find its entry free, so the one        *)
(* transition that would break SlotOK never happens.                       *)
(***************************************************************************)
EXTENDS SlotSessions, TLAPS

SlotOK(st) ==
    /\ st \in SlotState
    /\ st.role = "so" => \A x \in st.sessions : x.rw
    /\ st.sessions = {} => st.role = "none"
    /\ \A x \in st.objects : x.private => st.role = "user"
    /\ \A x \in st.operations : x.private => st.role = "user"
    /\ \A o \in st.objects : HasSession(st, o.creator)
    /\ \A p \in st.operations : HasSession(st, p.session)

-----------------------------------------------------------------------------
(* The helpers on slot states. *)

\* Dropping a login keeps a slot consistent.
LEMMA ClearLemma ==
    ASSUME NEW st, SlotOK(st)
    PROVE  /\ SlotOK(clear_login_state(st))
           /\ clear_login_state(st).sessions = st.sessions
           /\ clear_login_state(st).role = "none"
  BY DEF SlotOK, clear_login_state, SlotState, HasSession, Session, Object, Operation, Roles

\* reconcile_login_state keeps a slot consistent and its sessions as they were.
LEMMA ReconcileLemma ==
    ASSUME NEW st, SlotOK(st)
    PROVE  /\ SlotOK(reconcile_login_state(st))
           /\ reconcile_login_state(st).sessions = st.sessions
           /\ login_role(reconcile_login_state(st)) = reconcile_login_state(st).role
  <1>1. st.role \in Roles /\ st.lost \in BOOLEAN
    BY DEF SlotOK, SlotState
  <1>2. clear_login_state(st).lost = FALSE
    BY DEF SlotOK, SlotState, clear_login_state
  <1> QED BY ClearLemma, <1>1, <1>2 DEF reconcile_login_state, login_role, Roles

\* The logout of a closing slot or session leaves no login.
LEMMA LogoutForCloseLemma ==
    ASSUME NEW st, SlotOK(st), login_role(st) = st.role
    PROVE  /\ SlotOK(logout_for_close(st))
           /\ logout_for_close(st).sessions = st.sessions
           /\ logout_for_close(st).role = "none"
  BY ClearLemma DEF logout_for_close

\* Closing sessions keeps a slot consistent, if a login keeps a session.
LEMMA WithoutLemma ==
    ASSUME NEW st, SlotOK(st), NEW closed,
           (\A x \in st.sessions : x.handle \in closed) => st.role = "none"
    PROVE  /\ SlotOK(Without(st, closed))
           /\ Without(st, closed).sessions = {x \in st.sessions : x.handle \notin closed}
  BY DEF SlotOK, Without, SlotState, HasSession, Session, Object, Operation, Roles

-----------------------------------------------------------------------------
(* The inductive invariant. *)

\* A call under way has a slot.
CallsHaveSlot == \A t \in Threads : pc[t] # "idle" => at[t] \in Slots

\* Handles in use have been given out, and name one session of one slot.
HandlesGiven ==
    /\ \A s \in Slots, h \in Handles : HasSession(slot[s], h) => Given(h)
    /\ \A h \in Handles : routes[h] # NoSlot => Given(h)
    /\ \A s1, s2 \in Slots, h \in Handles :
          HasSession(slot[s1], h) /\ HasSession(slot[s2], h) => s1 = s2

\* A call that will register a session is the only one for its handle, and
\* finds the registry entry free.
RegistrationsFree ==
    /\ \A t \in Threads : pc[t] = "register" =>
          \E h \in Handles : args[t] = {h} /\ Given(h) /\ routes[h] = NoSlot
    /\ \A t1, t2 \in Threads :
          pc[t1] = "register" /\ pc[t2] = "register" /\ t1 # t2
          => args[t1] \cap args[t2] = {}

\* A call that will unregister handles has closed their sessions.
UnregisteredClosed ==
    \A t \in Threads : pc[t] = "unregister" =>
        \A h \in args[t] : Given(h) /\ \A s \in Slots : ~HasSession(slot[s], h)

RoutingOK ==
    /\ CallsHaveSlot
    /\ HandlesGiven
    /\ RegistrationsFree
    /\ UnregisteredClosed
    /\ SessionsRouted

IInv ==
    /\ TypeOK
    /\ \A s \in Slots : SlotOK(slot[s])
    /\ RoutingOK

-----------------------------------------------------------------------------
\* A call that returns and leaves its slot consistent, with the same sessions.
LEMMA LeaveLemma ==
    ASSUME IInv, NEW t \in Threads, pc[t] \in {"slot", "session"},
           NEW st, SlotOK(st), st.sessions = slot[at[t]].sessions,
           slot' = [slot EXCEPT ![at[t]] = st],
           Return(t), UNCHANGED <<module, routes, nextSession>>,
           nextObject' \in 0..MaxHandle
    PROVE  IInv'
  <1>1. at[t] \in Slots
    BY DEF IInv, RoutingOK, CallsHaveSlot
  <1>2. TypeOK'
    BY <1>1 DEF IInv, TypeOK, SlotOK, Return
  <1>3. \A s \in Slots : SlotOK(slot'[s])
    BY <1>1 DEF IInv, TypeOK
  <1>4. \A s \in Slots : slot'[s].sessions = slot[s].sessions
    BY <1>1 DEF IInv, TypeOK
  <1>5. \A s \in Slots, h \in Handles : HasSession(slot'[s], h) <=> HasSession(slot[s], h)
    BY <1>4 DEF HasSession
  <1>6. \A h : Given(h)' <=> Given(h)
    BY DEF Given
  <1>7. \A u \in Threads :
          /\ u # t => pc'[u] = pc[u] /\ at'[u] = at[u] /\ args'[u] = args[u]
          /\ pc'[t] = "idle"
    BY DEF IInv, TypeOK, Return
  <1>8. CallsHaveSlot' /\ HandlesGiven'
    BY <1>5, <1>6, <1>7 DEF IInv, RoutingOK, CallsHaveSlot, HandlesGiven
  <1>9. RegistrationsFree' /\ UnregisteredClosed'
    BY <1>5, <1>6, <1>7
    DEF IInv, TypeOK, RoutingOK, RegistrationsFree, UnregisteredClosed
  <1>10. SessionsRouted'
    BY <1>4, <1>7 DEF IInv, RoutingOK, SessionsRouted
  <1> QED BY <1>2, <1>3, <1>8, <1>9, <1>10 DEF IInv, RoutingOK

-----------------------------------------------------------------------------
(* Every step preserves the invariant.  First the steps of a call that do  *)
(* more than return: opening, registering, closing and unregistering.      *)

\* C_OpenSession: the new session's handle is fresh, and its call registers it.
LEMMA OpenStep ==
    ASSUME IInv, NEW t \in Threads, NEW rw \in BOOLEAN, C_OpenSession(t, rw)
    PROVE  IInv'
  <1> DEFINE s == at[t]
             old == reconcile_login_state(slot[s])
             new == [old EXCEPT !.sessions = @ \cup {[handle |-> nextSession, rw |-> rw]}]
  <1>1. s \in Slots /\ pc[t] = "slot"
    BY DEF IInv, RoutingOK, CallsHaveSlot, C_OpenSession, OnSlot
  <1>2. /\ SlotOK(old)
        /\ old.sessions = slot[s].sessions
        /\ login_role(old) = old.role
    BY <1>1, ReconcileLemma DEF IInv
  <1>3. nextSession \in Handles
    BY MaxHandleAssumption DEF IInv, TypeOK, C_OpenSession, OpenRefused, Exhausted, Handles
  <1>4. rw \/ old.role # "so"
    BY <1>2 DEF C_OpenSession, OpenRefused
  <1>5. SlotOK(new)
    BY <1>2, <1>3, <1>4
    DEF SlotOK, SlotState, HasSession, Session, Object, Operation, Roles
  <1>6. slot' = [slot EXCEPT ![s] = new]
    BY DEF C_OpenSession
  <1>7. nextSession' \in 0..MaxHandle
    BY <1>3, MaxHandleAssumption DEF C_OpenSession, allocate_handle, Handles
  <1>8. TypeOK'
    BY <1>1, <1>3, <1>5, <1>6, <1>7 DEF IInv, TypeOK, SlotOK, C_OpenSession
  <1>9. \A u \in Slots : SlotOK(slot'[u])
    BY <1>1, <1>5, <1>6 DEF IInv, TypeOK
  <1>10. /\ \A u \in Slots : u # s => slot'[u].sessions = slot[u].sessions
         /\ slot'[s].sessions = slot[s].sessions \cup {[handle |-> nextSession, rw |-> rw]}
    BY <1>1, <1>2, <1>6 DEF IInv, TypeOK, SlotOK, SlotState
  <1>11. \A u \in Slots, h \in Handles :
            HasSession(slot'[u], h) <=> HasSession(slot[u], h) \/ (u = s /\ h = nextSession)
    <2> DEFINE x == [handle |-> nextSession, rw |-> rw]
    <2>1. x.handle = nextSession
      OBVIOUS
    <2> HIDE DEF x
    <2>2. slot'[s].sessions = slot[s].sessions \cup {x}
      BY <1>10 DEF x
    <2>3. ASSUME NEW u \in Slots, u # s, NEW h \in Handles
          PROVE  HasSession(slot'[u], h) <=> HasSession(slot[u], h)
      BY <1>10, <2>3 DEF HasSession
    <2>4. ASSUME NEW h \in Handles
          PROVE  HasSession(slot'[s], h) <=> HasSession(slot[s], h) \/ h = nextSession
      BY <2>1, <2>2 DEF HasSession
    <2> QED BY <2>3, <2>4
  <1>12. ~Given(nextSession) /\ \A h \in Handles : Given(h)' <=> Given(h) \/ h = nextSession
    BY <1>3, MaxHandleAssumption DEF Given, C_OpenSession, allocate_handle, Handles
  <1>13. \A u \in Threads :
          /\ u # t => pc'[u] = pc[u] /\ at'[u] = at[u] /\ args'[u] = args[u]
          /\ pc'[t] = "register" /\ at'[t] = s /\ args'[t] = {nextSession}
    BY DEF IInv, TypeOK, C_OpenSession
  <1>14. routes' = routes
    BY DEF C_OpenSession
  <1>15. CallsHaveSlot' /\ HandlesGiven'
    BY <1>1, <1>11, <1>12, <1>13, <1>14 DEF IInv, RoutingOK, CallsHaveSlot, HandlesGiven
  <1>16. RegistrationsFree'
    BY <1>3, <1>12, <1>13, <1>14
    DEF IInv, TypeOK, RoutingOK, RegistrationsFree, HandlesGiven
  <1>17. UnregisteredClosed'
    BY <1>11, <1>12, <1>13 DEF IInv, TypeOK, RoutingOK, UnregisteredClosed
  <1>18. SessionsRouted'
    BY <1>1, <1>10, <1>13, <1>14 DEF IInv, RoutingOK, SessionsRouted
  <1> QED BY <1>8, <1>9, <1>15, <1>16, <1>17, <1>18 DEF IInv, RoutingOK

\* The entry is free, so the session is routed and the slot is left alone.
LEMMA RegisterStep ==
    ASSUME IInv, NEW t \in Threads, NEW h \in args[t], RegisterSession(t, h)
    PROVE  IInv'
  <1>1. pc[t] = "register" /\ at[t] \in Slots /\ h \in Handles
    BY DEF IInv, TypeOK, RoutingOK, CallsHaveSlot, RegisterSession
  <1>2. routes[h] = NoSlot /\ Given(h)
    BY <1>1 DEF IInv, RoutingOK, RegistrationsFree
  <1>3. slot' = slot /\ routes' = [routes EXCEPT ![h] = at[t]]
    BY <1>2 DEF RegisterSession
  <1>4. \A g : Given(g)' <=> Given(g)
    BY DEF RegisterSession, Given
  <1>5. \A u \in Threads :
          /\ u # t => pc'[u] = pc[u] /\ at'[u] = at[u] /\ args'[u] = args[u]
          /\ pc'[t] = "idle"
    BY DEF IInv, TypeOK, RegisterSession, Return
  <1>6. TypeOK'
    BY <1>1, <1>3 DEF IInv, TypeOK, RegisterSession, Return
  <1>7. CallsHaveSlot' /\ HandlesGiven'
    BY <1>1, <1>2, <1>3, <1>4, <1>5
    DEF IInv, TypeOK, RoutingOK, CallsHaveSlot, HandlesGiven
  <1>8. RegistrationsFree'
    BY <1>1, <1>3, <1>4, <1>5 DEF IInv, TypeOK, RoutingOK, RegistrationsFree
  <1>9. UnregisteredClosed'
    BY <1>3, <1>4, <1>5 DEF IInv, RoutingOK, UnregisteredClosed
  <1>10. SessionsRouted'
    <2> SUFFICES ASSUME NEW s \in Slots, NEW x \in slot[s].sessions
                 PROVE  \/ routes'[x.handle] = s
                        \/ \E u \in Threads :
                              pc'[u] = "register" /\ at'[u] = s /\ x.handle \in args'[u]
      BY <1>3 DEF SessionsRouted
    <2>1. x.handle \in Handles
      BY DEF IInv, TypeOK, SlotState, Session
    <2>2. CASE x.handle = h
      <3>1. PICK u \in Threads : pc[u] = "register" /\ at[u] = s /\ x.handle \in args[u]
        BY <1>2, <2>2, NoSlotAssumption DEF IInv, RoutingOK, SessionsRouted
      <3>2. u = t
        BY <1>1, <2>2, <3>1 DEF IInv, RoutingOK, RegistrationsFree
      <3> QED BY <1>1, <1>3, <2>2, <3>1, <3>2 DEF IInv, TypeOK
    <2>3. CASE x.handle # h
      <3>1. routes'[x.handle] = routes[x.handle]
        BY <1>3, <2>1, <2>3 DEF IInv, TypeOK
      <3>2. CASE routes[x.handle] = s
        BY <3>1, <3>2
      <3>3. CASE routes[x.handle] # s
        <4>1. PICK u \in Threads : pc[u] = "register" /\ at[u] = s /\ x.handle \in args[u]
          BY <3>3 DEF IInv, RoutingOK, SessionsRouted
        <4>2. CASE u = t
          <5>1. args[t] = {h}
            BY <1>1 DEF IInv, RoutingOK, RegistrationsFree
          <5> QED BY <2>3, <4>1, <4>2, <5>1
        <4>3. CASE u # t
          BY <1>5, <4>1, <4>3
        <4> QED BY <4>2, <4>3
      <3> QED BY <3>2, <3>3
    <2> QED BY <2>2, <2>3
  <1> QED BY <1>3, <1>6, <1>7, <1>8, <1>9, <1>10 DEF IInv, RoutingOK

\* What closing sessions of a slot does to the routing: the calls that close
\* them carry exactly the closed handles to their next step.
LEMMA CloseLemma ==
    ASSUME IInv, NEW t \in Threads, pc[t] \in {"slot", "session"},
           NEW st, SlotOK(st), NEW closed \in SUBSET Handles,
           \A h \in closed : HasSession(slot[at[t]], h),
           st.sessions = {x \in slot[at[t]].sessions : x.handle \notin closed},
           slot' = [slot EXCEPT ![at[t]] = st],
           pc' = [pc EXCEPT ![t] = "unregister"],
           args' = [args EXCEPT ![t] = closed],
           UNCHANGED <<module, routes, nextSession, nextObject, at>>
    PROVE  IInv'
  <1> DEFINE s == at[t]
  <1>1. s \in Slots
    BY DEF IInv, RoutingOK, CallsHaveSlot
  <1>2. TypeOK'
    BY <1>1 DEF IInv, TypeOK, SlotOK
  <1>3. \A u \in Slots : SlotOK(slot'[u])
    BY <1>1 DEF IInv, TypeOK
  <1>4. /\ slot'[s].sessions = {x \in slot[s].sessions : x.handle \notin closed}
        /\ \A u \in Slots : u # s => slot'[u].sessions = slot[u].sessions
        /\ \A u \in Slots : \A x \in slot'[u].sessions : x \in slot[u].sessions
    BY <1>1 DEF IInv, TypeOK
  <1>5. \A u \in Slots, h \in Handles : HasSession(slot'[u], h) => HasSession(slot[u], h)
    BY <1>4 DEF HasSession
  <1>6. \A h \in closed, u \in Slots : ~HasSession(slot'[u], h)
    <2>1. \A h \in closed : ~HasSession(slot'[s], h)
      BY <1>4 DEF HasSession
    <2> QED BY <1>1, <1>5, <2>1 DEF IInv, RoutingOK, HandlesGiven
  <1>7. \A h : Given(h)' <=> Given(h)
    BY DEF Given
  <1>8. \A u \in Threads :
          /\ u # t => pc'[u] = pc[u] /\ at'[u] = at[u] /\ args'[u] = args[u]
          /\ pc'[t] = "unregister" /\ args'[t] = closed /\ at'[t] = s
    BY DEF IInv, TypeOK
  <1>9. CallsHaveSlot' /\ HandlesGiven'
    BY <1>1, <1>5, <1>7, <1>8 DEF IInv, RoutingOK, CallsHaveSlot, HandlesGiven
  <1>10. RegistrationsFree'
    BY <1>7, <1>8 DEF IInv, TypeOK, RoutingOK, RegistrationsFree
  <1>11. UnregisteredClosed'
    BY <1>1, <1>5, <1>6, <1>7, <1>8
    DEF IInv, TypeOK, RoutingOK, UnregisteredClosed, HandlesGiven
  <1>12. SessionsRouted'
    BY <1>4, <1>8 DEF IInv, RoutingOK, SessionsRouted
  <1> QED BY <1>2, <1>3, <1>9, <1>10, <1>11, <1>12 DEF IInv, RoutingOK

\* C_CloseSession: the last session of a slot takes the login with it.
LEMMA CloseStep ==
    ASSUME IInv, NEW t \in Threads, NEW h \in args[t], C_CloseSession(t, h)
    PROVE  IInv'
  <1> DEFINE s == at[t]
             old == reconcile_login_state(slot[s])
             last == HandlesOf(old) = {h}
             out == IF last THEN logout_for_close(old) ELSE old
  <1>1. /\ s \in Slots /\ pc[t] = "session" /\ h \in Handles
        /\ HasSession(slot[s], h)
    BY DEF IInv, TypeOK, RoutingOK, CallsHaveSlot, C_CloseSession, OnSession
  <1>2. /\ SlotOK(old)
        /\ old.sessions = slot[s].sessions
        /\ login_role(old) = old.role
    BY <1>1, ReconcileLemma DEF IInv
  <1>3. SlotOK(out) /\ out.sessions = slot[s].sessions /\ (last => out.role = "none")
    BY <1>2, LogoutForCloseLemma
  <1>4. (\A x \in out.sessions : x.handle \in {h}) => last
    BY <1>1, <1>2, <1>3 DEF HandlesOf, HasSession
  <1> HIDE DEF old, out
  <1>5. /\ SlotOK(Without(out, {h}))
        /\ Without(out, {h}).sessions = {x \in slot[s].sessions : x.handle \notin {h}}
    BY <1>3, <1>4, WithoutLemma
  <1>6. slot' = [slot EXCEPT ![s] = Without(out, {h})]
    BY DEF C_CloseSession, old, out
  <1>7. args' = [args EXCEPT ![t] = {h}]
    BY DEF C_CloseSession, IInv, TypeOK
  <1>8. /\ pc' = [pc EXCEPT ![t] = "unregister"]
        /\ UNCHANGED <<module, routes, nextSession, nextObject, at>>
    BY DEF C_CloseSession
  <1> QED BY <1>1, <1>5, <1>6, <1>7, <1>8, CloseLemma

\* C_CloseAllSessions: no session and no login is left.
LEMMA CloseAllStep ==
    ASSUME IInv, NEW t \in Threads, C_CloseAllSessions(t)
    PROVE  IInv'
  <1> DEFINE s == at[t]
             old == logout_for_close(reconcile_login_state(slot[s]))
             closed == HandlesOf(old)
  <1>1. s \in Slots /\ pc[t] = "slot"
    BY DEF IInv, RoutingOK, CallsHaveSlot, C_CloseAllSessions, OnSlot
  <1>2. SlotOK(old) /\ old.sessions = slot[s].sessions /\ old.role = "none"
    BY <1>1, ReconcileLemma, LogoutForCloseLemma DEF IInv
  <1> HIDE DEF old
  <1>3. closed \in SUBSET Handles /\ \A h \in closed : HasSession(slot[s], h)
    BY <1>2 DEF HandlesOf, HasSession, SlotOK, SlotState, Session
  <1>4. /\ SlotOK(Without(old, closed))
        /\ Without(old, closed).sessions = {x \in slot[s].sessions : x.handle \notin closed}
    BY <1>2, WithoutLemma
  <1>5. /\ slot' = [slot EXCEPT ![s] = Without(old, closed)]
        /\ pc' = [pc EXCEPT ![t] = "unregister"]
        /\ args' = [args EXCEPT ![t] = closed]
        /\ UNCHANGED <<module, routes, nextSession, nextObject, at>>
    BY DEF C_CloseAllSessions, old
  <1> HIDE DEF closed
  <1> QED BY <1>1, <1>3, <1>4, <1>5, CloseLemma

\* unregister_session_slots_in_context drops routes of closed sessions only.
LEMMA UnregisterStep ==
    ASSUME IInv, NEW t \in Threads, UnregisterSessions(t)
    PROVE  IInv'
  <1>1. pc[t] = "unregister" /\ at[t] \in Slots
    BY DEF IInv, RoutingOK, CallsHaveSlot, UnregisterSessions
  <1>2. TypeOK'
    BY DEF IInv, TypeOK, UnregisterSessions, Return
  <1>3. slot' = slot /\ \A h : Given(h)' <=> Given(h)
    BY DEF UnregisterSessions, Given
  <1>4. \A h \in Handles : routes'[h] = IF h \in args[t] THEN NoSlot ELSE routes[h]
    BY DEF UnregisterSessions
  <1>5. \A u \in Threads :
          /\ u # t => pc'[u] = pc[u] /\ at'[u] = at[u] /\ args'[u] = args[u]
          /\ pc'[t] = "idle"
    BY DEF IInv, TypeOK, UnregisterSessions, Return
  <1>6. CallsHaveSlot' /\ HandlesGiven'
    BY <1>3, <1>4, <1>5 DEF IInv, RoutingOK, CallsHaveSlot, HandlesGiven
  <1>7. RegistrationsFree'
    BY <1>3, <1>4, <1>5 DEF IInv, RoutingOK, RegistrationsFree
  <1>8. UnregisteredClosed'
    BY <1>3, <1>5 DEF IInv, RoutingOK, UnregisteredClosed
  <1>9. SessionsRouted'
    <2>1. \A s \in Slots : \A x \in slot[s].sessions :
             x.handle \in Handles /\ x.handle \notin args[t]
      BY <1>1 DEF IInv, TypeOK, SlotState, Session, RoutingOK, UnregisteredClosed, HasSession
    <2> QED BY <1>1, <1>3, <1>4, <1>5, <2>1 DEF IInv, RoutingOK, SessionsRouted
  <1> QED BY <1>2, <1>3, <1>6, <1>7, <1>8, <1>9 DEF IInv, RoutingOK

\* The calls that only change what their slot holds and return.
LEMMA SlotCallStep ==
    ASSUME IInv, NEW t \in Threads, SlotCall(t)
    PROVE  IInv'
  <1> DEFINE old == reconcile_login_state(slot[at[t]])
  <1>1. at[t] \in Slots /\ pc[t] = "slot" /\ SlotOK(slot[at[t]])
    BY DEF IInv, RoutingOK, CallsHaveSlot, SlotCall, C_OpenSessionRefused,
           C_OpenSession, C_CloseAllSessions, C_InitToken, OnSlot
  <1>2. SlotOK(old) /\ old.sessions = slot[at[t]].sessions
    BY <1>1, ReconcileLemma
  <1>3. nextObject \in 0..MaxHandle
    BY DEF IInv, TypeOK
  <1> HIDE DEF old
  <1>4. ASSUME NEW rw \in BOOLEAN, NEW present \in BOOLEAN,
               C_OpenSessionRefused(t, rw, present)
        PROVE  IInv'
    BY <1>1, <1>2, <1>3, <1>4, LeaveLemma DEF C_OpenSessionRefused, old
  <1>5. ASSUME NEW done \in BOOLEAN, C_InitToken(t, done)
        PROVE  IInv'
    <2> DEFINE st == IF done /\ slot[at[t]].sessions = {}
                     THEN [slot[at[t]] EXCEPT !.role = "none", !.lost = FALSE]
                     ELSE slot[at[t]]
    <2>1. SlotOK(st) /\ st.sessions = slot[at[t]].sessions
      BY <1>1 DEF SlotOK, SlotState, HasSession, Roles
    <2>2. slot' = [slot EXCEPT ![at[t]] = st]
      BY <1>1, <1>5 DEF C_InitToken, IInv, TypeOK, SlotState
    <2> HIDE DEF st
    <2> QED BY <1>1, <1>3, <1>5, <2>1, <2>2, LeaveLemma DEF C_InitToken
  <1> QED BY <1>4, <1>5, OpenStep, CloseAllStep DEF SlotCall

\* The calls on a session.
LEMMA SessionCallStep ==
    ASSUME IInv, NEW t \in Threads, NEW h \in args[t], SessionCall(t, h)
    PROVE  IInv'
  <1> DEFINE st == slot[at[t]]
             old == reconcile_login_state(st)
  <1>1. at[t] \in Slots /\ pc[t] = "session" /\ h \in Handles /\ SlotOK(st)
    BY DEF IInv, TypeOK, RoutingOK, CallsHaveSlot, SessionCall, SessionCallRefused,
           C_CloseSession, C_LoginFailed, C_Login, C_Logout, ReconcileOnly,
           C_CreateObject, C_DestroyObject, OperationInit, OperationEnd, OnSession
  <1>2. /\ SlotOK(old) /\ old.sessions = st.sessions
        /\ login_role(old) = old.role
    BY <1>1, ReconcileLemma
  <1>3. nextObject \in 0..MaxHandle
    BY DEF IInv, TypeOK
  <1>4. ASSUME NEW new, SlotOK(new), new.sessions = st.sessions,
               Leave(t, new), nextObject' \in 0..MaxHandle
        PROVE  IInv'
    BY <1>1, <1>4, LeaveLemma DEF Leave
  <1> HIDE DEF old
  <1>5. ASSUME SessionCallRefused(t, h) PROVE IInv'
    <2>1. slot' = [slot EXCEPT ![at[t]] = st]
      BY <1>1, <1>5 DEF SessionCallRefused, IInv, TypeOK
    <2> QED BY <1>1, <1>3, <1>4, <1>5, <2>1 DEF SessionCallRefused, Leave
  <1>6. ASSUME C_LoginFailed(t, h) \/ ReconcileOnly(t, h) PROVE IInv'
    BY <1>2, <1>3, <1>4, <1>6 DEF C_LoginFailed, ReconcileOnly, old
  <1>7. ASSUME NEW r \in {"user", "so"}, NEW refreshed \in BOOLEAN,
               C_Login(t, h, r, refreshed)
        PROVE  IInv'
    <2> DEFINE in == [old EXCEPT !.role = r, !.lost = FALSE]
               out == IF refreshed THEN in ELSE clear_login_state(in)
    <2>1. HasSession(st, h) /\ ~LoginRefused(old, r) /\ Leave(t, out) /\ UNCHANGED nextObject
      BY <1>7 DEF C_Login, OnSession, old
    <2>2. old.role = "none" /\ (r = "so" => \A x \in old.sessions : x.rw)
      <3>1. \A x \in old.sessions : x.rw \in BOOLEAN
        BY <1>2 DEF SlotOK, SlotState, Session
      <3> QED BY <1>2, <2>1, <3>1 DEF LoginRefused
    <2>3. old.sessions # {}
      BY <1>2, <2>1 DEF HasSession
    <2>4. SlotOK(in) /\ in.sessions = old.sessions
      BY <1>2, <2>2, <2>3 DEF SlotOK, SlotState, HasSession, Roles
    <2> HIDE DEF in
    <2>5. SlotOK(out) /\ out.sessions = st.sessions
      BY <1>2, <2>4, ClearLemma
    <2> HIDE DEF out
    <2> QED BY <1>3, <1>4, <2>1, <2>5
  <1>8. ASSUME C_Logout(t, h) PROVE IInv'
    <2>1. PICK out \in logout_slot(old) : Leave(t, out)
      BY <1>8 DEF C_Logout, old
    <2>2. SlotOK(out) /\ out.sessions = old.sessions
      <3>1. CASE out = clear_login_state(old)
        BY <1>2, <3>1, ClearLemma
      <3>2. ASSUME NEW l \in BOOLEAN, out = [old EXCEPT !.lost = l]
            PROVE  SlotOK(out) /\ out.sessions = old.sessions
        BY <1>2, <3>2 DEF SlotOK, SlotState, HasSession
      <3> QED BY <2>1, <3>1, <3>2 DEF logout_slot
    <2> QED BY <1>2, <1>3, <1>4, <1>8, <2>1, <2>2 DEF C_Logout
  <1>9. ASSUME NEW private \in BOOLEAN, C_CreateObject(t, h, private)
        PROVE  IInv'
    <2> DEFINE o == [handle |-> nextObject, creator |-> h, private |-> private]
               new == [st EXCEPT !.objects = @ \cup {o}]
    <2>1. /\ HasSession(st, h) /\ (private => st.role = "user") /\ nextObject # 0
          /\ Leave(t, new) /\ nextObject' = allocate_handle(nextObject)
      BY <1>9 DEF C_CreateObject, OnSession, login_role, Exhausted
    <2>2. nextObject \in Handles /\ nextObject' \in 0..MaxHandle
      BY <1>3, <2>1, MaxHandleAssumption DEF Handles, allocate_handle
    <2>3. o \in Object
      BY <1>1, <2>2 DEF Object
    <2>4. SlotOK(new) /\ new.sessions = st.sessions
      BY <1>1, <2>1, <2>3 DEF SlotOK, SlotState, HasSession, Object
    <2> QED BY <1>4, <2>1, <2>2, <2>4
  <1>10. ASSUME NEW o \in st.objects, C_DestroyObject(t, h, o)
         PROVE  IInv'
    <2> DEFINE new == [st EXCEPT !.objects = @ \ {o}]
    <2>1. SlotOK(new) /\ new.sessions = st.sessions
      BY <1>1 DEF SlotOK, SlotState, HasSession
    <2> QED BY <1>3, <1>4, <1>10, <2>1 DEF C_DestroyObject
  <1>11. ASSUME NEW private \in BOOLEAN, OperationInit(t, h, private)
         PROVE  IInv'
    <2> DEFINE p == [session |-> h, private |-> private]
               new == [st EXCEPT !.operations = @ \cup {p}]
    <2>1. /\ HasSession(st, h) /\ (private => st.role = "user")
          /\ Leave(t, new) /\ UNCHANGED nextObject
      BY <1>11 DEF OperationInit, OnSession, login_role
    <2>2. p \in Operation
      BY <1>1 DEF Operation
    <2>3. SlotOK(new) /\ new.sessions = st.sessions
      BY <1>1, <2>1, <2>2 DEF SlotOK, SlotState, HasSession, Operation
    <2> QED BY <1>3, <1>4, <2>1, <2>3
  <1>12. ASSUME NEW p \in st.operations, OperationEnd(t, h, p)
         PROVE  IInv'
    <2> DEFINE new == [st EXCEPT !.operations = @ \ {p}]
    <2>1. SlotOK(new) /\ new.sessions = st.sessions
      BY <1>1 DEF SlotOK, SlotState, HasSession
    <2> QED BY <1>3, <1>4, <1>12, <2>1 DEF OperationEnd
  <1> QED BY <1>5, <1>6, <1>7, <1>8, <1>9, <1>10, <1>11, <1>12, CloseStep
      DEF SessionCall

\* Entering a call, by slot ID or by session handle.
LEMMA EnterStep ==
    ASSUME IInv, NEW t \in Threads,
           (\E s \in Slots : EnterSlot(t, s)) \/ (\E h \in Handles : EnterSession(t, h))
    PROVE  IInv'
  <1>1. PICK s \in Slots, called \in SUBSET Handles, step \in {"slot", "session"} :
          /\ pc' = [pc EXCEPT ![t] = step]
          /\ at' = [at EXCEPT ![t] = s]
          /\ args' = [args EXCEPT ![t] = called]
          /\ UNCHANGED <<module, slot, routes, nextSession, nextObject>>
          /\ pc[t] = "idle"
    <2>1. CASE \E s \in Slots : EnterSlot(t, s)
      <3>1. args' = [args EXCEPT ![t] = args[t]] /\ args[t] \in SUBSET Handles
        BY <2>1 DEF EnterSlot, IInv, TypeOK
      <3> QED BY <2>1, <3>1 DEF EnterSlot
    <2>2. CASE \E h \in Handles : EnterSession(t, h)
      <3>1. PICK h \in Handles : EnterSession(t, h)
        BY <2>2
      <3>2. routes[h] \in Slots /\ {h} \in SUBSET Handles
        BY <3>1 DEF EnterSession, IInv, TypeOK
      <3> QED BY <3>1, <3>2 DEF EnterSession
    <2> QED BY <2>1, <2>2
  <1>2. TypeOK'
    BY <1>1 DEF IInv, TypeOK
  <1>3. \A h : Given(h)' <=> Given(h)
    BY <1>1 DEF Given
  <1>4. \A u \in Threads :
          /\ u # t => pc'[u] = pc[u] /\ at'[u] = at[u] /\ args'[u] = args[u]
          /\ pc'[t] = step /\ at'[t] = s
    BY <1>1 DEF IInv, TypeOK
  <1>5. CallsHaveSlot' /\ HandlesGiven'
    BY <1>1, <1>3, <1>4 DEF IInv, RoutingOK, CallsHaveSlot, HandlesGiven
  <1>6. RegistrationsFree' /\ UnregisteredClosed'
    BY <1>1, <1>3, <1>4 DEF IInv, RoutingOK, RegistrationsFree, UnregisteredClosed
  <1>7. SessionsRouted'
    BY <1>1, <1>4 DEF IInv, RoutingOK, SessionsRouted
  <1> QED BY <1>1, <1>2, <1>5, <1>6, <1>7 DEF IInv, RoutingOK

\* A login that is lost changes nothing the invariant looks at.
LEMMA LoseStep ==
    ASSUME IInv, NEW s \in Slots, LoseLogin(s)
    PROVE  IInv'
  <1> DEFINE new == [slot[s] EXCEPT !.lost = TRUE]
  <1>1. SlotOK(new) /\ new.sessions = slot[s].sessions
    BY DEF IInv, SlotOK, SlotState, HasSession
  <1>2. slot' = [slot EXCEPT ![s] = new]
    BY DEF LoseLogin, IInv, TypeOK, SlotState
  <1> HIDE DEF new
  <1>3. TypeOK'
    BY <1>1, <1>2, ZenonT(30) DEF LoseLogin, IInv, TypeOK, SlotOK
  <1>4. \A u \in Slots : SlotOK(slot'[u]) /\ slot'[u].sessions = slot[u].sessions
    BY <1>1, <1>2 DEF IInv, TypeOK
  <1>5. \A u \in Slots, h \in Handles : HasSession(slot'[u], h) <=> HasSession(slot[u], h)
    BY <1>4 DEF HasSession
  <1>6. \A h : Given(h)' <=> Given(h)
    BY DEF LoseLogin, Given
  <1>7. UNCHANGED <<routes, pc, at, args>>
    BY DEF LoseLogin
  <1>8. CallsHaveSlot' /\ HandlesGiven' /\ RegistrationsFree'
    BY <1>5, <1>6, <1>7 DEF IInv, RoutingOK, CallsHaveSlot, HandlesGiven, RegistrationsFree
  <1>9. UnregisteredClosed'
    BY <1>5, <1>6, <1>7 DEF IInv, TypeOK, RoutingOK, UnregisteredClosed
  <1>10. SessionsRouted'
    BY <1>4, <1>7 DEF IInv, RoutingOK, SessionsRouted
  <1> QED BY <1>3, <1>4, <1>8, <1>9, <1>10 DEF IInv, RoutingOK

\* A module context without slots in use: after C_Initialize and C_Finalize.
LEMMA FreshContext ==
    ASSUME module \in BOOLEAN,
           slot = [s \in Slots |-> EmptySlot], routes = [h \in Handles |-> NoSlot],
           nextSession = 1, nextObject = 1,
           pc \in [Threads -> {"idle"}],
           at \in [Threads -> Slots \cup {NoSlot}], args \in [Threads -> SUBSET Handles]
    PROVE  IInv
  <1>1. SlotOK(EmptySlot)
    BY DEF SlotOK, EmptySlot, SlotState, Roles, HasSession
  <1>2. TypeOK
    BY <1>1, MaxHandleAssumption DEF TypeOK, SlotOK
  <1>3. \A s \in Slots : slot[s] = EmptySlot /\ slot[s].sessions = {}
    BY DEF EmptySlot
  <1>4. RoutingOK
    BY <1>3 DEF RoutingOK, CallsHaveSlot, HandlesGiven, RegistrationsFree,
                UnregisteredClosed, SessionsRouted, HasSession
  <1> QED BY <1>1, <1>2, <1>3, <1>4 DEF IInv

\* IInv is an invariant of every behaviour of the module.
THEOREM Invariance == Spec => []IInv
  <1>1. Init => IInv
    BY FreshContext DEF Init
  <1>2. IInv /\ [Next]_vars => IInv'
    <2> SUFFICES ASSUME IInv, [Next]_vars PROVE IInv'
      OBVIOUS
    <2>1. CASE C_Initialize
      BY <2>1 DEF C_Initialize, IInv, TypeOK, RoutingOK, CallsHaveSlot, HandlesGiven,
                  RegistrationsFree, UnregisteredClosed, SessionsRouted, Given
    <2>2. CASE C_Finalize
      <3>1. pc \in [Threads -> {"idle"}]
        BY <2>2 DEF C_Finalize, Quiescent, IInv, TypeOK
      <3>2. /\ at \in [Threads -> Slots \cup {NoSlot}]
            /\ args \in [Threads -> SUBSET Handles]
        BY DEF IInv, TypeOK
      <3>3. (module \in BOOLEAN)' /\ (nextSession = 1)' /\ (nextObject = 1)'
            /\ (slot = [s \in Slots |-> EmptySlot])' /\ (routes = [h \in Handles |-> NoSlot])'
            /\ UNCHANGED <<pc, at, args>>
        BY <2>2 DEF C_Finalize
      <3>4. TypeOK'
        BY <3>1, <3>2, <3>3, MaxHandleAssumption DEF TypeOK, EmptySlot, SlotState, Roles
      <3>5. \A s \in Slots : slot'[s] = EmptySlot /\ slot'[s].sessions = {}
        BY <3>3 DEF EmptySlot
      <3>6. SlotOK(EmptySlot)
        BY DEF SlotOK, EmptySlot, SlotState, Roles, HasSession
      <3>7. RoutingOK'
        BY <3>1, <3>3, <3>5 DEF RoutingOK, CallsHaveSlot, HandlesGiven, RegistrationsFree,
                    UnregisteredClosed, SessionsRouted, HasSession
      <3> QED BY <3>4, <3>5, <3>6, <3>7 DEF IInv
    <2>3. CASE \E s \in Slots : LoseLogin(s)
      BY <2>3, LoseStep
    <2>4. ASSUME NEW t \in Threads,
                 \/ \E s \in Slots : EnterSlot(t, s)
                 \/ \E h \in Handles : EnterSession(t, h)
          PROVE  IInv'
      BY <2>4, EnterStep
    <2>5. ASSUME NEW t \in Threads,
                 \/ SlotCall(t)
                 \/ \E h \in args[t] : SessionCall(t, h) \/ RegisterSession(t, h)
                 \/ UnregisterSessions(t)
          PROVE  IInv'
      BY <2>5, SlotCallStep, SessionCallStep, RegisterStep, UnregisterStep
    <2>6. CASE UNCHANGED vars
      BY <2>6 DEF vars, IInv, TypeOK, RoutingOK, CallsHaveSlot, HandlesGiven,
                  RegistrationsFree, UnregisteredClosed, SessionsRouted, Given
    <2> QED BY <2>1, <2>2, <2>3, <2>4, <2>5, <2>6 DEF Next
  <1> QED BY <1>1, <1>2, PTL DEF Spec

\* Every variable keeps its type.
THEOREM TypeCorrect == Spec => []TypeOK
  BY Invariance, PTL DEF IInv

\* The Security Officer and read-only sessions exclude each other.
THEOREM SoExclusion == Spec => []SoExcludesReadOnly
  <1>1. IInv => SoExcludesReadOnly
    BY DEF IInv, SlotOK, SoExcludesReadOnly
  <1> QED BY <1>1, Invariance, PTL

\* Closing a slot's sessions, in any way and order, ends its login.
THEOREM LoginNeedsSession == Spec => []NoLoginWithoutSession
  <1>1. IInv => NoLoginWithoutSession
    BY DEF IInv, SlotOK, NoLoginWithoutSession
  <1> QED BY <1>1, Invariance, PTL

\* No private session object or operation outlives the user login.
THEOREM PrivacyOfObjects == Spec => []PrivateNeedsUser
  <1>1. IInv => PrivateNeedsUser
    BY DEF IInv, SlotOK, PrivateNeedsUser
  <1> QED BY <1>1, Invariance, PTL

\* No session object outlives its creator, no operation its session.
THEOREM OwnersOpen == Spec => []OwnersAreOpen
  <1>1. IInv => OwnersAreOpen
    BY DEF IInv, SlotOK, OwnersAreOpen
  <1> QED BY <1>1, Invariance, PTL

\* Open sessions can be reached by their handles.
THEOREM Routed == Spec => []SessionsRouted
  <1>1. IInv => SessionsRouted
    BY DEF IInv, RoutingOK
  <1> QED BY <1>1, Invariance, PTL

\* Only C_OpenSession opens a session, and its handle is new.
LEMMA OpensOnlyFresh ==
    ASSUME IInv, Next, module',
           NEW h \in Handles, Given(h), NEW s \in Slots, ~HasSession(slot[s], h)
    PROVE  ~HasSession(slot'[s], h)
  <1>1. \A u \in Slots : SlotOK(slot[u])
    BY DEF IInv
  <1>2. \A u \in Slots : reconcile_login_state(slot[u]).sessions = slot[u].sessions
    BY <1>1, ReconcileLemma
  <1>3. CASE slot'[s].sessions \subseteq slot[s].sessions
    BY <1>3 DEF HasSession
  <1>4. CASE C_Initialize \/ C_Finalize
    BY <1>3, <1>4 DEF C_Initialize, C_Finalize
  <1>5. CASE \E u \in Slots : LoseLogin(u)
    BY <1>3, <1>5 DEF LoseLogin, IInv, TypeOK, SlotState
  <1>6. ASSUME NEW t \in Threads,
               \/ \E u \in Slots : EnterSlot(t, u)
               \/ \E g \in Handles : EnterSession(t, g)
               \/ UnregisterSessions(t)
        PROVE  slot' = slot
    BY <1>6 DEF EnterSlot, EnterSession, UnregisterSessions
  <1>7. ASSUME NEW t \in Threads, NEW g \in args[t], RegisterSession(t, g)
        PROVE  slot' = slot
    BY <1>7 DEF RegisterSession, IInv, RoutingOK, RegistrationsFree
  <1>8. ASSUME NEW t \in Threads, SlotCall(t)
        PROVE  ~HasSession(slot'[s], h)
    <2>1. at[t] \in Slots
      BY <1>8 DEF IInv, RoutingOK, CallsHaveSlot, SlotCall, C_OpenSessionRefused,
                  C_OpenSession, C_CloseAllSessions, C_InitToken, OnSlot
    <2>2. CASE \E rw, present \in BOOLEAN : C_OpenSessionRefused(t, rw, present)
      BY <1>2, <1>3, <2>1, <2>2 DEF C_OpenSessionRefused, IInv, TypeOK
    <2>3. CASE C_CloseAllSessions(t)
      <3> DEFINE st == logout_for_close(reconcile_login_state(slot[at[t]]))
      <3>1. SlotOK(st) /\ st.sessions = slot[at[t]].sessions /\ st.role = "none"
        BY <1>1, <2>1, ReconcileLemma, LogoutForCloseLemma
      <3>2. slot' = [slot EXCEPT ![at[t]] = Without(st, HandlesOf(st))]
        BY <2>3 DEF C_CloseAllSessions
      <3> HIDE DEF st
      <3>3. Without(st, HandlesOf(st)).sessions \subseteq slot[at[t]].sessions
        BY <3>1, WithoutLemma
      <3> QED BY <1>3, <2>1, <3>2, <3>3 DEF IInv, TypeOK
    <2>4. CASE \E done \in BOOLEAN : C_InitToken(t, done)
      BY <1>3, <2>1, <2>4 DEF C_InitToken, IInv, TypeOK, SlotState
    <2>5. ASSUME NEW rw \in BOOLEAN, C_OpenSession(t, rw)
          PROVE  ~HasSession(slot'[s], h)
      <3> DEFINE new == [handle |-> nextSession, rw |-> rw]
      <3>1. new.handle = nextSession /\ h # nextSession
        BY <2>5 DEF Given, C_OpenSession, OpenRefused, Exhausted, IInv, TypeOK, Handles
      <3>2. reconcile_login_state(slot[at[t]]) \in SlotState
        BY <1>1, <2>1, ReconcileLemma DEF SlotOK
      <3>3. slot'[s].sessions \subseteq slot[s].sessions \cup {new}
        BY <1>2, <2>1, <2>5, <3>2 DEF C_OpenSession, IInv, TypeOK, SlotState
      <3> HIDE DEF new
      <3> QED BY <3>1, <3>3 DEF HasSession
    <2> QED BY <1>8, <2>2, <2>3, <2>4, <2>5 DEF SlotCall
  <1>9. ASSUME NEW t \in Threads, NEW g \in args[t], SessionCall(t, g)
        PROVE  slot'[s].sessions \subseteq slot[s].sessions
    <2> DEFINE st == slot[at[t]]
               old == reconcile_login_state(st)
    <2>1. at[t] \in Slots /\ SlotOK(st) /\ st \in SlotState /\ slot \in [Slots -> SlotState]
      BY <1>9 DEF IInv, TypeOK, RoutingOK, CallsHaveSlot, SessionCall, SessionCallRefused,
             C_CloseSession, C_LoginFailed, C_Login, C_Logout, ReconcileOnly,
             C_CreateObject, C_DestroyObject, OperationInit, OperationEnd, OnSession
    <2>2. SlotOK(old) /\ old \in SlotState /\ old.sessions = st.sessions
          /\ login_role(old) = old.role
      BY <2>1, ReconcileLemma DEF SlotOK
    <2>3. ASSUME NEW new, new.sessions \subseteq st.sessions,
                 slot' = [slot EXCEPT ![at[t]] = new]
          PROVE  slot'[s].sessions \subseteq slot[s].sessions
      BY <2>1, <2>3
    <2> HIDE DEF old
    <2>4. CASE SessionCallRefused(t, g)
      BY <2>4 DEF SessionCallRefused
    <2>5. CASE C_CloseSession(t, g)
      <3> DEFINE out == IF HandlesOf(old) = {g} THEN logout_for_close(old) ELSE old
      <3>1. out.sessions = st.sessions /\ slot' = [slot EXCEPT ![at[t]] = Without(out, {g})]
        BY <2>2, <2>5, LogoutForCloseLemma DEF C_CloseSession, old
      <3>2. out \in SlotState
        BY <2>2, LogoutForCloseLemma DEF SlotOK
      <3> HIDE DEF out
      <3>3. Without(out, {g}).sessions \subseteq out.sessions
        BY <3>2 DEF Without, SlotState
      <3> QED BY <2>3, <3>1, <3>3
    <2>6. CASE C_LoginFailed(t, g) \/ ReconcileOnly(t, g)
      BY <2>2, <2>3, <2>6 DEF C_LoginFailed, ReconcileOnly, Leave, old
    <2>7. ASSUME NEW r \in {"user", "so"}, NEW refreshed \in BOOLEAN,
                 C_Login(t, g, r, refreshed)
          PROVE  slot'[s].sessions \subseteq slot[s].sessions
      BY <2>2, <2>3, <2>7 DEF C_Login, Leave, old, clear_login_state, SlotState
    <2>8. CASE C_Logout(t, g)
      <3>1. PICK out \in logout_slot(old) : Leave(t, out)
        BY <2>8 DEF C_Logout, old
      <3>2. out.sessions = old.sessions
        BY <2>2, <3>1 DEF logout_slot, clear_login_state, SlotState
      <3> QED BY <2>2, <2>3, <3>1, <3>2 DEF Leave
    <2>9. CASE \/ \E private \in BOOLEAN : C_CreateObject(t, g, private)
               \/ \E o \in st.objects : C_DestroyObject(t, g, o)
               \/ \E private \in BOOLEAN : OperationInit(t, g, private)
               \/ \E p \in st.operations : OperationEnd(t, g, p)
      BY <2>1, <2>3, <2>9
      DEF C_CreateObject, C_DestroyObject, OperationInit, OperationEnd, Leave, SlotState
    <2> QED BY <1>9, <2>4, <2>5, <2>6, <2>7, <2>8, <2>9 DEF SessionCall
  <1> QED BY <1>3, <1>4, <1>5, <1>6, <1>7, <1>8, <1>9 DEF Next

\* Until C_Finalize no closed session handle is open again.
THEOREM HandlesNotReused == Spec => ClosedStaysClosed
  <1>1. IInv /\ [Next]_vars =>
          [module' => \A h \in Handles :
              Given(h) /\ (\A s \in Slots : ~HasSession(slot[s], h))
              => \A s \in Slots : ~HasSession(slot'[s], h)]_vars
    BY OpensOnlyFresh
  <1> QED BY <1>1, Invariance, PTL DEF Spec, ClosedStaysClosed

-----------------------------------------------------------------------------
(* The refinement.  View is what TokenSessions sees of a slot.  Each       *)
(* helper on slot states has its image in views, and each critical section *)
(* maps to one abstract action or to none.                                 *)

View(st) == [sessions |-> st.sessions, role |-> st.role, objects |-> st.objects]
Tokens == [s \in Slots |-> View(slot[s])]
Used == {h \in Handles : Given(h)}

Views == [sessions : SUBSET Session, role : Roles, objects : SUBSET Object]

\* A view is its three fields.
LEMMA ViewExtensional ==
    ASSUME NEW k \in Views, NEW l \in Views,
           k.sessions = l.sessions, k.role = l.role, k.objects = l.objects
    PROVE  k = l
  BY DEF Views

\* The view of a slot state, and of a session opened in it.
LEMMA ViewFields ==
    ASSUME NEW st \in SlotState
    PROVE  /\ View(st) \in Views
           /\ View(st).sessions = st.sessions
           /\ View(st).role = st.role
           /\ View(st).objects = st.objects
  BY DEF View, Views, SlotState

\* The fields of an abstract logout.
LEMMA PublicFields ==
    ASSUME NEW k \in Views
    PROVE  /\ Promise!Public(k) \in Views
           /\ Promise!Public(k).sessions = k.sessions
           /\ Promise!Public(k).role = "none"
           /\ Promise!Public(k).objects = {o \in k.objects : ~o.private}
  BY DEF Promise!Public, Views, Roles

\* Dropping a login is the abstract logout; without a login it changes nothing.
LEMMA ClearView ==
    ASSUME NEW st, SlotOK(st)
    PROVE  /\ View(clear_login_state(st)) = Promise!Public(View(st))
           /\ st.role = "none" => Promise!Public(View(st)) = View(st)
  <1> DEFINE new == clear_login_state(st)
             old == View(st)
  <1>1. st \in SlotState /\ new \in SlotState
    BY ClearLemma DEF SlotOK
  <1>2. new.objects = {o \in st.objects : ~o.private}
    BY <1>1 DEF clear_login_state, SlotState
  <1>3. new.sessions = st.sessions /\ new.role = "none"
    BY ClearLemma
  <1> HIDE DEF new
  <1>4. /\ old \in Views /\ View(new) \in Views
        /\ old.sessions = st.sessions /\ old.objects = st.objects /\ old.role = st.role
        /\ View(new).sessions = new.sessions /\ View(new).role = new.role
        /\ View(new).objects = new.objects
    BY <1>1, ViewFields
  <1> HIDE DEF old
  <1>5. View(new) = Promise!Public(old)
    BY <1>2, <1>3, <1>4, PublicFields, ViewExtensional
  <1>6. ASSUME st.role = "none"
        PROVE  {o \in st.objects : ~o.private} = st.objects
    BY <1>6 DEF SlotOK
  <1>7. ASSUME st.role = "none"
        PROVE  Promise!Public(old) = old
    <2> DEFINE pub == Promise!Public(old)
    <2>1. /\ pub \in Views /\ pub.sessions = old.sessions
          /\ pub.role = "none" /\ pub.objects = {o \in old.objects : ~o.private}
      BY <1>4, PublicFields
    <2>2. pub.role = old.role /\ pub.objects = old.objects
      BY <1>4, <1>6, <1>7, <2>1
    <2> HIDE DEF pub
    <2>3. pub = old
      BY <1>4, <2>1, <2>2, ViewExtensional
    <2> QED BY <2>3 DEF pub
  <1> QED BY <1>5, <1>7 DEF new, old

\* Reconciling is what the abstract token may do at any use: notice that the
\* login has ended.
LEMMA ReconcileView ==
    ASSUME NEW st, SlotOK(st)
    PROVE  View(reconcile_login_state(st)) \in Promise!NoticedFrom(View(st))
  BY ClearView DEF reconcile_login_state, Promise!NoticedFrom

\* The logout of the last session is the abstract logout, login or none.
LEMMA LogoutForCloseView ==
    ASSUME NEW st, SlotOK(st), login_role(st) = st.role
    PROVE  View(logout_for_close(st)) = Promise!Public(View(st))
  BY ClearView DEF logout_for_close

\* The fields of a slot some of whose sessions were closed.
LEMMA WithoutFields ==
    ASSUME NEW st \in SlotState, NEW closed
    PROVE  /\ Without(st, closed) \in SlotState
           /\ Without(st, closed).role = st.role
           /\ Without(st, closed).sessions = {x \in st.sessions : x.handle \notin closed}
           /\ Without(st, closed).objects = {o \in st.objects : o.creator \notin closed}
  BY DEF Without, SlotState

\* A step that changes one slot changes one token.
LEMMA BecomesView ==
    ASSUME IInv, NEW s \in Slots, NEW new, slot' = [slot EXCEPT ![s] = new]
    PROVE  /\ Tokens' = [Tokens EXCEPT ![s] = View(new)]
           /\ Tokens[s] = View(slot[s])
  <1>1. slot \in [Slots -> SlotState]
    BY DEF IInv, TypeOK
  <1>2. \A u \in Slots : slot'[u] = IF u = s THEN new ELSE slot[u]
    BY <1>1
  <1>3. Tokens' = [u \in Slots |-> View(slot'[u])]
    BY DEF Tokens, View
  <1>4. \A u \in Slots : Tokens[u] = View(slot[u])
    BY DEF Tokens
  <1>5. Tokens' = [u \in Slots |-> IF u = s THEN View(new) ELSE Tokens[u]]
    BY <1>2, <1>3, <1>4
  <1>6. Tokens = [u \in Slots |-> Tokens[u]]
    BY <1>4 DEF Tokens
  <1> HIDE DEF Tokens
  <1> QED BY <1>4, <1>5, <1>6

\* The variables of the abstract specification.
LEMMA AbstractVars ==
    /\ Promise!vars = <<Tokens, Used>>
    /\ Promise!vars' = <<Tokens', Used'>>
  BY DEF Promise!vars, Tokens, Used, View

\* A step that leaves the views and the session counter alone is a stutter.
LEMMA SameView ==
    ASSUME \A s \in Slots : View(slot'[s]) = View(slot[s]), nextSession' = nextSession
    PROVE  UNCHANGED Promise!vars
  <1>1. Used' = Used
    BY DEF Used, Given
  <1>2. Tokens' = [u \in Slots |-> View(slot'[u])]
    BY DEF Tokens, View
  <1> QED BY <1>1, <1>2, AbstractVars DEF Tokens

\* A step after which a slot is as it was, or as after a logout.
LEMMA NoticeView ==
    ASSUME IInv, NEW s \in Slots, NEW new, slot' = [slot EXCEPT ![s] = new],
           View(new) \in Promise!NoticedFrom(View(slot[s])), nextSession' = nextSession
    PROVE  [Promise!Next]_Promise!vars
  <1>1. Used' = Used
    BY DEF Used, Given
  <1>2. CASE View(new) = View(slot[s])
    <2>1. \A u \in Slots : View(slot'[u]) = View(slot[u])
      BY <1>2 DEF IInv, TypeOK
    <2> QED BY <2>1, SameView
  <1>3. CASE View(new) = Promise!Public(View(slot[s]))
    <2>1. Tokens' = [Tokens EXCEPT ![s] = Promise!Public(Tokens[s])]
      BY <1>3, BecomesView
    <2>2. Promise!Notice(s)
      BY <1>1, <2>1 DEF Promise!Notice, Tokens, View, Used
    <2> QED BY <2>2 DEF Promise!Next
  <1> QED BY <1>2, <1>3 DEF Promise!NoticedFrom

\* C_OpenSession is the abstract Open, of a handle that was never given out.
LEMMA OpenRefines ==
    ASSUME IInv, NEW t \in Threads, NEW rw \in BOOLEAN, C_OpenSession(t, rw)
    PROVE  Promise!Next
  <1> DEFINE s == at[t]
             x == [handle |-> nextSession, rw |-> rw]
             old == reconcile_login_state(slot[s])
             new == [old EXCEPT !.sessions = @ \cup {x}]
             k == View(old)
             l == [k EXCEPT !.sessions = @ \cup {x}]
  <1>1. s \in Slots /\ SlotOK(slot[s])
    BY DEF IInv, RoutingOK, CallsHaveSlot, C_OpenSession, OnSlot
  <1>2. old \in SlotState /\ login_role(old) = old.role
    BY <1>1, ReconcileLemma DEF SlotOK
  <1>3. k \in Promise!NoticedFrom(Tokens[s])
    BY <1>1, ReconcileView DEF Tokens
  <1>4. ~rw => old.role # "so"
    BY <1>2 DEF C_OpenSession, OpenRefused
  <1>5. nextSession \in Handles
    BY MaxHandleAssumption DEF IInv, TypeOK, C_OpenSession, OpenRefused, Exhausted, Handles
  <1>6. nextSession \notin Used /\ Used' = Used \cup {nextSession}
    BY <1>5, MaxHandleAssumption DEF Used, Given, C_OpenSession, allocate_handle, Handles
  <1>7. x \in Session
    BY <1>5 DEF Session
  <1>8. slot' = [slot EXCEPT ![s] = new]
    BY DEF C_OpenSession
  <1> HIDE DEF x, old
  <1>9. /\ new \in SlotState /\ new.sessions = old.sessions \cup {x}
        /\ new.role = old.role /\ new.objects = old.objects
    BY <1>2, <1>7 DEF SlotState
  <1>10. /\ k \in Views /\ k.sessions = old.sessions /\ k.role = old.role
         /\ k.objects = old.objects
    BY <1>2, ViewFields
  <1> HIDE DEF new, k
  <1>11. /\ View(new) \in Views /\ View(new).sessions = new.sessions
         /\ View(new).role = new.role /\ View(new).objects = new.objects
    BY <1>9, ViewFields
  <1>12. /\ l \in Views /\ l.sessions = k.sessions \cup {x}
         /\ l.role = k.role /\ l.objects = k.objects
    BY <1>7, <1>10 DEF Views
  <1> HIDE DEF l
  <1>13. View(new) = l
    BY <1>9, <1>10, <1>11, <1>12, ViewExtensional, ZenonT(30)
  <1>14. Tokens' = [Tokens EXCEPT ![s] = l]
    BY <1>1, <1>8, <1>13, BecomesView
  <1>15. Promise!Open(s, nextSession, rw)
    <2>1. /\ k \in Promise!NoticedFrom(Tokens[s])
          /\ ~rw => k.role # "so"
          /\ Tokens' = [Tokens EXCEPT ![s] =
                 [k EXCEPT !.sessions = @ \cup {[handle |-> nextSession, rw |-> rw]}]]
      BY <1>3, <1>4, <1>10, <1>14 DEF l, x
    <2> QED BY <1>6, <2>1 DEF Promise!Open, Tokens, View, Used
  <1> QED BY <1>1, <1>5, <1>15 DEF Promise!Next

\* A step that closes sessions of one slot is the abstract Close.
LEMMA CloseRefines ==
    ASSUME IInv, NEW s \in Slots, NEW closed \in SUBSET Handles,
           NEW st, st = reconcile_login_state(slot[s]),
           NEW out, out = IF {x \in st.sessions : x.handle \notin closed} = {}
                          THEN logout_for_close(st) ELSE st,
           slot' = [slot EXCEPT ![s] = Without(out, closed)], nextSession' = nextSession
    PROVE  Promise!Next
  <1> DEFINE k == View(st)
             left == {x \in k.sessions : x.handle \notin closed}
             kout == IF left = {} THEN Promise!Public(k) ELSE k
  <1>1. SlotOK(st) /\ login_role(st) = st.role /\ st \in SlotState
    BY ReconcileLemma DEF IInv, SlotOK
  <1>2. k \in Promise!NoticedFrom(Tokens[s])
    BY ReconcileView DEF IInv, Tokens
  <1>3. k \in Views /\ k.sessions = st.sessions
    BY <1>1, ViewFields
  <1>4. out \in SlotState /\ View(out) = kout
    BY <1>1, <1>3, LogoutForCloseLemma, LogoutForCloseView DEF SlotOK
  <1>5. Used' = Used
    BY DEF Used, Given
  <1> HIDE DEF k
  <1>6. kout \in Views /\ kout.sessions = k.sessions
    BY <1>3, PublicFields
  <1> HIDE DEF kout
  <1> DEFINE new == Without(out, closed)
             kept == {o \in kout.objects : o.creator \notin closed}
             l == [kout EXCEPT !.sessions = left, !.objects = kept]
  <1>7. /\ new \in SlotState /\ new.role = out.role
        /\ new.sessions = {x \in out.sessions : x.handle \notin closed}
        /\ new.objects = {o \in out.objects : o.creator \notin closed}
    BY <1>4, WithoutFields
  <1>8. /\ kout.sessions = out.sessions /\ kout.role = out.role
        /\ kout.objects = out.objects
    BY <1>4, ViewFields
  <1> HIDE DEF new
  <1>9. View(new) = l
    <2>1. new.sessions = left /\ new.objects = kept /\ left \in SUBSET Session
          /\ kept \in SUBSET Object
      BY <1>6, <1>7, <1>8 DEF Views
    <2> HIDE DEF left, kept
    <2>2. l \in Views /\ l.role = kout.role /\ l.sessions = left /\ l.objects = kept
      BY <1>6, <2>1 DEF Views
    <2>3. View(new) \in Views /\ View(new).sessions = new.sessions
          /\ View(new).role = new.role /\ View(new).objects = new.objects
      BY <1>7, ViewFields
    <2> HIDE DEF l
    <2>4. l.sessions = View(new).sessions /\ l.role = View(new).role
          /\ l.objects = View(new).objects
      BY <1>7, <1>8, <2>1, <2>2, <2>3
    <2> QED BY <2>2, <2>3, <2>4, ViewExtensional
  <1>10. Tokens' = [Tokens EXCEPT ![s] = l]
    BY <1>9, BecomesView DEF new
  <1>11. Promise!Close(s, closed)
    BY <1>2, <1>5, <1>10 DEF Promise!Close, Tokens, View, Used, kout
  <1> QED BY <1>11 DEF Promise!Next

\* C_Login with its refresh done is the abstract Login.
LEMMA LoginRefines ==
    ASSUME IInv, NEW t \in Threads, NEW h \in args[t], NEW r \in {"user", "so"},
           C_Login(t, h, r, TRUE)
    PROVE  Promise!Next
  <1> DEFINE s == at[t]
             old == reconcile_login_state(slot[s])
             new == [old EXCEPT !.role = r, !.lost = FALSE]
             k == View(old)
             l == [k EXCEPT !.role = r]
  <1>1. s \in Slots /\ SlotOK(slot[s])
    BY DEF IInv, RoutingOK, CallsHaveSlot, C_Login, OnSession
  <1>2. old \in SlotState /\ login_role(old) = old.role /\ old.sessions = slot[s].sessions
    BY <1>1, ReconcileLemma DEF SlotOK
  <1>3. k \in Promise!NoticedFrom(Tokens[s])
    BY <1>1, ReconcileView DEF Tokens
  <1>4. slot[s].sessions # {} /\ slot' = [slot EXCEPT ![s] = new] /\ nextSession' = nextSession
    BY DEF C_Login, OnSession, HasSession, Leave
  <1>5. old.role = "none" /\ (r = "so" => \A x \in old.sessions : x.rw)
    BY <1>2 DEF C_Login, LoginRefused
  <1> HIDE DEF old
  <1>6. /\ new \in SlotState /\ new.sessions = old.sessions
        /\ new.role = r /\ new.objects = old.objects
    BY <1>2 DEF SlotState, Roles
  <1>7. /\ k \in Views /\ k.sessions = old.sessions /\ k.role = old.role
        /\ k.objects = old.objects
    BY <1>2, ViewFields
  <1> HIDE DEF new, k
  <1>8. /\ View(new) \in Views /\ View(new).sessions = new.sessions
        /\ View(new).role = new.role /\ View(new).objects = new.objects
    BY <1>6, ViewFields
  <1>9. l \in Views /\ l.sessions = k.sessions /\ l.role = r /\ l.objects = k.objects
    BY <1>7 DEF Views, Roles
  <1> HIDE DEF l
  <1>10. View(new) = l
    BY <1>6, <1>7, <1>8, <1>9, ViewExtensional
  <1>11. Tokens' = [Tokens EXCEPT ![s] = l] /\ Tokens[s] = View(slot[s])
    BY <1>1, <1>4, <1>10, BecomesView
  <1>12. Tokens[s].sessions # {}
    BY <1>1, <1>4, <1>11, ViewFields DEF SlotOK
  <1>13. Used' = Used
    BY <1>4 DEF Used, Given
  <1>14. Promise!Login(s, r)
    <2>1. /\ k \in Promise!NoticedFrom(Tokens[s])
          /\ k.role = "none"
          /\ r = "so" => \A x \in k.sessions : x.rw
          /\ Tokens' = [Tokens EXCEPT ![s] = [k EXCEPT !.role = r]]
      BY <1>3, <1>5, <1>7, <1>11 DEF l
    <2> QED BY <1>12, <1>13, <2>1 DEF Promise!Login, Tokens, View, Used
  <1> QED BY <1>1, <1>14 DEF Promise!Next

\* C_CreateObject and C_DestroyObject are the abstract Create and Destroy.
LEMMA ObjectsRefine ==
    ASSUME IInv, NEW t \in Threads, NEW h \in args[t],
           \/ \E private \in BOOLEAN : C_CreateObject(t, h, private)
           \/ \E o \in slot[at[t]].objects : C_DestroyObject(t, h, o)
    PROVE  Promise!Next
  <1> DEFINE s == at[t]
             st == slot[s]
             k == View(st)
  <1>1. s \in Slots /\ SlotOK(st) /\ st \in SlotState /\ h \in Handles
    BY DEF IInv, TypeOK, SlotOK, RoutingOK, CallsHaveSlot, C_CreateObject, C_DestroyObject,
           OnSession
  <1>2. /\ k \in Views /\ k.sessions = st.sessions /\ k.role = st.role
        /\ k.objects = st.objects
    BY <1>1, ViewFields
  <1>3. Tokens[s] = k
    BY <1>1 DEF Tokens
  <1>4. nextSession' = nextSession /\ HasSession(st, h)
    BY DEF C_CreateObject, C_DestroyObject, OnSession, Leave
  <1>5. Used' = Used
    BY <1>4 DEF Used, Given
  <1>6. ASSUME NEW objs \in SUBSET Object, slot' = [slot EXCEPT ![s] = [st EXCEPT !.objects = objs]]
        PROVE  Tokens' = [Tokens EXCEPT ![s] = [k EXCEPT !.objects = objs]]
    <2> DEFINE new == [st EXCEPT !.objects = objs]
               l == [k EXCEPT !.objects = objs]
    <2>1. /\ new \in SlotState /\ new.sessions = st.sessions
          /\ new.role = st.role /\ new.objects = objs
      BY <1>1 DEF SlotState
    <2> HIDE DEF new, k
    <2>2. /\ View(new) \in Views /\ View(new).sessions = new.sessions
          /\ View(new).role = new.role /\ View(new).objects = new.objects
      BY <2>1, ViewFields
    <2>3. l \in Views /\ l.sessions = k.sessions /\ l.role = k.role /\ l.objects = objs
      BY <1>2 DEF Views
    <2> HIDE DEF l
    <2>4. View(new) = l
      BY <1>2, <2>1, <2>2, <2>3, ViewExtensional
    <2>5. slot' = [slot EXCEPT ![s] = new]
      BY <1>6 DEF new
    <2> QED BY <1>1, <2>4, <2>5, BecomesView DEF l
  <1>7. ASSUME NEW private \in BOOLEAN, C_CreateObject(t, h, private)
        PROVE  Promise!Next
    <2> DEFINE o == [handle |-> nextObject, creator |-> h, private |-> private]
    <2>1. nextObject \in Handles
      BY <1>7, MaxHandleAssumption DEF IInv, TypeOK, C_CreateObject, Exhausted, Handles
    <2>2. o \in Object /\ o \in Promise!Objects /\ o.creator = h /\ o.private = private
      BY <1>1, <2>1 DEF Object, Promise!Objects
    <2>3. /\ private => st.role = "user"
          /\ slot' = [slot EXCEPT ![s] = [st EXCEPT !.objects = @ \cup {o}]]
      BY <1>7 DEF C_CreateObject, Leave, login_role
    <2> HIDE DEF o
    <2>4. st.objects \cup {o} \in SUBSET Object
      BY <1>1, <2>2 DEF SlotState
    <2>5. Tokens' = [Tokens EXCEPT ![s] = [k EXCEPT !.objects = st.objects \cup {o}]]
      BY <1>6, <2>3, <2>4
    <2>6. \E x \in k.sessions : x.handle = o.creator
      BY <1>2, <1>4, <2>2 DEF HasSession
    <2> HIDE DEF k
    <2>7. /\ \E x \in Tokens[s].sessions : x.handle = o.creator
          /\ o.private => Tokens[s].role = "user"
          /\ Tokens' = [Tokens EXCEPT ![s].objects = @ \cup {o}]
      BY <1>2, <1>3, <2>2, <2>3, <2>5, <2>6
    <2>8. Promise!Create(s, o)
      BY <1>5, <2>7 DEF Promise!Create, Tokens, View, Used
    <2>9. PICK u \in Slots, p \in Promise!Objects : u = s /\ p = o
      BY <1>1, <2>2
    <2>10. Promise!Create(u, p)
      BY <2>8, <2>9 DEF Promise!Create
    <2> QED BY <2>10 DEF Promise!Next
  <1>8. ASSUME NEW o \in st.objects, C_DestroyObject(t, h, o)
        PROVE  Promise!Next
    <2>1. slot' = [slot EXCEPT ![s] = [st EXCEPT !.objects = @ \ {o}]]
      BY <1>8 DEF C_DestroyObject, Leave
    <2>2. st.objects \ {o} \in SUBSET Object
      BY <1>1 DEF SlotState
    <2>3. Tokens' = [Tokens EXCEPT ![s] = [k EXCEPT !.objects = st.objects \ {o}]]
      BY <1>6, <2>1, <2>2
    <2> HIDE DEF k
    <2>4. o \in Tokens[s].objects /\ Tokens' = [Tokens EXCEPT ![s].objects = @ \ {o}]
      BY <1>2, <1>3, <2>3
    <2>5. Promise!Destroy(s, o) /\ o \in Tokens[s].objects
      BY <1>5, <2>4 DEF Promise!Destroy, Tokens, View, Used
    <2> QED BY <1>1, <2>5 DEF Promise!Next, Tokens, View
  <1> QED BY <1>7, <1>8

\* Every step is a step of TokenSessions or leaves it alone.
LEMMA StepRefines ==
    ASSUME IInv, Next
    PROVE  [Promise!Next]_Promise!vars
  <1>1. \A s \in Slots : SlotOK(slot[s]) /\ slot[s] \in SlotState
    BY DEF IInv, SlotOK
  <1>2. slot \in [Slots -> SlotState]
    BY DEF IInv, TypeOK
  <1>3. \A s \in Slots : LET old == reconcile_login_state(slot[s])
          IN  /\ SlotOK(old) /\ old \in SlotState
              /\ old.sessions = slot[s].sessions /\ login_role(old) = old.role
              /\ View(old) \in Promise!NoticedFrom(View(slot[s]))
    BY <1>1, ReconcileLemma, ReconcileView DEF SlotOK
  <1>4. ASSUME slot' = slot, nextSession' = nextSession
        PROVE  UNCHANGED Promise!vars
    BY <1>4, SameView
  <1>5. CASE C_Initialize
    BY <1>4, <1>5 DEF C_Initialize
  <1>6. CASE C_Finalize
    <2>1. Tokens' = [s \in Slots |-> Promise!Blank] /\ Used' = {}
      BY <1>6 DEF C_Finalize, Tokens, View, EmptySlot, Used, Given, Handles, Promise!Blank
    <2>2. Promise!Finalize
      BY <2>1 DEF Promise!Finalize, Tokens, View, Used
    <2> QED BY <2>2 DEF Promise!Next
  <1>7. ASSUME NEW s \in Slots, LoseLogin(s)
        PROVE  UNCHANGED Promise!vars
    <2>1. \A u \in Slots : View(slot'[u]) = View(slot[u])
      BY <1>2, <1>7 DEF LoseLogin, View, SlotState
    <2> QED BY <1>7, <2>1, SameView DEF LoseLogin
  <1>8. ASSUME NEW t \in Threads,
               \/ \E u \in Slots : EnterSlot(t, u)
               \/ \E g \in Handles : EnterSession(t, g)
               \/ UnregisterSessions(t)
        PROVE  UNCHANGED Promise!vars
    BY <1>4, <1>8 DEF EnterSlot, EnterSession, UnregisterSessions
  <1>9. ASSUME NEW t \in Threads, NEW g \in args[t], RegisterSession(t, g)
        PROVE  UNCHANGED Promise!vars
    BY <1>4, <1>9 DEF RegisterSession, IInv, RoutingOK, RegistrationsFree
  <1>10. ASSUME NEW t \in Threads, SlotCall(t)
         PROVE  [Promise!Next]_Promise!vars
    <2> DEFINE s == at[t]
    <2>1. s \in Slots
      BY <1>10 DEF IInv, RoutingOK, CallsHaveSlot, SlotCall, C_OpenSessionRefused,
                   C_OpenSession, C_CloseAllSessions, C_InitToken, OnSlot
    <2>2. CASE \E rw, present \in BOOLEAN : C_OpenSessionRefused(t, rw, present)
      <3>1. /\ slot' = [slot EXCEPT ![s] = reconcile_login_state(slot[s])]
            /\ nextSession' = nextSession
        BY <2>2 DEF C_OpenSessionRefused
      <3> QED BY <1>3, <2>1, <3>1, NoticeView
    <2>3. CASE C_CloseAllSessions(t)
      <3> DEFINE st == reconcile_login_state(slot[s])
                 out == logout_for_close(st)
                 closed == HandlesOf(out)
      <3>1. SlotOK(st) /\ st \in SlotState /\ out.sessions = st.sessions
        BY <1>3, <2>1, LogoutForCloseLemma
      <3>2. slot' = [slot EXCEPT ![s] = Without(out, closed)] /\ nextSession' = nextSession
        BY <2>3 DEF C_CloseAllSessions
      <3>3. {x \in st.sessions : x.handle \notin closed} = {}
        BY <3>1 DEF HandlesOf
      <3>4. closed \in SUBSET Handles
        BY <3>1 DEF HandlesOf, SlotState, Session
      <3> HIDE DEF closed
      <3> QED BY <2>1, <3>2, <3>3, <3>4, CloseRefines
    <2>4. ASSUME NEW done \in BOOLEAN, C_InitToken(t, done)
          PROVE  UNCHANGED Promise!vars
      <3>1. \A u \in Slots : View(slot'[u]) = View(slot[u])
        BY <1>1, <1>2, <2>1, <2>4 DEF C_InitToken, SlotOK, View, SlotState
      <3> QED BY <2>4, <3>1, SameView DEF C_InitToken
    <2> QED BY <1>10, <2>2, <2>3, <2>4, OpenRefines DEF SlotCall
  <1>11. ASSUME NEW t \in Threads, NEW g \in args[t], SessionCall(t, g)
         PROVE  [Promise!Next]_Promise!vars
    <2> DEFINE s == at[t]
               old == reconcile_login_state(slot[s])
    <2>1. s \in Slots /\ g \in Handles
      BY <1>11 DEF IInv, TypeOK, RoutingOK, CallsHaveSlot, SessionCall, SessionCallRefused,
             C_CloseSession, C_LoginFailed, C_Login, C_Logout, ReconcileOnly,
             C_CreateObject, C_DestroyObject, OperationInit, OperationEnd, OnSession
    <2>2. /\ SlotOK(old) /\ old \in SlotState
          /\ old.sessions = slot[s].sessions /\ login_role(old) = old.role
          /\ View(old) \in Promise!NoticedFrom(View(slot[s]))
          /\ View(slot[s]) \in Views
      BY <1>1, <1>3, <2>1, ViewFields
    <2>3. CASE SessionCallRefused(t, g)
      BY <1>4, <2>3 DEF SessionCallRefused
    <2>4. CASE C_CloseSession(t, g)
      <3> DEFINE out == IF HandlesOf(old) = {g} THEN logout_for_close(old) ELSE old
      <3>1. /\ slot' = [slot EXCEPT ![s] = Without(out, {g})] /\ nextSession' = nextSession
            /\ HasSession(slot[s], g)
        BY <2>4 DEF C_CloseSession, OnSession
      <3>2. {x \in old.sessions : x.handle \notin {g}} = {} <=> HandlesOf(old) = {g}
        BY <2>2, <3>1 DEF HandlesOf, HasSession
      <3>3. {g} \in SUBSET Handles
        BY <2>1
      <3>4. out = IF {x \in old.sessions : x.handle \notin {g}} = {}
                  THEN logout_for_close(old) ELSE old
        BY <3>2
      <3> HIDE DEF out
      <3> QED BY <2>1, <3>1, <3>3, <3>4, CloseRefines
    <2>5. CASE C_LoginFailed(t, g) \/ ReconcileOnly(t, g)
      <3>1. slot' = [slot EXCEPT ![s] = old] /\ nextSession' = nextSession
        BY <2>5 DEF C_LoginFailed, ReconcileOnly, Leave
      <3> QED BY <2>1, <2>2, <3>1, NoticeView
    <2>6. ASSUME NEW r \in {"user", "so"}, C_Login(t, g, r, FALSE)
          PROVE  [Promise!Next]_Promise!vars
      <3> DEFINE in == [old EXCEPT !.role = r, !.lost = FALSE]
                 new == clear_login_state(in)
      <3>1. slot' = [slot EXCEPT ![s] = new] /\ nextSession' = nextSession
        BY <2>6 DEF C_Login, Leave
      <3>2. old.role = "none"
        BY <2>2, <2>6 DEF C_Login, LoginRefused
      <3> HIDE DEF old
      <3>3. clear_login_state(in) = clear_login_state(old)
        BY <2>2 DEF clear_login_state, SlotState, Roles
      <3>4. View(new) = View(old)
        BY <2>2, <3>2, <3>3, ClearView
      <3> HIDE DEF new
      <3> QED BY <2>1, <2>2, <3>1, <3>4, NoticeView
    <2>7. CASE C_Logout(t, g)
      <3>1. PICK out \in logout_slot(old) : Leave(t, out)
        BY <2>7 DEF C_Logout
      <3>2. slot' = [slot EXCEPT ![s] = out] /\ nextSession' = nextSession
        BY <3>1 DEF Leave
      <3> HIDE DEF old
      <3>3. View(out) = View(old) \/ View(out) = Promise!Public(View(old))
        <4>1. CASE out = clear_login_state(old)
          BY <2>2, <4>1, ClearView
        <4>2. CASE \E l \in BOOLEAN : out = [old EXCEPT !.lost = l]
          BY <2>2, <4>2 DEF View, SlotState
        <4> QED BY <3>1, <4>1, <4>2 DEF logout_slot
      <3>4. View(old) \in Views /\ Promise!Public(Promise!Public(View(slot[s])))
              = Promise!Public(View(slot[s]))
        <4> DEFINE k == View(slot[s])
                   p == Promise!Public(k)
                   q == Promise!Public(p)
        <4>1. /\ p \in Views /\ p.sessions = k.sessions /\ p.role = "none"
              /\ p.objects = {o \in k.objects : ~o.private}
          BY <2>2, PublicFields
        <4> HIDE DEF p
        <4>2. /\ q \in Views /\ q.sessions = p.sessions /\ q.role = "none"
              /\ q.objects = {o \in p.objects : ~o.private}
          BY <4>1, PublicFields
        <4> HIDE DEF q
        <4>3. q.objects = p.objects
          BY <4>1, <4>2
        <4>4. q = p
          BY <4>1, <4>2, <4>3, ViewExtensional
        <4> QED BY <2>2, <4>4, ViewFields DEF p, q
      <3>5. View(out) \in Promise!NoticedFrom(View(slot[s]))
        BY <2>2, <3>3, <3>4 DEF Promise!NoticedFrom
      <3> QED BY <2>1, <3>2, <3>5, NoticeView
    <2>8. CASE \/ \E private \in BOOLEAN : OperationInit(t, g, private)
               \/ \E p \in slot[s].operations : OperationEnd(t, g, p)
      <3>1. PICK ops : slot' = [slot EXCEPT ![s] = [slot[s] EXCEPT !.operations = ops]]
        BY <2>8 DEF OperationInit, OperationEnd, Leave
      <3>2. nextSession' = nextSession
        BY <2>8 DEF OperationInit, OperationEnd, Leave
      <3>3. \A u \in Slots : View(slot'[u]) = View(slot[u])
        BY <1>2, <2>1, <3>1 DEF View, SlotState
      <3> QED BY <3>2, <3>3, SameView
    <2>9. ASSUME NEW r \in {"user", "so"}, NEW refreshed \in BOOLEAN,
                 C_Login(t, g, r, refreshed)
          PROVE  [Promise!Next]_Promise!vars
      BY <2>6, <2>9, LoginRefines
    <2> QED BY <1>11, <2>3, <2>4, <2>5, <2>7, <2>8, <2>9, ObjectsRefine DEF SessionCall
  <1> QED BY <1>5, <1>6, <1>7, <1>8, <1>9, <1>10, <1>11 DEF Next

\* The module implements TokenSessions: an application that sees the sessions,
\* the login and the session objects of each slot cannot tell the threads,
\* the routing and the failing backends from one atomic token per slot.
THEOREM Refinement == Spec => ImplementsTokenSessions
  <1>1. Init => Promise!Init
    <2> SUFFICES ASSUME Init PROVE Promise!Init
      OBVIOUS
    <2>1. Tokens = [s \in Slots |-> Promise!Blank]
      BY DEF Init, Tokens, View, EmptySlot, Promise!Blank
    <2>2. Used = {}
      BY DEF Init, Used, Given, Handles
    <2> QED BY <2>1, <2>2 DEF Promise!Init, Tokens, View, Used
  <1>2. IInv /\ [Next]_vars => [Promise!Next]_Promise!vars
    <2>1. ASSUME UNCHANGED vars PROVE UNCHANGED Promise!vars
      BY <2>1, SameView DEF vars
    <2> QED BY <2>1, StepRefines
  <1> QED BY <1>1, <1>2, Invariance, PTL DEF Spec, ImplementsTokenSessions, Promise!Spec
=============================================================================
