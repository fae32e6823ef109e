---------------------------- MODULE SlotSessions ----------------------------
(***************************************************************************)
(* The process-wide module context, the session-routing registry and the   *)
(* token state every session of a slot shares (sessions, login role,       *)
(* session objects, active operations).                                    *)
(*                                                                         *)
(* A PKCS #11 call runs in a thread that keeps a read guard on             *)
(* MODULE_CONTEXT from its first step to its return.  Between them it      *)
(* takes two locks, never together: the registry lock (session handle ->   *)
(* slot) and the slot mutex.  One action is one critical section.  What a  *)
(* call does under the slot mutex is a function from slot state to slot    *)
(* state, written with the helpers the code has under the same names.      *)
(***************************************************************************)
EXTENDS Naturals

CONSTANTS
    Slots,       \* slots of the registry
    Threads,     \* application threads
    MaxHandle,   \* CK_ULONG::MAX, the largest handle a counter hands out
    NoSlot       \* absence of a registry entry

ASSUME MaxHandleAssumption == MaxHandle \in Nat \ {0}
ASSUME NoSlotAssumption == NoSlot \notin Slots

Handles == 1..MaxHandle
Roles == {"none", "user", "so"}

Session == [handle : Handles, rw : BOOLEAN]
Object == [handle : Handles, creator : Handles, private : BOOLEAN]
Operation == [session : Handles, private : BOOLEAN]

\* lost: the backend's login_is_active() has stopped confirming the recorded role.
SlotState ==
    [sessions : SUBSET Session, role : Roles, lost : BOOLEAN,
     objects : SUBSET Object, operations : SUBSET Operation]

EmptySlot ==
    [sessions |-> {}, role |-> "none", lost |-> FALSE,
     objects |-> {}, operations |-> {}]

VARIABLES
    module,       \* MODULE_CONTEXT is Some
    slot,         \* SlotState of every slot
    routes,       \* session_slots: handle -> slot
    nextSession,  \* HandleCounters, session counter
    nextObject,   \* HandleCounters, object counter
    pc,           \* what the thread's call does next
    at,           \* the slot the call works on
    args          \* the session handles the call carries between its steps

vars == <<module, slot, routes, nextSession, nextObject, pc, at, args>>

TypeOK ==
    /\ module \in BOOLEAN
    /\ slot \in [Slots -> SlotState]
    /\ routes \in [Handles -> Slots \cup {NoSlot}]
    /\ nextSession \in 0..MaxHandle
    /\ nextObject \in 0..MaxHandle
    /\ pc \in [Threads -> {"idle", "slot", "session", "register", "unregister"}]
    /\ at \in [Threads -> Slots \cup {NoSlot}]
    /\ args \in [Threads -> SUBSET Handles]

-----------------------------------------------------------------------------
(* Slot state. *)

HandlesOf(st) == {x.handle : x \in st.sessions}
HasSession(st, h) == \E x \in st.sessions : x.handle = h
\* Mutant of Without: closing a session leaves the objects it created.
WithoutKeepingObjects(st, closed) ==
    [st EXCEPT !.sessions = {x \in @ : x.handle \notin closed},
               !.operations = {p \in @ : p.session \notin closed}]
Without(st, closed) ==
    [st EXCEPT !.sessions = {x \in @ : x.handle \notin closed},
               !.objects = {o \in @ : o.creator \notin closed},
               !.operations = {p \in @ : p.session \notin closed}]

\* SlotState::login_role: the recorded role, if the backend confirms it.
login_role(st) == IF st.lost THEN "none" ELSE st.role

\* Mutant of clear_login_state: private session objects survive the logout.
ClearRoleOnly(st) ==
    [st EXCEPT !.role = "none", !.lost = FALSE, !.operations = {}]

clear_login_state(st) ==
    [st EXCEPT !.role = "none", !.lost = FALSE, !.operations = {},
               !.objects = {o \in @ : ~o.private}]

reconcile_login_state(st) ==
    IF st.role # "none" /\ login_role(st) = "none"
    THEN clear_login_state(st)
    ELSE st

\* What logout_slot can leave behind.  Either the role was dropped (the
\* refresh after it may still fail), or logout_role or set_login_role
\* returned an error first and the role stays recorded, with the backend in
\* either state.
logout_slot(st) ==
    {clear_login_state(st)} \cup {[st EXCEPT !.lost = l] : l \in BOOLEAN}

\* Mutant of logout_for_close: the sessions go and the login stays.
KeepLogin(st) == st

\* Closing a slot's last session, or all of them: logout_slot, and on its
\* error clear_login_state, so the login state is gone in both cases.
logout_for_close(st) ==
    IF login_role(st) # "none" THEN clear_login_state(st) ELSE st

\* HandleCounters: 0 means that wrapping_add has wrapped, for good.
Exhausted(counter) == counter = 0

allocate_handle(counter) == IF counter = MaxHandle THEN 0 ELSE counter + 1

-----------------------------------------------------------------------------
Init ==
    /\ module = FALSE
    /\ slot = [s \in Slots |-> EmptySlot]
    /\ routes = [h \in Handles |-> NoSlot]
    /\ nextSession = 1
    /\ nextObject = 1
    /\ pc = [t \in Threads |-> "idle"]
    /\ at = [t \in Threads |-> NoSlot]
    /\ args = [t \in Threads |-> {}]

\* try_write on MODULE_CONTEXT succeeds only while no call holds a read guard.
Quiescent == \A t \in Threads : pc[t] = "idle"

C_Initialize ==
    /\ Quiescent
    /\ ~module
    /\ module' = TRUE
    /\ UNCHANGED <<slot, routes, nextSession, nextObject, pc, at, args>>

\* Every recorded login is logged out (or its state cleared on error), then
\* the context is dropped with its registry, slots and handle counters.
C_Finalize ==
    /\ Quiescent
    /\ module
    /\ module' = FALSE
    /\ slot' = [s \in Slots |-> EmptySlot]
    /\ routes' = [h \in Handles |-> NoSlot]
    /\ nextSession' = 1
    /\ nextObject' = 1
    /\ UNCHANGED <<pc, at, args>>

Return(t) ==
    /\ pc' = [pc EXCEPT ![t] = "idle"]
    /\ at' = [at EXCEPT ![t] = NoSlot]
    /\ args' = [args EXCEPT ![t] = {}]

\* slot_context: the slot ID is looked up in the registry.
EnterSlot(t, s) ==
    /\ module
    /\ pc[t] = "idle"
    /\ pc' = [pc EXCEPT ![t] = "slot"]
    /\ at' = [at EXCEPT ![t] = s]
    /\ UNCHANGED <<module, slot, routes, nextSession, nextObject, args>>

\* session_slot_context: the session handle is routed by the registry.
EnterSession(t, h) ==
    /\ module
    /\ pc[t] = "idle"
    /\ routes[h] # NoSlot
    /\ pc' = [pc EXCEPT ![t] = "session"]
    /\ at' = [at EXCEPT ![t] = routes[h]]
    /\ args' = [args EXCEPT ![t] = {h}]
    /\ UNCHANGED <<module, slot, routes, nextSession, nextObject>>

-----------------------------------------------------------------------------
(* Calls on a slot, under its mutex. *)

OnSlot(t) == pc[t] = "slot"

\* OpenUnderSO is a mutant of OpenRefused.
\* open_session_inner, refused: read-only under the Security Officer, token
\* absent after the refresh, or handles exhausted.  The login state has been
\* reconciled by then.
OpenUnderSO(st, rw, present) == ~present \/ Exhausted(nextSession)
OpenRefused(st, rw, present) ==
    \/ ~rw /\ login_role(st) = "so"
    \/ ~present
    \/ Exhausted(nextSession)

C_OpenSessionRefused(t, rw, present) ==
    LET s == at[t]  st == reconcile_login_state(slot[s])
    IN  /\ OnSlot(t)
        /\ OpenRefused(st, rw, present)
        /\ slot' = [slot EXCEPT ![s] = st]
        /\ Return(t)
        /\ UNCHANGED <<module, routes, nextSession, nextObject>>

\* Mutant of C_OpenSession: the handle of a closed session is given out again.
OpenRecycled(t, rw) ==
    LET s == at[t]  st == reconcile_login_state(slot[s])
    IN  /\ OnSlot(t)
        /\ ~OpenRefused(st, rw, TRUE)
        /\ \E h \in Handles :
              /\ routes[h] = NoSlot
              /\ slot' = [slot EXCEPT ![s] =
                     [st EXCEPT !.sessions = @ \cup {[handle |-> h, rw |-> rw]}]]
              /\ args' = [args EXCEPT ![t] = {h}]
        /\ nextSession' = allocate_handle(nextSession)
        /\ pc' = [pc EXCEPT ![t] = "register"]
        /\ UNCHANGED <<module, routes, nextObject, at>>

\* open_session_inner up to the release of the slot mutex: the session is in
\* the slot and not yet in the registry.
C_OpenSession(t, rw) ==
    LET s == at[t]  st == reconcile_login_state(slot[s])
    IN  /\ OnSlot(t)
        /\ ~OpenRefused(st, rw, TRUE)
        /\ slot' = [slot EXCEPT ![s] =
               [st EXCEPT !.sessions = @ \cup {[handle |-> nextSession, rw |-> rw]}]]
        /\ nextSession' = allocate_handle(nextSession)
        /\ pc' = [pc EXCEPT ![t] = "register"]
        /\ args' = [args EXCEPT ![t] = {nextSession}]
        /\ UNCHANGED <<module, routes, nextObject, at>>

\* register_session_slot_in_context; an occupied entry is an error, and the
\* session is taken out of the slot again.
RegisterSession(t, h) ==
    /\ pc[t] = "register"
    /\ h \in args[t]
    /\ IF routes[h] = NoSlot
       THEN /\ routes' = [routes EXCEPT ![h] = at[t]]
            /\ UNCHANGED slot
       ELSE /\ slot' = [slot EXCEPT
                   ![at[t]].sessions = {x \in @ : x.handle # h},
                   ![at[t]].operations = {p \in @ : p.session # h}]
            /\ UNCHANGED routes
    /\ Return(t)
    /\ UNCHANGED <<module, nextSession, nextObject>>

C_CloseAllSessions(t) ==
    LET s == at[t]
        st == logout_for_close(reconcile_login_state(slot[s]))
        closed == HandlesOf(st)
    IN  /\ OnSlot(t)
        /\ slot' = [slot EXCEPT ![s] = Without(st, closed)]
        /\ pc' = [pc EXCEPT ![t] = "unregister"]
        /\ args' = [args EXCEPT ![t] = closed]
        /\ UNCHANGED <<module, routes, nextSession, nextObject, at>>

\* Mutant of UnregisterSessions: every route to the slot is dropped.
UnregisterSlot(t) ==
    /\ pc[t] = "unregister"
    /\ routes' = [h \in Handles |-> IF routes[h] = at[t] THEN NoSlot ELSE routes[h]]
    /\ Return(t)
    /\ UNCHANGED <<module, slot, nextSession, nextObject>>

\* unregister_session_slots_in_context
UnregisterSessions(t) ==
    /\ pc[t] = "unregister"
    /\ routes' = [h \in Handles |-> IF h \in args[t] THEN NoSlot ELSE routes[h]]
    /\ Return(t)
    /\ UNCHANGED <<module, slot, nextSession, nextObject>>

\* C_InitToken: refused while the slot has sessions; a token that was
\* initialized has no recorded role.
C_InitToken(t, done) ==
    LET s == at[t]
    IN  /\ OnSlot(t)
        /\ slot' = IF done /\ slot[s].sessions = {}
                   THEN [slot EXCEPT ![s].role = "none", ![s].lost = FALSE]
                   ELSE slot
        /\ Return(t)
        /\ UNCHANGED <<module, routes, nextSession, nextObject>>

-----------------------------------------------------------------------------
(* Calls on a session, under the mutex of the slot it was routed to. *)

OnSession(t, h) ==
    /\ pc[t] = "session"
    /\ h \in args[t]
    /\ HasSession(slot[at[t]], h)

\* A call that returns before it changes any state: its session is no longer
\* in the slot (CKR_SESSION_HANDLE_INVALID), or its arguments are refused.
SessionCallRefused(t, h) ==
    /\ pc[t] = "session"
    /\ h \in args[t]
    /\ Return(t)
    /\ UNCHANGED <<module, slot, routes, nextSession, nextObject>>

\* The end of a session call that leaves the slot in state st.
Leave(t, st) ==
    /\ slot' = [slot EXCEPT ![at[t]] = st]
    /\ Return(t)
    /\ UNCHANGED <<module, routes, nextSession>>

C_CloseSession(t, h) ==
    LET s == at[t]
        st == reconcile_login_state(slot[s])
        last == HandlesOf(st) = {h}
        out == IF last THEN logout_for_close(st) ELSE st
    IN  /\ OnSession(t, h)
        /\ slot' = [slot EXCEPT ![s] = Without(out, {h})]
        /\ pc' = [pc EXCEPT ![t] = "unregister"]
        /\ args' = [args EXCEPT ![t] = {h}]
        /\ UNCHANGED <<module, routes, nextSession, nextObject, at>>

\* Mutant of LoginRefused: read-only sessions are not looked for.
LoginRefusedByRole(st, r) == login_role(st) # "none"
LoginRefused(st, r) ==
    \/ login_role(st) # "none"
    \/ r = "so" /\ \E x \in st.sessions : ~x.rw

\* login_role refused, or authentication (or recording it in the backend) failed.
C_LoginFailed(t, h) ==
    /\ OnSession(t, h)
    /\ Leave(t, reconcile_login_state(slot[at[t]]))
    /\ UNCHANGED nextObject

\* Authenticated; when the object refresh that follows fails the login is undone.
C_Login(t, h, r, refreshed) ==
    LET st == reconcile_login_state(slot[at[t]])
        in == [st EXCEPT !.role = r, !.lost = FALSE]
    IN  /\ OnSession(t, h)
        /\ ~LoginRefused(st, r)
        /\ Leave(t, IF refreshed THEN in ELSE clear_login_state(in))
        /\ UNCHANGED nextObject

C_Logout(t, h) ==
    LET st == reconcile_login_state(slot[at[t]])
    IN  /\ OnSession(t, h)
        /\ login_role(st) # "none"
        /\ \E out \in logout_slot(st) : Leave(t, out)
        /\ UNCHANGED nextObject

\* C_GetSessionInfo, C_InitPIN, C_SetPIN and C_Logout of a public session:
\* calls whose only effect on this state is to reconcile it.
ReconcileOnly(t, h) ==
    /\ OnSession(t, h)
    /\ Leave(t, reconcile_login_state(slot[at[t]]))
    /\ UNCHANGED nextObject

\* Session objects: validate_new_object_access lets a private one in only
\* under an active user login.
C_CreateObject(t, h, private) ==
    LET st == slot[at[t]]
    IN  /\ OnSession(t, h)
        /\ private => login_role(st) = "user"
        /\ ~Exhausted(nextObject)
        /\ Leave(t, [st EXCEPT !.objects =
               @ \cup {[handle |-> nextObject, creator |-> h, private |-> private]}])
        /\ nextObject' = allocate_handle(nextObject)

C_DestroyObject(t, h, o) ==
    LET st == slot[at[t]]
    IN  /\ OnSession(t, h)
        /\ o \in st.objects
        /\ o.private => login_role(st) = "user"
        /\ Leave(t, [st EXCEPT !.objects = @ \ {o}])
        /\ UNCHANGED nextObject

\* C_SignInit, C_DecryptInit, C_FindObjectsInit ...: the object must be visible.
OperationInit(t, h, private) ==
    LET st == slot[at[t]]
    IN  /\ OnSession(t, h)
        /\ private => login_role(st) = "user"
        /\ Leave(t, [st EXCEPT !.operations =
               @ \cup {[session |-> h, private |-> private]}])
        /\ UNCHANGED nextObject

\* Completion, or C_SessionCancel.
OperationEnd(t, h, p) ==
    LET st == slot[at[t]]
    IN  /\ OnSession(t, h)
        /\ p.session = h
        /\ Leave(t, [st EXCEPT !.operations = @ \ {p}])
        /\ UNCHANGED nextObject

\* The backend stops confirming a login: another applet was selected, the
\* card was removed, the secure session expired.
LoseLogin(s) ==
    /\ slot[s].role # "none"
    /\ ~slot[s].lost
    /\ slot' = [slot EXCEPT ![s].lost = TRUE]
    /\ UNCHANGED <<module, routes, nextSession, nextObject, pc, at, args>>

-----------------------------------------------------------------------------
SlotCall(t) ==
    \/ \E rw, present \in BOOLEAN : C_OpenSessionRefused(t, rw, present)
    \/ \E rw \in BOOLEAN : C_OpenSession(t, rw)
    \/ C_CloseAllSessions(t)
    \/ \E done \in BOOLEAN : C_InitToken(t, done)

SessionCall(t, h) ==
    \/ SessionCallRefused(t, h)
    \/ C_CloseSession(t, h)
    \/ C_LoginFailed(t, h)
    \/ \E r \in {"user", "so"}, refreshed \in BOOLEAN : C_Login(t, h, r, refreshed)
    \/ C_Logout(t, h)
    \/ ReconcileOnly(t, h)
    \/ \E private \in BOOLEAN : C_CreateObject(t, h, private)
    \/ \E o \in slot[at[t]].objects : C_DestroyObject(t, h, o)
    \/ \E private \in BOOLEAN : OperationInit(t, h, private)
    \/ \E p \in slot[at[t]].operations : OperationEnd(t, h, p)

Next ==
    \/ C_Initialize
    \/ C_Finalize
    \/ \E t \in Threads :
          \/ \E s \in Slots : EnterSlot(t, s)
          \/ \E h \in Handles : EnterSession(t, h)
          \/ SlotCall(t)
          \/ \E h \in args[t] : SessionCall(t, h) \/ RegisterSession(t, h)
          \/ UnregisterSessions(t)
    \/ \E s \in Slots : LoseLogin(s)

Spec == Init /\ [][Next]_vars

-----------------------------------------------------------------------------
(* Properties. *)

\* While the Security Officer is logged in, no read-only session is open.  It
\* takes both refusals, the one of open_session_inner and the one of
\* login_role, against logins that fail, expire or are undone between them.
SoExcludesReadOnly ==
    \A s \in Slots : slot[s].role = "so" => \A x \in slot[s].sessions : x.rw

\* A slot without sessions has no login: closing the last session logs out
\* even when the backend's logout fails, and a session that is open in the
\* slot but not registered yet counts as one.
NoLoginWithoutSession ==
    \A s \in Slots : slot[s].sessions = {} => slot[s].role = "none"

\* Private session objects and operations on private objects exist only
\* under the user login that admitted them: no login of another role, and no
\* state after a logout, inherits them.
PrivateNeedsUser ==
    \A s \in Slots : \A x \in slot[s].objects \cup slot[s].operations :
        x.private => slot[s].role = "user"

\* A session object belongs to an open session of its slot, and an operation
\* runs in one: "Closing the creator destroys it".
OwnersAreOpen ==
    \A s \in Slots :
        /\ \A o \in slot[s].objects : HasSession(slot[s], o.creator)
        /\ \A p \in slot[s].operations : HasSession(slot[s], p.session)

\* A session open in a slot is routed to that slot, or the call that opened it
\* is about to register it.
SessionsRouted ==
    \A s \in Slots : \A x \in slot[s].sessions :
        \/ routes[x.handle] = s
        \/ \E t \in Threads :
              pc[t] = "register" /\ at[t] = s /\ x.handle \in args[t]

\* A handle the counters have already given out: a session opened before.
Given(h) == nextSession = 0 \/ h < nextSession

\* Until C_Finalize a session handle names one session: a handle that was
\* given out and closed is never open again, in any slot.
ClosedStaysClosed ==
    [][module' => \A h \in Handles :
          Given(h) /\ (\A s \in Slots : ~HasSession(slot[s], h))
          => \A s \in Slots : ~HasSession(slot'[s], h)]_vars

\* The module implements what TokenSessions promises an application: with
\* threads, routing, lost logins and failing backends hidden, every step is
\* an atomic open, close, login, logout, creation or destruction, or none.
Promise == INSTANCE TokenSessions WITH
    token <- [s \in Slots |-> [sessions |-> slot[s].sessions, role |-> slot[s].role,
                               objects |-> slot[s].objects]],
    used <- {h \in Handles : Given(h)}
ImplementsTokenSessions == Promise!Spec
=============================================================================
