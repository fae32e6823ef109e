---------------------------- MODULE TokenSessions ----------------------------
(***************************************************************************)
(* What a token promises an application about its sessions, login and      *)
(* session objects: no threads, locks, routing, backend or handle          *)
(* counters.  SlotSessions implements it.                                  *)
(*                                                                         *)
(* A login may end by itself at any moment (the card is removed, a secure  *)
(* session expires).  The token notices at its next use, so every use      *)
(* starts from the state as it was or from the one after a logout.         *)
(***************************************************************************)
CONSTANTS
    Slots,
    Handles      \* session and object handles

VARIABLES
    token,       \* [Slots -> sessions, role and session objects]
    used         \* session handles given out since C_Initialize

vars == <<token, used>>

Blank == [sessions |-> {}, role |-> "none", objects |-> {}]
Public(k) == [k EXCEPT !.role = "none", !.objects = {o \in @ : ~o.private}]
NoticedFrom(k) == {k, Public(k)}

Init ==
    /\ token = [s \in Slots |-> Blank]
    /\ used = {}

Notice(s) ==
    /\ token' = [token EXCEPT ![s] = Public(@)]
    /\ UNCHANGED used

Open(s, h, rw) ==
    /\ h \notin used
    /\ used' = used \cup {h}
    /\ \E k \in NoticedFrom(token[s]) :
          /\ ~rw => k.role # "so"
          /\ token' = [token EXCEPT ![s] =
                 [k EXCEPT !.sessions = @ \cup {[handle |-> h, rw |-> rw]}]]

\* Sessions close with the objects they created; the last one logs out.
Close(s, closed) ==
    /\ \E k \in NoticedFrom(token[s]) :
          LET left == {x \in k.sessions : x.handle \notin closed}
              out == IF left = {} THEN Public(k) ELSE k
          IN  token' = [token EXCEPT ![s] =
                  [out EXCEPT !.sessions = left,
                              !.objects = {o \in @ : o.creator \notin closed}]]
    /\ UNCHANGED used

Login(s, r) ==
    /\ token[s].sessions # {}
    /\ \E k \in NoticedFrom(token[s]) :
          /\ k.role = "none"
          /\ r = "so" => \A x \in k.sessions : x.rw
          /\ token' = [token EXCEPT ![s] = [k EXCEPT !.role = r]]
    /\ UNCHANGED used

Create(s, o) ==
    /\ \E x \in token[s].sessions : x.handle = o.creator
    /\ o.private => token[s].role = "user"
    /\ token' = [token EXCEPT ![s].objects = @ \cup {o}]
    /\ UNCHANGED used

Destroy(s, o) ==
    /\ o \in token[s].objects
    /\ token' = [token EXCEPT ![s].objects = @ \ {o}]
    /\ UNCHANGED used

Finalize ==
    /\ token' = [s \in Slots |-> Blank]
    /\ used' = {}

Objects == [handle : Handles, creator : Handles, private : BOOLEAN]

Next ==
    \/ Finalize
    \/ \E s \in Slots :
          \/ Notice(s)
          \/ \E h \in Handles, rw \in BOOLEAN : Open(s, h, rw)
          \/ \E closed \in SUBSET Handles : Close(s, closed)
          \/ \E r \in {"user", "so"} : Login(s, r)
          \/ \E o \in Objects : Create(s, o)
          \/ \E o \in token[s].objects : Destroy(s, o)

Spec == Init /\ [][Next]_vars
=============================================================================
