----------------------------- MODULE HsmObjects -----------------------------
(***************************************************************************)
(* The objects of a YubiHSM slot: a native key, the opaque companions that *)
(* hold the PKCS #11 attributes the key cannot hold itself, its public key *)
(* as an aspect of a companion or as a record of its own, and what the     *)
(* slot caches of all of them.                                             *)
(*                                                                         *)
(* A call sends its commands one by one.  The device may refuse one, the   *)
(* answer to one may be lost, with the session, and between the calls      *)
(* other clients change objects.  The device counts the objects it has had *)
(* under an ID: the count is the sequence of the object, and names it.     *)
(***************************************************************************)
EXTENDS Integers, FiniteSets

CONSTANTS
    OpaqueIds,     \* object IDs for opaque objects
    Labels,        \* labels that applications and other clients set
    MaxHsmCalls,   \* bound on the calls
    MaxSequence,   \* bound on the keys
    MaxRefusals,   \* bound on the commands the device refuses
    MaxLosses,     \* bound on the answers that are lost
    MaxChanges,    \* bound on the changes of other clients
    NativeLabel,   \* the label of the native key
    NoObject       \* no object, no cache entry

Sequence == 0..MaxSequence
Record ==
    [kind : {"canonical", "legacy", "stored"}, target : Sequence,
     label : Labels \cup {NativeLabel}, public : BOOLEAN]

ASSUME HsmObjectsAssumption ==
    /\ NativeLabel \notin Labels
    /\ IsFiniteSet(OpaqueIds)
    /\ NoObject \notin Record \cup [id : OpaqueIds, record : Record]
    /\ {MaxHsmCalls, MaxRefusals, MaxLosses, MaxChanges} \subseteq Nat
    /\ MaxSequence \in Nat \ {0}

VARIABLES
    hsm,        \* the device: its key, its opaque objects, and whether it replaces them
    host,       \* the caches of the slot
    user,       \* the slot has a user session
    moved,      \* connection_epoch differs from the one of the caches
    run,        \* the call that is running
    accepted,   \* the attributes the key may have, NoObject for companions that hide each other
    published,  \* the public keys that were created and not destroyed
    fresh,      \* the caches are those of a discovery, and the device has not changed since
    doubts,     \* why an update may not count: a change the slot has not seen, or
                \* companions that hide each other
    spent       \* calls, refusals, losses and changes so far

hsmObjectVars == <<hsm, host, user, moved, run, accepted, published, fresh,
                   doubts, spent>>

(* pkcs11rs.backed-key metadata for the key with this sequence.            *)
Metadata(target, label, public) ==
    [kind |-> "canonical", target |-> target, label |-> label, public |-> public]

(* A pkcs11rs.public-key record with the public half of that key.          *)
Stored(target) ==
    [kind |-> "stored", target |-> target, label |-> NativeLabel, public |-> TRUE]

is_empty(m) == m.label = NativeLabel /\ ~m.public

Entry(seq, record) == [seq |-> seq, record |-> record]

EmptyCache ==
    [cached |-> [id \in OpaqueIds |-> Entry(0, NoObject)], key |-> 0, links |-> {},
     known |-> Entry(0, NoObject), writes |-> {}]

NoRun == [op |-> "none", pc |-> "none", new |-> NoObject, todo |-> {}, ids |-> {},
          link |-> NoObject, existed |-> FALSE, failed |-> FALSE]

Idle == run = NoRun

-----------------------------------------------------------------------------
(* What the device holds.                                                  *)

Present(id) == hsm.opaque[id].record # NoObject

Companions(kind) ==
    {id \in OpaqueIds : Present(id) /\ hsm.opaque[id].record.kind = kind
                               /\ hsm.opaque[id].record.target = hsm.seq}

Holds(record) == \E id \in OpaqueIds : hsm.opaque[id].record = record

(* The attributes of the key, for a client that knows nothing yet.         *)
Attributes ==
    LET format == IF Companions("canonical") # {} THEN "canonical" ELSE "legacy"
        found == {hsm.opaque[id].record : id \in Companions(format)}
    IN  IF Cardinality(Companions(format)) = 1
        THEN [(CHOOSE r \in found : TRUE) EXCEPT !.kind = "canonical"]
        ELSE Metadata(hsm.seq, NativeLabel, FALSE)

(* The attributes on the device, those that hide each other included.      *)
Held ==
    {hsm.opaque[id].record : id \in Companions("canonical")}
        \cup (IF Companions("canonical") = {} THEN {Attributes} ELSE {})

(* The key's public object is on the device.                               *)
Published(s) ==
    \/ Holds(Stored(s))
    \/ /\ hsm.live /\ hsm.seq = s
       /\ \E id \in Companions("canonical") : hsm.opaque[id].record.public

Put(id, record) == [hsm EXCEPT !.opaque[id] = Entry(@.seq + 1, record)]
Deleted(id) == [hsm EXCEPT !.opaque[id].record = NoObject]
KeyDeleted == [hsm EXCEPT !.live = FALSE]

(* The device takes a put under an ID that is free, or replaces its object.*)
Takes(id) == ~Present(id) \/ hsm.replaces

-----------------------------------------------------------------------------
(* The outcomes of a command.                                              *)

Use(what, bound) == spent[what] < bound /\ spent' = [spent EXCEPT ![what] = @ + 1]

Done(after) == user /\ hsm' = after /\ UNCHANGED <<user, moved, spent>>

(* Without a session nothing is sent.                                      *)
Refused ==
    /\ IF user THEN Use("refusals", MaxRefusals) ELSE UNCHANGED spent
    /\ UNCHANGED <<hsm, user, moved>>

AnswerLost(after) ==
    /\ user
    /\ Use("losses", MaxLosses)
    /\ hsm' \in {hsm, after}
    /\ user' = FALSE
    /\ moved' = TRUE

Failed(after) == Refused \/ AnswerLost(after)

(* The device says no for a reason of its own: the object exists or is not *)
(* there, or there is no room.                                             *)
Impossible == user /\ UNCHANGED <<hsm, user, moved, spent>>

-----------------------------------------------------------------------------
(* The caches.                                                             *)

\* Mutant of forget_cached_object: a write is remembered after its object is gone.
forget_but_writes(h, id) ==
    [h EXCEPT !.cached[id] = Entry(0, NoObject), !.links = {l \in @ : l.id # id}]

(* What the slot knew of an opaque object, its own writes included.        *)
forget_cached_object(h, id) ==
    [h EXCEPT !.cached[id] = Entry(0, NoObject),
              !.links = {l \in @ : l.id # id},
              !.writes = {w \in @ : w.id # id}]

forget_key(h) == [h EXCEPT !.key = 0, !.links = {}, !.known = Entry(0, NoObject)]

(* metadata_storage_writes: where a record was written.                    *)
Written(h, record, id) ==
    [h EXCEPT !.writes = {w \in @ : w.of # record} \cup {[of |-> record, id |-> id]}]

(* An entry is read again when the sequence of the object has changed.     *)
listed_object_info(h, id) ==
    IF h.cached[id].record # NoObject /\ h.cached[id].seq = hsm.opaque[id].seq
    THEN h.cached[id] ELSE hsm.opaque[id]

(* The objects of a discovery that came as far as ids; what is no longer   *)
(* listed stays.                                                           *)
Listed(h, ids) ==
    [h EXCEPT !.cached = [id \in OpaqueIds |->
        IF id \in ids /\ Present(id) THEN listed_object_info(h, id) ELSE @[id]],
              !.links = {l \in @ : l.id \in ids /\ Present(l.id) => l.seq = hsm.opaque[l.id].seq},
              !.key = IF hsm.live THEN hsm.seq ELSE @]

LinkedIn(h) ==
    {id \in OpaqueIds : Present(id) /\ h.cached[id].record.kind # "stored"
                               /\ h.cached[id].record.target = h.key}

(* Canonical metadata hides legacy metadata; two records hide each other.  *)
Selected(h) ==
    LET canonical == {id \in LinkedIn(h) : h.cached[id].record.kind = "canonical"}
        candidates == IF canonical # {} THEN canonical ELSE LinkedIn(h)
    IN  IF Cardinality(candidates) = 1
        THEN h.cached[CHOOSE id \in candidates : TRUE].record ELSE NoObject

(* discover_objects, all commands answered.                                *)
discover_objects(h) ==
    LET l == Listed(h, OpaqueIds)
    IN  [l EXCEPT !.links = {[id |-> id, seq |-> l.cached[id].seq] : id \in LinkedIn(l)}]

(* The key of the last listing, and its attributes.                        *)
backend_token_objects(h) ==
    LET d == discover_objects(h)
    IN  [d EXCEPT !.known = IF hsm.live THEN Entry(hsm.seq, Selected(d)) ELSE Entry(0, NoObject)]

(* The companions of the key that the cache has in this format.            *)
metadata_objects_in_format(kind) ==
    {l \in host.links : /\ host.cached[l.id].record # NoObject
                        /\ host.cached[l.id].seq = l.seq
                        /\ host.cached[l.id].record.kind = kind}

(* cached_storage_objects with this content.                               *)
CachedWith(h, record) == {id \in OpaqueIds : h.cached[id].record = record}

-----------------------------------------------------------------------------
(* Calls.                                                                  *)

Goto(pc) == run' = [run EXCEPT !.pc = pc]

(* A call returns.  Success promises what was asked for, unless there were *)
(* doubts when it began: what another client or a failed call had changed  *)
(* since the last listing, or two companions.  A failed call leaves what   *)
(* was, or what it wanted to be, or both, which hide each other (NoObject);*)
(* nothing is known when the connection broke in a destruction, or what it *)
(* had done could not be undone.                                           *)
Return(ok) ==
    /\ run' = NoRun
    /\ CASE run.op \in {"set", "project", "unproject", "create"} ->
              /\ accepted' = IF run.op = "create" THEN accepted
                             ELSE IF ok /\ doubts = {} THEN {run.new}
                             ELSE accepted \cup {run.new, NoObject}
              /\ published' = IF ok /\ doubts = {} /\ run.op \in {"project", "create"}
                              THEN published \cup {run.new.target} ELSE published
         [] run.op = "destroy" /\ ~ok /\ (~user' \/ (run.pc = "restore" /\ hsm' = hsm)) ->
              /\ accepted' = Held' \cup {Attributes'}
              /\ published' = {s \in published : Published(s)'}
         [] OTHER -> UNCHANGED <<accepted, published>>

Promised == UNCHANGED <<accepted, published>>

(* A call that begins in doubt may take a companion for another.           *)
Risked ==
    /\ published' = IF doubts = {} THEN published ELSE {s \in published : Holds(Stored(s))}
    /\ UNCHANGED accepted

Changed == fresh' = FALSE

(* A listing that fails has read some of the objects, and was to read one  *)
(* that is not the one it had.                                             *)
ListingFailed ==
    /\ user /\ Failed(hsm)
    /\ \E ids \in SUBSET OpaqueIds, at \in OpaqueIds :
        host' = [Listed(host, ids) EXCEPT !.cached[at] =
            IF Present(at) /\ @.seq # hsm.opaque[at].seq THEN Entry(0, NoObject) ELSE @]
    /\ Return(FALSE) /\ Changed

\* Mutant of Fail: a failed write is not reported, and the old companions are deleted.
delete_anyway == run' = [run EXCEPT !.pc = "delete"] /\ Promised

(* C_SetAttributeValue refreshes the slot before it returns an error.      *)
Fail ==
    IF run.op = "set"
    THEN run' = [run EXCEPT !.pc = "refresh", !.failed = TRUE] /\ Promised
    ELSE Return(FALSE)

Begin == Idle /\ user /\ Use("calls", MaxHsmCalls) /\ UNCHANGED <<hsm, user, moved, host, fresh>>

(* The new attributes go under the ID of a canonical companion if there is *)
(* one; an empty record is kept where a legacy one would show again.       *)
replace_pkcs11_metadata_record(op, new) ==
    LET old == metadata_objects_in_format("canonical")
        contents == {host.cached[l.id].record : l \in old}
        bare == is_empty(new) /\ metadata_objects_in_format("legacy") = {}
        at == [NoRun EXCEPT !.op = op, !.new = new]
    IN  CASE bare -> run' = [at EXCEPT !.pc = "delete", !.todo = contents]
          [] ~bare /\ old # {} /\ host.known.record = new -> run' = [at EXCEPT !.pc = "refresh"]
          [] ~bare /\ old # {} /\ host.known.record # new ->
               \E l \in old :
                   run' = [at EXCEPT !.pc = "update", !.todo = contents \ {new},
                                     !.link = [id |-> l.id, record |-> host.cached[l.id].record]]
          [] OTHER -> run' = [at EXCEPT !.pc = "put"]

(* The record to be changed: a legacy one has no public aspect.            *)
Current ==
    IF host.known.record = NoObject THEN Metadata(host.known.seq, NativeLabel, FALSE)
    ELSE [host.known.record EXCEPT !.kind = "canonical"]

yubihsm_set_attributes ==
    /\ Begin
    /\ host.known.seq # 0
    /\ \E label \in Labels \cup {NativeLabel} :
           replace_pkcs11_metadata_record("set", [Current EXCEPT !.label = label])
    /\ Risked

persist_public_projection ==
    /\ Begin
    /\ host.known.seq # 0
    /\ replace_pkcs11_metadata_record("project", [Current EXCEPT !.public = TRUE])
    /\ Risked

destroy_public_projection ==
    /\ Begin
    /\ host.known.seq # 0 /\ Current.public
    /\ replace_pkcs11_metadata_record("unproject", [Current EXCEPT !.public = FALSE])
    /\ published' = published \ {host.known.seq}
    /\ UNCHANGED accepted

(* C_CreateObject for a public key, here that of the native key.           *)
store_backed_object ==
    /\ Begin
    /\ hsm.live
    /\ run' = [NoRun EXCEPT !.op = "create", !.pc = "put", !.new = Stored(hsm.seq)]
    /\ Promised

(* C_DestroyObject for a public key with a record of its own.              *)
destroy_backed_object ==
    /\ Begin
    /\ \E s \in 1..MaxSequence :
        /\ CachedWith(host, Stored(s)) # {}
        /\ run' = [NoRun EXCEPT !.op = "discard", !.pc = "delete", !.todo = {Stored(s)}]
        /\ published' = published \ {s}
    /\ UNCHANGED accepted

-----------------------------------------------------------------------------
(* Replacement: update or create, then delete.                             *)


try_update_storage_object ==
    /\ run.pc = "update"
    /\ \/ /\ Takes(run.link.id)
          /\ Done(Put(run.link.id, run.new))
          /\ host' = Written(forget_cached_object(host, run.link.id), run.new, run.link.id)
          /\ Goto("delete") /\ Promised /\ Changed
       \/ /\ ~Takes(run.link.id) /\ Impossible
          /\ Goto("put") /\ Promised /\ UNCHANGED <<host, fresh>>
       \/ /\ Failed(IF Takes(run.link.id) THEN Put(run.link.id, run.new) ELSE hsm)
          /\ Fail /\ Changed /\ UNCHANGED host

(* A record that is known to be there is not written again.                *)
KnownToBeThere(record) ==
    \/ \E w \in host.writes : w.of = record
    \/ CachedWith(host, record) # {}

(* write_backed_key_metadata checks the record against the key it knows.   *)
Fits(record) == record.kind = "canonical" => host.key = record.target

put ==
    /\ run.pc = "put"
    /\ IF KnownToBeThere(run.new)
       THEN /\ Goto("delete") /\ Promised
            /\ UNCHANGED <<hsm, host, user, moved, fresh, spent>>
       ELSE \/ \E id \in OpaqueIds :
                 /\ Fits(run.new) /\ ~Present(id)
                 /\ \/ /\ Done(Put(id, run.new))
                       /\ host' = Written(forget_cached_object(host, id), run.new, id)
                       /\ Goto("delete") /\ Promised /\ Changed
                    \/ Failed(Put(id, run.new)) /\ Fail /\ Changed /\ UNCHANGED host
            \/ /\ ~Fits(run.new) \/ \A id \in OpaqueIds : Present(id)
               /\ Impossible
               /\ Fail /\ UNCHANGED <<host, fresh>>

(* delete, of one reference after the other: where it was written and      *)
(* where it was seen.  Only C_DestroyObject minds if it is nowhere.        *)
delete ==
    /\ run.pc = "delete"
    /\ UNCHANGED <<hsm, host, user, moved, fresh, spent>>
    /\ \/ run.todo = {} /\ Goto("refresh") /\ Promised
       \/ \E record \in run.todo :
            LET ids == {w.id : w \in {v \in host.writes : v.of = record}}
                           \cup CachedWith(host, record)
            IN  IF ids = {} /\ run.op = "discard" THEN Fail
                ELSE /\ run' = [run EXCEPT !.todo = @ \ {record}, !.ids = ids,
                                           !.pc = IF ids = {} THEN "delete" ELSE "erase"]
                     /\ Promised

(* The next step of delete_metadata_objects, which goes on after an error. *)
Erased(id, failed) ==
    LET rest == run.ids \ {id}
    IN  IF rest # {} THEN run' = [run EXCEPT !.ids = rest, !.failed = failed] /\ Promised
        ELSE IF failed THEN Fail
        ELSE /\ run' = [run EXCEPT !.ids = {},
                                   !.pc = IF run.op = "destroy" THEN "refresh" ELSE "delete"]
             /\ Promised

delete_metadata_objects ==
    /\ run.pc = "erase"
    /\ \E id \in run.ids :
        \/ /\ Present(id) /\ Done(Deleted(id))
           /\ host' = forget_cached_object(host, id)
           /\ Erased(id, run.failed) /\ Changed
        \/ ~Present(id) /\ Impossible /\ Erased(id, TRUE) /\ UNCHANGED <<host, fresh>>
        \/ Failed(Deleted(id)) /\ Erased(id, TRUE) /\ Changed /\ UNCHANGED host

-----------------------------------------------------------------------------
(* C_DestroyObject for the native key: its public object survives it under *)
(* the ID of the companion.                                                *)

Obsolete == {l.id : l \in metadata_objects_in_format("canonical")}

destroy_native_object ==
    /\ Begin
    /\ host.known.seq # 0
    /\ run' = [NoRun EXCEPT !.op = "destroy", !.ids = Obsolete,
                            !.pc = IF Current.public THEN "list" ELSE "native"]
    /\ Risked

(* list lists the device again; the companion must still be as it was.     *)
list ==
    /\ run.pc = "list"
    /\ LET now == discover_objects(host)
           same == {id \in run.ids : now.cached[id].seq = host.cached[id].seq}
           linked == {id \in same : now.cached[id].record = host.known.record}
       IN  \/ /\ Done(hsm)
              /\ host' = now
              /\ \/ \E id \in linked :
                      /\ run' = [run EXCEPT
                             !.pc = "unlink", !.ids = @ \ {id},
                             !.link = [id |-> id, record |-> host.known.record],
                             !.existed = CachedWith(now, Stored(host.known.seq)) # {}]
                      /\ Promised
                 \/ /\ linked = {} \/ same # run.ids
                    /\ Return(FALSE)
              /\ UNCHANGED fresh
           \/ ListingFailed

unlink ==
    /\ run.pc = "unlink"
    /\ LET id == run.link.id
       IN  \/ /\ Present(id) /\ Done(Deleted(id))
              /\ host' = forget_cached_object(host, id)
              /\ Goto(IF run.existed THEN "native" ELSE "standalone") /\ Promised /\ Changed
           \/ ~Present(id) /\ Impossible /\ Return(FALSE) /\ UNCHANGED <<host, fresh>>
           \/ Failed(Deleted(id)) /\ Return(FALSE) /\ Changed /\ UNCHANGED host

write_standalone_storage_object ==
    /\ run.pc = "standalone"
    /\ LET id == run.link.id
           record == Stored(run.link.record.target)
       IN  \/ /\ Takes(id) /\ Done(Put(id, record))
              /\ host' = Written(forget_cached_object(host, id), record, id)
              /\ Goto("native") /\ Changed
           \/ ~Takes(id) /\ Impossible /\ Goto("restore") /\ UNCHANGED <<host, fresh>>
           \/ /\ Failed(IF Takes(id) THEN Put(id, record) ELSE hsm)
              /\ Goto("restore") /\ Changed /\ UNCHANGED host
    /\ Promised

AfterRefusal ==
    IF run.link = NoObject THEN Return(FALSE)
    ELSE Goto(IF run.existed THEN "restore" ELSE "undo") /\ Promised

delete_native ==
    /\ run.pc = "native"
    /\ \/ /\ hsm.live /\ Done(KeyDeleted)
          /\ host' = forget_key(host)
          /\ Goto(IF run.ids = {} THEN "refresh" ELSE "erase") /\ Promised /\ Changed
       \/ ~hsm.live /\ Impossible /\ AfterRefusal /\ UNCHANGED <<host, fresh>>
       \/ Failed(KeyDeleted) /\ AfterRefusal /\ Changed /\ UNCHANGED host

\* Mutant of undo: the companion is not put back.
undo_only ==
    /\ run.pc = "undo"
    /\ LET id == run.link.id
       IN  /\ \/ Present(id) /\ Done(Deleted(id))
              \/ ~Present(id) /\ Impossible
              \/ Failed(Deleted(id))
           /\ host' = forget_cached_object(host, id)
    /\ Return(FALSE) /\ Changed

(* The public key's new record goes again, and the companion comes back.   *)
undo ==
    /\ run.pc = "undo"
    /\ LET id == run.link.id
       IN  /\ \/ Present(id) /\ Done(Deleted(id))
              \/ ~Present(id) /\ Impossible
              \/ Failed(Deleted(id))
           /\ host' = forget_cached_object(host, id)
    /\ Goto("restore") /\ Promised /\ Changed

restore ==
    /\ run.pc = "restore"
    /\ LET id == run.link.id
       IN  \/ /\ Takes(id) /\ Done(Put(id, run.link.record))
              /\ host' = forget_cached_object(host, id)
           \/ ~Takes(id) /\ Impossible /\ UNCHANGED host
           \/ Failed(IF Takes(id) THEN Put(id, run.link.record) ELSE hsm) /\ UNCHANGED host
    /\ Return(FALSE) /\ Changed

-----------------------------------------------------------------------------
(* Generation, refresh and login.                                          *)

(* C_GenerateKey under the key's ID: the attributes follow the listing.    *)
generate_key ==
    LET generated == [hsm EXCEPT !.live = TRUE, !.seq = @ + 1]
    IN  /\ Idle /\ user /\ ~hsm.live /\ hsm.seq < MaxSequence
        /\ \/ /\ Use("calls", MaxHsmCalls)
              /\ hsm' = generated
              /\ run' = [NoRun EXCEPT !.op = "generate", !.pc = "refresh"]
              /\ UNCHANGED <<user, moved>>
           \/ Failed(generated) /\ UNCHANGED run
        /\ accepted' = {Metadata(hsm'.seq, NativeLabel, FALSE)}
        /\ Changed /\ UNCHANGED <<host, published>>

name_generated_key ==
    /\ run.pc = "name"
    /\ \E label \in Labels \cup {NativeLabel} :
           replace_pkcs11_metadata_record("set", [Current EXCEPT !.label = label])
    /\ Promised
    /\ UNCHANGED <<hsm, host, user, moved, fresh, spent>>

(* synchronize_caches: a new connection empties the caches.                *)
Synchronized(h) == IF moved THEN EmptyCache ELSE h

(* refresh_slot_token_objects.  Without a session it only looks at the     *)
(* connection.                                                            *)
refresh ==
    /\ run.pc = "refresh"
    /\ \/ /\ Done(hsm)
          /\ host' = backend_token_objects(host)
          /\ fresh' = TRUE
          /\ doubts' = IF Cardinality(Companions("canonical")) > 1 THEN {"hidden"} ELSE {}
          /\ IF run.op = "generate" THEN Goto("name") /\ Promised ELSE Return(~run.failed)
       \/ ListingFailed /\ doubts' = doubts \cup {"change"}
       \/ /\ ~user
          /\ host' = Synchronized(host)
          /\ moved' = FALSE
          /\ doubts' = IF moved THEN {} ELSE doubts
          /\ Return(~run.failed) /\ Changed
          /\ UNCHANGED <<hsm, user, spent>>

(* clear_cached_private_objects: the key and its companions.               *)
Cleared(h) ==
    [forget_key(h) EXCEPT !.cached =
        [id \in OpaqueIds |-> IF id \in {l.id : l \in h.links} THEN Entry(0, NoObject) ELSE @[id]]]

login_user ==
    /\ Idle /\ ~user
    /\ user' = TRUE
    /\ host' = Synchronized(Cleared(host))
    /\ moved' = FALSE
    /\ doubts' = IF moved THEN {} ELSE doubts
    /\ run' = [NoRun EXCEPT !.op = "login", !.pc = "refresh"]
    /\ Promised /\ UNCHANGED <<hsm, fresh, spent>>

logout_user ==
    /\ Idle /\ user
    /\ user' = FALSE
    /\ host' = Cleared(host)
    /\ fresh' = FALSE
    /\ Promised /\ UNCHANGED <<hsm, moved, run, spent>>

(* A search only looks at the caches.                                      *)
PKCS11RS_RefreshTokenObjects ==
    /\ Begin
    /\ run' = [NoRun EXCEPT !.op = "refresh", !.pc = "refresh"]
    /\ Promised

-----------------------------------------------------------------------------
(* Other clients of the device.                                            *)

(* What they write is taken for granted; they delete no companions.        *)
OtherReplaces ==
    /\ Idle /\ hsm.replaces
    /\ Use("changes", MaxChanges)
    /\ \E id \in Companions("canonical"), label \in Labels :
           hsm' = Put(id, [hsm.opaque[id].record EXCEPT !.label = label])
    /\ accepted' = Held' \cup {Attributes'}
    /\ published' = {s \in published : Published(s)'}
    /\ fresh' = FALSE
    /\ doubts' = doubts \cup {"change"}
    /\ UNCHANGED <<host, user, moved, run>>

-----------------------------------------------------------------------------
HsmObjectsInit ==
    /\ \E replaces \in BOOLEAN, first \in OpaqueIds, legacy \in Labels \cup {NativeLabel} :
        hsm = [live |-> TRUE, seq |-> 1, replaces |-> replaces,
               opaque |-> [id \in OpaqueIds |->
                   IF id = first /\ legacy # NativeLabel
                   THEN Entry(1, [Metadata(1, legacy, FALSE) EXCEPT !.kind = "legacy"])
                   ELSE Entry(0, NoObject)]]
    /\ host = EmptyCache
    /\ user = FALSE
    /\ moved = FALSE
    /\ run = NoRun
    /\ accepted = {Attributes}
    /\ published = {}
    /\ fresh = FALSE
    /\ doubts = {}
    /\ spent = [calls |-> 0, refusals |-> 0, losses |-> 0, changes |-> 0]

Acts ==
    \/ yubihsm_set_attributes \/ persist_public_projection \/ destroy_public_projection
    \/ store_backed_object \/ destroy_backed_object
    \/ try_update_storage_object \/ put \/ delete \/ delete_metadata_objects
    \/ destroy_native_object \/ list \/ unlink \/ write_standalone_storage_object
    \/ delete_native \/ undo \/ restore
    \/ generate_key \/ name_generated_key \/ logout_user \/ PKCS11RS_RefreshTokenObjects

(* What a call leaves that returns an error without a listing is unseen.   *)
HsmObjectsNext ==
    \/ Acts /\ doubts' = IF ~Idle /\ Idle' THEN doubts \cup {"change"} ELSE doubts
    \/ refresh \/ login_user
    \/ OtherReplaces

HsmObjectsSpec == HsmObjectsInit /\ [][HsmObjectsNext]_hsmObjectVars

(***************************************************************************)
(* Properties                                                              *)
(***************************************************************************)
\* docs/yubihsm-auth.md: several companions are "ambiguous until an attribute update
\* resolves the pkcs11rs namespace".  After a call on the key's attributes that returned
\* success, a listing included, every client finds these attributes.
UpdateResolves ==
    [][run.pc = "refresh" /\ run.op \in {"set", "project", "unproject"} /\ ~run.failed
           /\ doubts \subseteq {"hidden"} /\ Idle' /\ fresh' => Attributes' = run.new]_hsmObjectVars

\* When a call on the key's attributes has returned success, the device holds those
\* attributes for every client, and what a listing after it shows of the key is what
\* the device holds: no write is left out because an earlier one is remembered, no
\* old companion hides the new one or comes back, and no companion of an earlier key
\* is taken for the key's own.
UpdateStored ==
    Idle /\ hsm.live =>
        /\ \A a \in accepted : accepted = {a} => Attributes = a
        /\ user /\ fresh => host.known.seq = hsm.seq /\ Current = Attributes

\* docs/yubihsm-auth.md: replacement creates before it deletes.  At every moment of a
\* change the key has a companion with the attributes it had or with those it is
\* getting, so that a failed, refused or interrupted call loses neither; a destruction
\* that fails gives the key its attributes back.
AttributesKept ==
    hsm.live /\ run.op # "destroy" => Held \cap (accepted \cup {run.new}) # {}

\* docs/yubihsm-auth.md: "Deleting the private key first preserves the public object's
\* lifetime."  It is there as an aspect of the key or as a record of its own, also
\* when a command of the destruction was refused and undone.
PublicOutlivesKey == Idle => \A s \in published : Published(s)

Opaque == [OpaqueIds -> [seq : Nat, record : Record \cup {NoObject}]]

HsmObjectsTypeOK ==
    /\ hsm \in [live : BOOLEAN, seq : Sequence, replaces : BOOLEAN, opaque : Opaque]
    /\ host \in [cached : Opaque, key : Sequence, links : SUBSET [id : OpaqueIds, seq : Nat],
                 known : [seq : Sequence, record : Record \cup {NoObject}],
                 writes : SUBSET [of : Record, id : OpaqueIds]]
    /\ run \in [op : {"none", "set", "project", "unproject", "create", "discard",
                      "destroy", "generate", "login", "refresh"},
                pc : {"none", "update", "put", "delete", "erase", "list", "unlink", "standalone",
                      "native", "undo", "restore", "name", "refresh"},
                new : Record \cup {NoObject}, todo : SUBSET Record, ids : SUBSET OpaqueIds,
                link : [id : OpaqueIds, record : Record] \cup {NoObject},
                existed : BOOLEAN, failed : BOOLEAN]
    /\ {user, moved, fresh} \subseteq BOOLEAN
    /\ doubts \subseteq {"change", "hidden"}
    /\ accepted \subseteq Record \cup {NoObject} /\ published \subseteq Sequence
=============================================================================
