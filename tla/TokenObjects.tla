---------------------------- MODULE TokenObjects ----------------------------
(***************************************************************************)
(* The objects of a slot: the keys on a PIV card, the token objects kept   *)
(* in the slot's content-addressed storage, the session objects kept in    *)
(* the storage of their session, the handles of all three, and the         *)
(* searches that enumerate handles while objects come and go.              *)
(*                                                                         *)
(* A key on the card is identified by its key slot and its key; a stored   *)
(* object by its content, as its reference is a digest of what is stored.  *)
(* A key and its public half share their fate, so a key has one object.    *)
(***************************************************************************)
EXTENDS Integers, Sequences, FiniteSets, SequencesExt, Functions, TLC

CONSTANTS
    Sessions,     \* sessions of the slot
    KeySlots,     \* key slots of the card
    Keys,         \* keys that may be generated or imported
    Contents,     \* canonical encodings of public keys
    IdOf,         \* the CKA_ID in a content: that of a key slot or none
    Templates,    \* the CKA_IDs that searches ask for: none, or a set of one
    MaxHandle,    \* bound on object handles
    MaxFailures,  \* bound on listings and deletions that fail
    MaxSearches,  \* bound on the sessions that search at a time
    NoKey,        \* an empty key slot
    NoFind        \* a session that does not search

ASSUME ObjectsAssumption ==
    /\ NoKey \notin Keys
    /\ Contents \cap (Keys \cup KeySlots \X Keys) = {}
    /\ IsFiniteSet(KeySlots)
    /\ MaxHandle \in Nat /\ MaxFailures \in Nat /\ MaxSearches \in Nat
    /\ DOMAIN IdOf = Contents

VARIABLES
    keys,        \* the key in each key slot of the card
    store,       \* the contents in the slot's storage
    handles,     \* token_object_handles: what each handle locates
    backed,      \* backed_object_handles: the content behind a handle
    references,  \* backed_object_references: the contents last listed or put
    cache,       \* backed_token_objects: the contents last listed
    memory,      \* memory_objects: content and creator of a session object
    storage,     \* the contents in the storage of each session
    find,        \* the find operation of each session
    next,        \* the next object handle
    failures,    \* failures so far
    given,       \* the key or the content that each token handle was given out for
    vanished,    \* session objects that another call than their destruction removed
    seen         \* the handles the search of each session has returned, if still alive

token == <<keys, store, handles, backed, references, cache>>
vars == <<token, memory, storage, find, next, failures, given, vanished, seen>>

Handle == 1..MaxHandle
KeyIds == {<<k, x>> : k \in KeySlots, x \in Keys}
Uids == KeyIds \cup Contents

TypeOK ==
    /\ keys \in [KeySlots -> Keys \cup {NoKey}]
    /\ store \subseteq Contents
    /\ DOMAIN handles \subseteq Handle /\ Range(handles) \subseteq Uids
    /\ DOMAIN backed \subseteq Handle /\ Range(backed) \subseteq Contents
    /\ references \subseteq Contents
    /\ cache \subseteq Contents
    /\ DOMAIN memory \subseteq Handle
    /\ Range(memory) \subseteq [content : Contents, creator : Sessions]
    /\ storage \in [Sessions -> SUBSET Contents]
    /\ \A s \in Sessions : find[s] # NoFind =>
            find[s].objects \in Seq(Handle) /\ find[s].next \in Nat
    /\ next \in 1..(MaxHandle + 1)
    /\ failures \in 0..MaxFailures

Init ==
    /\ keys \in [KeySlots -> Keys \cup {NoKey}]
    /\ \A k, l \in KeySlots : keys[k] = keys[l] /\ k # l => keys[k] = NoKey
    /\ store = {}
    /\ handles = <<>>
    /\ backed = <<>>
    /\ references = {}
    /\ cache = {}
    /\ memory = <<>>
    /\ storage = [s \in Sessions |-> {}]
    /\ find = [s \in Sessions |-> NoFind]
    /\ next = 1
    /\ failures = 0
    /\ given = <<>>
    /\ vanished = {}
    /\ seen = [s \in Sessions |-> <<>>]

-----------------------------------------------------------------------------
(* Handles.                                                                *)

Live == DOMAIN handles \cup DOMAIN memory

(* A table without some of its entries, and with those of another.        *)
Without(f, S) == [x \in DOMAIN f \ S |-> f[x]]
With(f, g) == [x \in DOMAIN f \cup DOMAIN g |-> IF x \in DOMAIN g THEN g[x] ELSE f[x]]
One(h, value) == [x \in {h} |-> value]

(* The handles of a sequence that are not gone, in their order.            *)
Retain(s, gone) ==
    LET kept[i \in 0..Len(s)] ==
            IF i = 0 THEN <<>>
            ELSE IF s[i] \in gone THEN kept[i - 1] ELSE Append(kept[i - 1], s[i])
    IN  kept[Len(s)]

Ascending(S) == Retain([h \in Handle |-> h], Handle \ S)

\* Mutant of remove_object_handle: the cursor stays where it was.
remove_and_keep_cursor(operation, gone) ==
    IF operation = NoFind THEN NoFind
    ELSE [objects |-> Retain(operation.objects, gone),
          next    |-> operation.next]

(* A search loses the handles that are gone, and its cursor moves back by  *)
(* those it had already passed.                                            *)
remove_object_handle(operation, gone) ==
    IF operation = NoFind THEN NoFind
    ELSE [objects |-> Retain(operation.objects, gone),
          next    |-> operation.next -
                      Cardinality({i \in 1..operation.next : operation.objects[i] \in gone})]

(* The key or the content of an object, wherever the card keeps it.        *)
Identity(uid) == IF uid \in KeyIds THEN uid[2] ELSE uid

(* The handle tables after a call: searches lose what is gone.             *)
Publish(newHandles, newBacked, newMemory) ==
    LET gone == Live \ (DOMAIN newHandles \cup DOMAIN newMemory)
    IN  /\ handles' = newHandles
        /\ backed' = Without(newBacked, gone)
        /\ memory' = newMemory
        /\ find' = [s \in Sessions |-> remove_object_handle(find[s], gone)]
        /\ given' = [h \in DOMAIN newHandles |->
                        IF h \in DOMAIN given THEN given[h] ELSE Identity(newHandles[h])]
        /\ seen' = [s \in Sessions |-> Retain(seen[s], gone)]

(* allocate_object, for a sequence of new objects.                         *)
Allocated(objects) == [h \in next..(next + Len(objects) - 1) |-> objects[h - next + 1]]

Spend(objects) ==
    /\ next + Len(objects) <= MaxHandle + 1
    /\ next' = next + Len(objects)

-----------------------------------------------------------------------------
(* Reconciliation of the handles with a listing.                           *)

KeyObjects(card) == {<<k, card[k]>> : k \in {x \in KeySlots : card[x] # NoKey}}

(* Handles of an object that another handle is about to be bound to.       *)
Conflicts(table, rebindings) ==
    {h \in DOMAIN table \ DOMAIN rebindings : table[h] \in Range(rebindings)}

\* Mutant of Kept: a key is known by its key slot alone.
KeptByKeySlot(table, rebindings, listed) ==
    LET bound == With(Without(table, Conflicts(table, rebindings)), rebindings)
        Now(u) == IF u \in KeyIds THEN {id \in listed \cap KeyIds : id[1] = u[1]} ELSE {u} \cap listed
    IN  [h \in {x \in DOMAIN bound : Now(bound[x]) # {}} |-> CHOOSE u \in Now(bound[h]) : TRUE]

Kept(table, rebindings, listed) ==
    LET bound == With(Without(table, Conflicts(table, rebindings)), rebindings)
    IN  [h \in {x \in DOMAIN bound : bound[x] \in listed} |-> bound[h]]

(* New objects in the order of their identifiers: keys by key slot, then   *)
(* the stored objects.                                                     *)
InCardOrder(new) ==
    LET slots == SetToSeq({id[1] : id \in new \cap KeyIds})
    IN  [i \in DOMAIN slots |-> CHOOSE id \in new \cap KeyIds : id[1] = slots[i]]
        \o SetToSeq(new \cap Contents)

(* record_backed_objects: contents of the listing that have a handle.      *)
Recorded(table, newBacked, contents) ==
    With(newBacked, [h \in {x \in DOMAIN table : table[x] \in contents} |-> table[h]])

(* reconcile_slot_token_objects_with_rebindings; the handle of a content   *)
(* that was just put is recorded with it.                                  *)
Reconcile(table, newBacked, newMemory, rebindings, listed, put) ==
    LET kept == Kept(table, rebindings, listed)
        new == InCardOrder(listed \ Range(kept))
        all == With(kept, Allocated(new))
    IN  /\ Spend(new)
        /\ Publish(all, Recorded(all, newBacked, put), newMemory)

(* refresh_slot_token_objects_with_rebindings, on the card and the storage *)
(* as the call has left them.                                              *)
RefreshSlot(card, contents, table, newBacked, newMemory, rebindings, put) ==
    /\ references' = contents
    /\ cache' = contents
    /\ UNCHANGED failures
    /\ Reconcile(table, Recorded(table, newBacked, contents), newMemory, rebindings,
                 KeyObjects(card) \cup contents, put)

(* The listing fails: what the call did before it stays done.              *)
ListingFails(newReferences, table, newBacked, newMemory) ==
    /\ failures < MaxFailures
    /\ failures' = failures + 1
    /\ references' = newReferences
    /\ Publish(table, newBacked, newMemory)
    /\ UNCHANGED <<cache, next>>

refresh_token_objects ==
    /\ RefreshSlot(keys, store, handles, backed, memory, <<>>, {})
    /\ UNCHANGED <<keys, store, storage, vanished>>

-----------------------------------------------------------------------------
(* Stored and session objects.                                             *)

(* store_backed_object with CKA_TOKEN: the content is put, then listed.    *)
StoreTokenObject(c) ==
    /\ store' = store \cup {c}
    /\ \/ RefreshSlot(keys, store', handles, backed, memory, <<>>, {c})
       \/ ListingFails(references \cup {c}, handles, backed, memory)
    /\ UNCHANGED <<keys, storage, vanished>>

(* store_backed_object of a session object, which C_CreateObject,          *)
(* C_CopyObject and C_DeriveKey reach.                                     *)
StoreSessionObject(s, c) ==
    /\ storage' = [storage EXCEPT ![s] = @ \cup {c}]
    /\ next <= MaxHandle
    /\ next' = next + 1
    /\ memory' = With(memory, One(next, [content |-> c, creator |-> s]))
    /\ backed' = With(backed, One(next, c))
    /\ UNCHANGED <<keys, store, handles, references, cache, find, failures, given, vanished, seen>>

\* Mutant of backed_reference_is_shared: every object is alone with its content.
backed_reference_is_alone(h, c) == FALSE

(* Another object of the same session, or another token handle, has it.    *)
backed_reference_is_shared(h, c) ==
    \E x \in DOMAIN backed \ {h} :
        /\ backed[x] = c
        /\ IF h \in DOMAIN memory
           THEN x \in DOMAIN memory /\ memory[x].creator = memory[h].creator
           ELSE x \in DOMAIN handles

(* resolve_object finds the object of a handle.                            *)
Resolves(h) ==
    \/ h \in DOMAIN memory
    \/ h \in DOMAIN handles /\ handles[h] \in cache \cup KeyObjects(keys)

DestroySessionObject(h) ==
    /\ h \in DOMAIN memory
    /\ storage' = [storage EXCEPT ![memory[h].creator] =
                       IF backed_reference_is_shared(h, backed[h]) THEN @ ELSE @ \ {backed[h]}]
    /\ Publish(handles, backed, Without(memory, {h}))
    /\ UNCHANGED <<keys, store, references, cache, next, failures, vanished>>

(* The content behind a handle of a stored object; a destruction that did  *)
(* not see its listing has left the handle without one.                    *)
Reference(h) ==
    IF h \in DOMAIN backed THEN {backed[h]} ELSE {handles[h]} \cap references

DestroyTokenObject(h) ==
    /\ h \in DOMAIN handles
    /\ handles[h] \in cache
    /\ IF Reference(h) = {}
       THEN /\ Publish(Without(handles, {h}), backed, memory)
            /\ UNCHANGED <<store, references, cache, next, failures>>
       ELSE \E c \in Reference(h) :
            LET dropped == IF backed_reference_is_shared(h, c) THEN {} ELSE {c}
            IN  \/ /\ dropped \subseteq store
                   /\ store' = store \ dropped
                   /\ \/ RefreshSlot(keys, store', handles, Without(backed, {h}), memory, <<>>, {})
                      \/ ListingFails(references \ {handles[h]}, handles, Without(backed, {h}), memory)
                \/ /\ dropped # {}           \* the deletion fails
                   /\ failures < MaxFailures
                   /\ failures' = failures + 1
                   /\ UNCHANGED <<store, handles, backed, references, cache, memory, find, next,
                                  given, seen>>
    /\ UNCHANGED <<keys, storage, vanished>>

(* replace_backed_object, for C_SetAttributeValue.                         *)
ReplaceSessionObject(h, c) ==
    /\ h \in DOMAIN memory
    /\ storage' = [storage EXCEPT ![memory[h].creator] =
                       IF c = backed[h] \/ backed_reference_is_shared(h, backed[h]) THEN @ \cup {c}
                       ELSE (@ \ {backed[h]}) \cup {c}]
    /\ backed' = [backed EXCEPT ![h] = c]
    /\ memory' = [memory EXCEPT ![h].content = c]
    /\ UNCHANGED <<keys, store, handles, references, cache, find, next, failures, given, vanished, seen>>

ReplaceTokenObject(h, c) ==
    /\ h \in DOMAIN handles
    /\ handles[h] \in cache
    /\ \E old \in Reference(h) :
        LET dropped == IF c = old \/ backed_reference_is_shared(h, old) THEN {} ELSE {old}
            now == With(backed, One(h, c))
        IN  \/ /\ dropped \subseteq store
               /\ store' = (store \ dropped) \cup {c}
               /\ \/ RefreshSlot(keys, store', handles, now, memory, One(h, c), {})
                  \/ ListingFails((references \ {handles[h]}) \cup {c}, handles, now, memory)
            \/ /\ dropped # {}    \* the old content cannot be deleted
               /\ store' = store \cup {c}
               /\ IF dropped \subseteq store
                  THEN failures < MaxFailures /\ failures' = failures + 1
                  ELSE UNCHANGED failures
               /\ UNCHANGED <<handles, backed, references, cache, memory, find, next, given, seen>>
    /\ UNCHANGED <<keys, storage, vanished>>

(* Another process that shares the directory deletes a content.            *)
OtherProcessDeletes(c) ==
    /\ c \in store
    /\ failures < MaxFailures
    /\ failures' = failures + 1
    /\ store' = store \ {c}
    /\ UNCHANGED <<keys, handles, backed, references, cache, memory, storage, find, next,
                   given, vanished, seen>>

-----------------------------------------------------------------------------
(* Keys on the card.                                                       *)

(* Every object with the CKA_ID of a key slot and the class of a key,      *)
(* whatever holds it.                                                      *)
piv_key_object_handles(k) ==
    {h \in DOMAIN handles :
        \/ handles[h] = <<k, keys[k]>>
        \/ handles[h] \in cache /\ IdOf[handles[h]] = k}
    \cup {h \in DOMAIN memory : IdOf[memory[h].content] = k}

Vanishing == vanished' = vanished \cup (DOMAIN memory \ DOMAIN memory')

(* C_GenerateKeyPair and C_CreateObject of a private key.                  *)
generate_piv_token_pair(k, x) ==
    LET replaced == piv_key_object_handles(k)
    IN  /\ \A l \in KeySlots : keys[l] # x
        /\ keys' = [keys EXCEPT ![k] = x]
        /\ \/ RefreshSlot(keys', store, Without(handles, replaced), Without(backed, replaced),
                          Without(memory, replaced), <<>>, {})
           \/ ListingFails(references, Without(handles, replaced), Without(backed, replaced),
                           Without(memory, replaced))
        /\ Vanishing
        /\ UNCHANGED <<store, storage>>

piv_delete_key(h) ==
    \E k \in KeySlots :
        /\ h \in DOMAIN handles
        /\ keys[k] # NoKey
        /\ handles[h] = <<k, keys[k]>>
        /\ keys' = [keys EXCEPT ![k] = NoKey]
        /\ \/ RefreshSlot(keys', store, handles, backed, memory, <<>>, {})
           \/ ListingFails(references, handles, backed, memory)
        /\ UNCHANGED <<store, storage, vanished>>

(* The object the moved key has in the new listing.                        *)
Target(to) == <<to, keys'[to]>>

(* C_SetAttributeValue(CKA_ID) of a private key; the card refuses a key    *)
(* slot in use.  The handles are reconciled with the card's objects only.  *)
piv_move_key(h, to) ==
    \E from \in KeySlots :
        /\ h \in DOMAIN handles
        /\ keys[from] # NoKey
        /\ handles[h] = <<from, keys[from]>>
        /\ keys[to] = NoKey
        /\ keys' = [keys EXCEPT ![from] = NoKey, ![to] = keys[from]]
        /\ LET source == piv_key_object_handles(from)
               others == (source \cup piv_key_object_handles(to)) \cap DOMAIN memory
               left == Without(memory, others)
               rebindings == [x \in source \cap DOMAIN handles |-> Target(to)]
           IN  \/ /\ Reconcile(handles, Without(backed, others), left, rebindings, KeyObjects(keys'), {})
                  /\ UNCHANGED <<references, cache, failures>>
               \/ ListingFails(references, handles, Without(backed, others), left)
        /\ Vanishing
        /\ UNCHANGED <<store, storage>>

-----------------------------------------------------------------------------
(* Searches and sessions.                                                  *)

(* resolved_objects, with the CKA_ID of the template if it has one.        *)
Matching(template) ==
    {h \in Live :
        /\ Resolves(h)
        /\ \/ template = {}
           \/ h \in DOMAIN memory /\ IdOf[memory[h].content] \in template
           \/ h \in DOMAIN handles /\ handles[h] \in cache /\ IdOf[handles[h]] \in template
           \/ h \in DOMAIN handles /\ handles[h] \in KeyObjects(keys) /\ handles[h][1] \in template}

find_objects_init(s, template) ==
    /\ find[s] = NoFind
    /\ Cardinality({x \in Sessions : find[x] # NoFind}) < MaxSearches
    /\ find' = [find EXCEPT ![s] =
                  [objects |-> Ascending(Matching(template)), next |-> 0]]
    /\ seen' = [seen EXCEPT ![s] = <<>>]
    /\ UNCHANGED <<token, memory, storage, next, failures, given, vanished>>

find_objects(s, count) ==
    /\ find[s] # NoFind
    /\ LET left == Len(find[s].objects) - find[s].next
           returned == IF left < count THEN left ELSE count
       IN  /\ find' = [find EXCEPT ![s].next = @ + returned]
           /\ seen' = [seen EXCEPT ![s] = @ \o
                          SubSeq(find[s].objects, find[s].next + 1, find[s].next + returned)]
    /\ UNCHANGED <<token, memory, storage, next, failures, given, vanished>>

find_objects_final(s) ==
    /\ find[s] # NoFind
    /\ find' = [find EXCEPT ![s] = NoFind]
    /\ seen' = [seen EXCEPT ![s] = <<>>]
    /\ UNCHANGED <<token, memory, storage, next, failures, given, vanished>>

(* The session closes: its objects, its storage and its search end.        *)
close_session(s) ==
    LET own == {h \in DOMAIN memory : memory[h].creator = s}
    IN  /\ storage[s] # {} \/ find[s] # NoFind
        /\ storage' = [storage EXCEPT ![s] = {}]
        /\ memory' = Without(memory, own)
        /\ backed' = Without(backed, own)
        /\ find' = [x \in Sessions |-> IF x = s THEN NoFind ELSE remove_object_handle(find[x], own)]
        /\ seen' = [x \in Sessions |-> IF x = s THEN <<>> ELSE Retain(seen[x], own)]
        /\ UNCHANGED <<keys, store, handles, references, cache, next, failures, given, vanished>>

Next ==
    \/ refresh_token_objects
    \/ \E c \in Contents :
        \/ StoreTokenObject(c)
        \/ OtherProcessDeletes(c)
        \/ \E s \in Sessions : StoreSessionObject(s, c)
        \/ \E h \in Live : ReplaceSessionObject(h, c) \/ ReplaceTokenObject(h, c)
    \/ \E h \in Live :
        \/ DestroySessionObject(h)
        \/ DestroyTokenObject(h)
        \/ piv_delete_key(h)
        \/ \E to \in KeySlots : piv_move_key(h, to)
    \/ \E k \in KeySlots, x \in Keys : generate_piv_token_pair(k, x)
    \/ \E s \in Sessions :
        \/ \E template \in Templates : find_objects_init(s, template)
        \/ \E count \in 1..2 : find_objects(s, count)
        \/ find_objects_final(s)
        \/ close_session(s)

Spec == Init /\ [][Next]_vars

-----------------------------------------------------------------------------
(* Properties. *)

(* However objects are created, destroyed, moved and replaced during a     *)
(* search (C_FindObjectsInit to C_FindObjectsFinal) by this or by other    *)
(* sessions: no handle is returned twice, every handle that was returned   *)
(* and is still alive lies before the cursor, and none that is gone is     *)
(* still to come.                                                          *)
FindExact ==
    \A s \in Sessions : find[s] # NoFind =>
        LET passed == {find[s].objects[i] : i \in 1..find[s].next}
        IN  /\ find[s].next \in 0..Len(find[s].objects)
            /\ \A i, j \in DOMAIN seen[s] : i # j => seen[s][i] # seen[s][j]
            /\ passed = Range(seen[s])
            /\ Range(find[s].objects) \subseteq Live

(* Session objects share a content in the storage of their session: the    *)
(* content is there until the last of them is destroyed or changed.        *)
SharedContentKept ==
    \A h \in DOMAIN memory :
        /\ h \in DOMAIN backed
        /\ backed[h] = memory[h].content
        /\ memory[h].content \in storage[memory[h].creator]

(* A handle that was given out for a key names this key, or nothing, for   *)
(* as long as it is valid, wherever the key is moved and whichever of the  *)
(* listings after a move fails; and no other handle names the key.         *)
HandleKeepsKey ==
    \A h \in DOMAIN handles : given[h] \in Keys =>
        /\ handles[h] \in KeyIds /\ handles[h][2] = given[h]
        /\ \A x \in DOMAIN handles : given[x] \in Keys /\ handles[x] = handles[h] => x = h

(* A session object stays until it is destroyed or its session closes.     *)
SessionObjectsLast == vanished = {}
=============================================================================
