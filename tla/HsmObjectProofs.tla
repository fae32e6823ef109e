-------------------------- MODULE HsmObjectProofs --------------------------
(***************************************************************************)
(* Proofs about the objects of a YubiHSM slot, for any number of object    *)
(* IDs, labels, calls, refusals, lost answers and changes by others: the   *)
(* key keeps its attributes, an update that succeeded is stored, and the   *)
(* public key outlives the private one.                                    *)
(*                                                                         *)
(* The parts of the invariant are stated for a device d and caches h, so   *)
(* that a lemma about them serves the state before and after a step.       *)
(***************************************************************************)
EXTENDS HsmObjects, TLAPS, FiniteSetTheorems

Device == [live : BOOLEAN, seq : Sequence, replaces : BOOLEAN, opaque : Opaque]
Cache ==
    [cached : Opaque, key : Sequence, links : SUBSET [id : OpaqueIds, seq : Nat],
     known : [seq : Sequence, record : Record \cup {NoObject}],
     writes : SUBSET [of : Record, id : OpaqueIds]]

AttrOps == {"set", "project", "unproject"}

(* The record under an ID, and the companions of the key.                  *)
On(d, id) == d.opaque[id].record
Of(d, kind) ==
    {id \in OpaqueIds : On(d, id) # NoObject /\ On(d, id).kind = kind /\ On(d, id).target = d.seq}
Companion(d) == Of(d, "canonical") \cup Of(d, "legacy")
Native(d) == Metadata(d.seq, NativeLabel, FALSE)
AttributesOf(d) ==
    LET format == IF Of(d, "canonical") # {} THEN "canonical" ELSE "legacy"
        found == {On(d, id) : id \in Of(d, format)}
    IN  IF Cardinality(Of(d, format)) = 1
        THEN [(CHOOSE r \in found : TRUE) EXCEPT !.kind = "canonical"] ELSE Native(d)
CurrentOf(h) ==
    IF h.known.record = NoObject THEN Metadata(h.known.seq, NativeLabel, FALSE)
    ELSE [h.known.record EXCEPT !.kind = "canonical"]
HasStored(d, s) == \E id \in OpaqueIds : On(d, id) = Stored(s)

(* What a change by another client leaves of a companion.                  *)
Alike(r, q) ==
    r.kind = "canonical" /\ q.kind = "canonical" /\ r.target = q.target /\ r.public = q.public

DeviceOK(d) ==
    /\ d.seq >= 1
    /\ \A id \in OpaqueIds : On(d, id) # NoObject =>
        /\ On(d, id).target \in 1..d.seq
        /\ On(d, id).kind = "stored" => On(d, id) = Stored(On(d, id).target)
        /\ On(d, id).kind = "legacy" => ~On(d, id).public

(* A cached object is there, and as it was unless another client changed   *)
(* it since the last listing.                                              *)
CachedOK(d, h, stale) ==
    \A id \in OpaqueIds : h.cached[id].record # NoObject =>
        /\ On(d, id) # NoObject
        /\ \/ h.cached[id] = d.opaque[id]
           \/ /\ h.cached[id].seq < d.opaque[id].seq
              /\ d.replaces /\ "change" \in stale
              /\ Alike(h.cached[id].record, On(d, id))

WritesOK(d, h) ==
    \A w \in h.writes :
        /\ On(d, w.id) # NoObject
        /\ On(d, w.id) = w.of \/ (d.replaces /\ Alike(w.of, On(d, w.id)))

(* What the slot knows of the key, and that it knows all legacy metadata.  *)
KeyOK(d, h) ==
    /\ h.key # 0 => d.live /\ h.key = d.seq
    /\ h.key = 0 => h.links = {} /\ h.known = Entry(0, NoObject)
    /\ h.known.seq \in {0, d.seq}
    /\ h.known.record # NoObject =>
        /\ h.known.record.target = h.known.seq /\ h.known.seq # 0
        /\ h.known.record.kind # "stored"
        /\ h.known.record.kind = "legacy" => ~h.known.record.public
    /\ \A l \in h.links :
        /\ On(d, l.id) # NoObject /\ On(d, l.id).target = d.seq /\ On(d, l.id).kind # "stored"
        /\ l.seq <= d.opaque[l.id].seq
    /\ h.known.seq # 0 =>
        \A id \in Of(d, "legacy") :
            [id |-> id, seq |-> d.opaque[id].seq] \in h.links /\ h.cached[id] = d.opaque[id]

StoreOK(d, h, stale) == CachedOK(d, h, stale) /\ WritesOK(d, h) /\ KeyOK(d, h)

(* The caches of a listing.                                                *)
SyncedOK(d, h) ==
    /\ \A id \in OpaqueIds : On(d, id) # NoObject => h.cached[id] = d.opaque[id]
    /\ d.live =>
        /\ h.key = d.seq /\ h.known.seq = d.seq
        /\ h.links = {[id |-> id, seq |-> d.opaque[id].seq] :
                          id \in Of(d, "canonical") \cup Of(d, "legacy")}
        /\ CurrentOf(h) = AttributesOf(d)
        /\ \A id \in Of(d, "canonical") :
               Of(d, "canonical") = {id} => h.known.record = On(d, id)

Single(d) == \A i, j \in Of(d, "canonical") : i = j

(* The attributes of the key are among these.                              *)
KeptOK(d, some) ==
    /\ \A id \in Of(d, "canonical") : On(d, id) \in some
    /\ Of(d, "canonical") = {} => AttributesOf(d) \in some
CertainOK(d, some) == NoObject \in some \/ AttributesOf(d) \in some

-----------------------------------------------------------------------------
(* The parts of the invariant about the slot and the running call.         *)

StoreFits ==
    /\ DeviceOK(hsm)
    /\ ~moved => StoreOK(hsm, host, doubts)

SlotFits ==
    /\ user => ~moved
    /\ fresh => user
    /\ fresh \/ (Idle /\ user /\ "change" \notin doubts) \/ run.pc = "name" => SyncedOK(hsm, host)
    /\ Idle /\ user /\ doubts = {} => Single(hsm)
    /\ run.pc = "name" => doubts = {}

(* Which steps a call has, and what it works for.                          *)
Shape ==
    /\ run.op = "none" <=> run = NoRun
    /\ run.pc = "none" <=> run = NoRun
    /\ run.op \in AttrOps =>
        /\ run.pc \in {"update", "put", "delete", "erase", "refresh"}
        /\ hsm.live
        /\ run.new \in Record /\ run.new.kind = "canonical" /\ run.new.target = hsm.seq
        /\ \A r \in run.todo : r.kind = "canonical"
    /\ run.op = "project" => run.new.public
    /\ run.op = "create" =>
        /\ run.pc \in {"put", "delete", "refresh"}
        /\ run.new = Stored(hsm.seq) /\ hsm.live /\ run.todo = {}
    /\ run.op = "discard" => run.pc \in {"delete", "erase", "refresh"}
    /\ run.op = "destroy" =>
        /\ run.pc \in {"list", "unlink", "standalone", "native", "undo", "restore", "erase", "refresh"}
        /\ run.pc # "erase" => ~run.failed
    /\ run.op = "generate" =>
        run.pc \in {"refresh", "name"} /\ hsm.live /\ Companion(hsm) = {}
    /\ run.op \in {"login", "refresh"} => run.pc = "refresh"
    /\ run.op \in {"generate", "login", "refresh"} => user /\ ~run.failed
    /\ run.pc \in {"update", "put", "delete", "list", "unlink", "standalone", "native", "name"} =>
           user
    /\ run.pc = "refresh" /\ ~user => run.failed
    /\ run.pc = "erase" => run.ids # {}
    /\ run.pc \in {"delete", "update", "put"} => run.ids = {} /\ ~run.failed
    /\ run.failed /\ run.pc = "refresh" => run.op = "set"

(* A companion with the new attributes that no deletion will meet.         *)
Safe(d, h, r, id) ==
    /\ On(d, id) = r.new
    /\ id \notin r.ids
    /\ h.cached[id].record \in {r.new, NoObject}
    /\ \A w \in h.writes : w.id = id => w.of = r.new

(* The new attributes are those of a key without companions.               *)
Bare(d, r) == is_empty(r.new) /\ Of(d, "legacy") = {}

(* A replacement deletes companions only, and not the last one.            *)
ReplacingOK(d, h, r) ==
    /\ r.pc = "update" =>
        /\ r.link # NoObject /\ r.link.id \in Of(d, "canonical") /\ r.new \notin r.todo
    /\ r.pc = "put" => r.new \notin r.todo /\ (r.todo # {} => ~d.replaces)
    /\ r.pc \in {"delete", "erase"} /\ (r.todo # {} \/ r.ids # {}) =>
        \/ Bare(d, r)
        \/ r.new \notin r.todo /\ \E id \in OpaqueIds : Safe(d, h, r, id)
    /\ \A id \in r.ids : On(d, id) # NoObject => On(d, id).kind = "canonical"

(* Without doubts, it leaves the new attributes alone.                     *)
SureOK(d, h, r) ==
    /\ r.pc = "update" =>
        /\ Of(d, "canonical") = {r.link.id} /\ On(d, r.link.id) # r.new
        /\ h.cached[r.link.id] = d.opaque[r.link.id] /\ r.todo = {On(d, r.link.id)}
    /\ r.pc = "put" =>
        \A id \in Of(d, "canonical") :
            On(d, id) # r.new /\ On(d, id) \in r.todo /\ h.cached[id] = d.opaque[id]
    /\ r.pc \in {"delete", "erase", "refresh"} =>
        /\ \A id \in Of(d, "canonical") :
            \/ id \in r.ids
            \/ On(d, id) \in r.todo /\ h.cached[id] = d.opaque[id] /\ r.pc # "refresh"
            \/ On(d, id) = r.new
        /\ \A i, j \in Of(d, "canonical") : On(d, i) = r.new /\ On(d, j) = r.new => i = j
        /\ r.pc = "refresh" => r.ids = {}
        /\ Bare(d, r) \/ \E id \in OpaqueIds : On(d, id) = r.new

Replacing ==
    run.op \in AttrOps /\ user =>
        /\ ReplacingOK(hsm, host, run)
        /\ doubts = {} /\ ~run.failed => SureOK(hsm, host, run)

Allowed == IF run.op \in AttrOps THEN accepted \cup {run.new} ELSE accepted

Promises ==
    /\ hsm.live /\ run.op # "destroy" => KeptOK(hsm, Allowed)
    /\ hsm.live /\ run.op \notin AttrOps \cup {"destroy"} => CertainOK(hsm, accepted)

(* A published key has its record, or its companion has it, or the         *)
(* destruction of the key is about to write one of them.                   *)
PublicOK(d, r, unsure, s) ==
    \/ HasStored(d, s)
    \/ /\ d.live /\ s = d.seq
       /\ \/ r.op = "destroy" /\ r.link # NoObject /\ r.pc # "unlink"
          \/ /\ \E id \in Of(d, "canonical") : On(d, id).public
             /\ r.op \in AttrOps => r.new.public
             /\ r.op \in AttrOps \cup {"destroy"} => ~unsure
             /\ r.op = "destroy" => r.pc \in {"list", "unlink"}
PublicFits == \A s \in published : PublicOK(hsm, run, doubts # {}, s)

Discarding ==
    run.op = "discard" /\ user =>
        /\ \A r \in run.todo : r.kind = "stored" /\ r.target \notin published
        /\ \A id \in run.ids : On(hsm, id) # NoObject =>
               On(hsm, id).kind = "stored" /\ On(hsm, id).target \notin published

Creating ==
    run.op = "create" /\ run.pc \in {"delete", "refresh"} => HasStored(hsm, hsm.seq)

(* A destruction can bring the companion back that it took away.           *)
LinkOK(d, r, some) ==
    /\ r.link.id \notin r.ids
    /\ r.link.record.kind = "canonical" /\ r.link.record.target = d.seq /\ r.link.record.public
    /\ r.link.record \in some
    /\ \A id \in Of(d, "canonical") : On(d, id) \in some
    /\ \/ NoObject \in some
       \/ Of(d, "canonical") \ {r.link.id} = {}
       \/ Of(d, "canonical") \ {r.link.id} # {} /\ Native(d) \in some
    /\ r.existed => \E id \in OpaqueIds : id # r.link.id /\ On(d, id) = Stored(d.seq)
    /\ r.pc = "unlink" => On(d, r.link.id) = r.link.record /\ (~r.existed => ~HasStored(d, d.seq))
    /\ r.pc \in {"standalone", "undo"} => ~r.existed
    /\ r.pc = "native" /\ ~r.existed => On(d, r.link.id) = Stored(d.seq)
    /\ r.pc # "unlink" =>
        On(d, r.link.id) = NoObject \/ (~r.existed /\ On(d, r.link.id) = Stored(d.seq))

Destroying ==
    run.op = "destroy" =>
        /\ user \/ moved
        /\ user => \A id \in run.ids : On(hsm, id) # NoObject => On(hsm, id).kind = "canonical"
        /\ run.pc \in {"list", "unlink", "standalone"} => hsm.live
        /\ run.pc \in {"unlink", "standalone", "undo", "restore"} => run.link # NoObject
        /\ run.pc = "list" => run.link = NoObject /\ host.known.seq # 0 /\ CurrentOf(host).public
        /\ run.pc \in {"undo", "restore", "native"} /\ user => hsm.live
        /\ run.pc \in {"erase", "refresh"} => ~hsm.live
        /\ run.pc = "list" \/ (run.pc = "native" /\ run.link = NoObject) =>
               KeptOK(hsm, accepted) /\ CertainOK(hsm, accepted)
        /\ run.link # NoObject /\ hsm.live /\ user => LinkOK(hsm, run, accepted)

Inv ==
    /\ HsmObjectsTypeOK /\ StoreFits /\ SlotFits /\ Shape
    /\ Replacing /\ Promises /\ PublicFits /\ Discarding /\ Creating /\ Destroying

-----------------------------------------------------------------------------
(* Records, and the attributes of a key.                                   *)

LEMMA RecordFacts ==
    /\ NoObject \notin Record /\ NoObject \notin [id : OpaqueIds, record : Record]
    /\ \A t \in Sequence, l \in Labels \cup {NativeLabel}, p \in BOOLEAN : Metadata(t, l, p) \in Record
    /\ \A t \in Sequence : Stored(t) \in Record
    /\ MaxSequence \in Nat \ {0} /\ 0 \in Sequence /\ 1 \in Sequence
  BY HsmObjectsAssumption DEF Record, Metadata, Stored, Sequence

LEMMA CardinalityOne ==
    ASSUME NEW S \in SUBSET OpaqueIds
    PROVE  /\ Cardinality(S) = 1 <=> \E x \in S : S = {x}
           /\ Cardinality(S) > 1 <=> \E x, y \in S : x # y
           /\ IsFiniteSet(S) /\ Cardinality(S) \in Nat
<1>1. IsFiniteSet(S)
  BY HsmObjectsAssumption, FS_Subset
<1>2. Cardinality(S) \in Nat /\ (Cardinality(S) = 0 <=> S = {})
  BY <1>1, FS_CardinalityType, FS_EmptySet
<1>3. Cardinality(S) = 1 <=> \E x : S = {x}
  BY <1>1, FS_Singleton
<1>4. (\E x : S = {x}) <=> \E x \in S : S = {x}
  OBVIOUS
<1>5. (Cardinality(S) = 0 \/ Cardinality(S) = 1) <=> ~(\E x, y \in S : x # y)
  BY <1>2, <1>3
<1> QED BY <1>1, <1>2, <1>3, <1>4, <1>5

LEMMA OneOf ==
    ASSUME NEW d, NEW id \in OpaqueIds, NEW S, S = {id}
    PROVE  (CHOOSE r \in {On(d, x) : x \in S} : TRUE) = On(d, id)
<1>1. {On(d, x) : x \in S} = {On(d, id)}
  OBVIOUS
<1> QED BY <1>1

LEMMA AttributesOne ==
    ASSUME NEW d \in Device, NEW id \in OpaqueIds, Of(d, "canonical") = {id}
    PROVE  AttributesOf(d) = On(d, id)
<1>1. On(d, id).kind = "canonical" /\ On(d, id) \in Record
  BY DEF Of, Device, Opaque, On
<1>2. Cardinality(Of(d, "canonical")) = 1
  BY CardinalityOne
<1>3. AttributesOf(d) = [(CHOOSE r \in {On(d, x) : x \in Of(d, "canonical")} : TRUE)
                             EXCEPT !.kind = "canonical"]
  BY <1>2 DEF AttributesOf
<1>4. AttributesOf(d) = [On(d, id) EXCEPT !.kind = "canonical"]
  BY <1>3, OneOf
<1> QED BY <1>1, <1>4 DEF Record

LEMMA AttributesLegacy ==
    ASSUME NEW d \in Device, NEW id \in OpaqueIds, Of(d, "canonical") = {}, Of(d, "legacy") = {id}
    PROVE  AttributesOf(d) = [On(d, id) EXCEPT !.kind = "canonical"]
<1>2. Cardinality(Of(d, "legacy")) = 1
  BY CardinalityOne DEF Of
<1>3. AttributesOf(d) = [(CHOOSE r \in {On(d, x) : x \in Of(d, "legacy")} : TRUE)
                             EXCEPT !.kind = "canonical"]
  BY <1>2 DEF AttributesOf
<1> QED BY <1>3, OneOf

LEMMA AttributesMany ==
    ASSUME NEW d \in Device, NEW i \in Of(d, "canonical"), NEW j \in Of(d, "canonical"), i # j
    PROVE  AttributesOf(d) = Native(d)
<1>1. Cardinality(Of(d, "canonical")) # 1
  BY CardinalityOne DEF Of
<1> QED BY <1>1 DEF AttributesOf

LEMMA AttributesNone ==
    ASSUME NEW d \in Device, Of(d, "canonical") = {}, ~\E id \in OpaqueIds : Of(d, "legacy") = {id}
    PROVE  AttributesOf(d) = Native(d)
<1>1. Cardinality(Of(d, "legacy")) # 1
  BY CardinalityOne DEF Of
<1> QED BY <1>1 DEF AttributesOf

LEMMA AttributesType ==
    ASSUME NEW d \in Device
    PROVE  AttributesOf(d) \in Record /\ Native(d) \in Record
<1>1. Native(d) \in Record
  BY RecordFacts DEF Native, Device
<1>2. CASE \E id \in OpaqueIds : Of(d, "canonical") = {id}
  BY <1>1, <1>2, AttributesOne DEF Of, Device, Opaque, On
<1>3. CASE \E i, j \in Of(d, "canonical") : i # j
  BY <1>1, <1>3, AttributesMany
<1>4. CASE Of(d, "canonical") = {} /\ \E id \in OpaqueIds : Of(d, "legacy") = {id}
  <2>1. PICK id \in OpaqueIds : Of(d, "legacy") = {id}
    BY <1>4
  <2>2. On(d, id) \in Record
    BY <2>1 DEF Of, Device, Opaque, On
  <2>3. [On(d, id) EXCEPT !.kind = "canonical"] \in Record
    BY <2>2 DEF Record
  <2> QED BY <1>1, <1>4, <2>1, <2>3, AttributesLegacy
<1>5. CASE Of(d, "canonical") = {} /\ ~\E id \in OpaqueIds : Of(d, "legacy") = {id}
  BY <1>1, <1>5, AttributesNone
<1>6. Of(d, "canonical") \subseteq OpaqueIds
  BY DEF Of
<1> QED BY <1>2, <1>3, <1>4, <1>5, <1>6

(* Devices whose companions are the same.                                  *)
SameCompanions(d, e) ==
    /\ e.seq = d.seq
    /\ \A id \in OpaqueIds :
        \/ On(e, id) = On(d, id)
        \/ /\ On(e, id) # NoObject => On(e, id).kind = "stored" \/ On(e, id).target # e.seq
           /\ On(d, id) # NoObject => On(d, id).kind = "stored" \/ On(d, id).target # d.seq

LEMMA AttributesSame ==
    ASSUME NEW d \in Device, NEW e \in Device, SameCompanions(d, e)
    PROVE  /\ Of(e, "canonical") = Of(d, "canonical") /\ Of(e, "legacy") = Of(d, "legacy")
           /\ \A id \in Of(d, "canonical") \cup Of(d, "legacy") : On(e, id) = On(d, id)
           /\ AttributesOf(e) = AttributesOf(d) /\ Native(e) = Native(d)
<1>1. Of(e, "canonical") = Of(d, "canonical") /\ Of(e, "legacy") = Of(d, "legacy")
  BY DEF SameCompanions, Of
<1>2. \A id \in Of(d, "canonical") \cup Of(d, "legacy") : On(e, id) = On(d, id)
  BY DEF SameCompanions, Of
<1>3. Native(e) = Native(d)
  BY DEF Native, SameCompanions
<1>4. Of(d, "canonical") \subseteq OpaqueIds /\ Of(d, "legacy") \subseteq OpaqueIds
  BY DEF Of
<1>5. CASE \E id \in OpaqueIds : Of(d, "canonical") = {id}
  BY <1>1, <1>2, <1>3, <1>5, AttributesOne
<1>6. CASE \E i, j \in Of(d, "canonical") : i # j
  BY <1>1, <1>2, <1>3, <1>6, AttributesMany
<1>7. CASE Of(d, "canonical") = {} /\ \E id \in OpaqueIds : Of(d, "legacy") = {id}
  <2>1. PICK id \in OpaqueIds : Of(d, "legacy") = {id}
    BY <1>7
  <2>2. On(e, id) = On(d, id)
    BY <1>2, <2>1
  <2> QED BY <1>1, <1>2, <1>3, <1>7, <2>1, <2>2, AttributesLegacy
<1>8. CASE Of(d, "canonical") = {} /\ ~\E id \in OpaqueIds : Of(d, "legacy") = {id}
  BY <1>1, <1>2, <1>3, <1>8, AttributesNone
<1> QED BY <1>4, <1>5, <1>6, <1>7, <1>8

-----------------------------------------------------------------------------
(* Commands, and the caches after them.                                    *)

OnlyAt(d, e, id) ==
    /\ e \in Device /\ e.live = d.live /\ e.seq = d.seq /\ e.replaces = d.replaces
    /\ \A j \in OpaqueIds : j # id => e.opaque[j] = d.opaque[j] /\ On(e, j) = On(d, j)

PutIn(d, id, r) == [d EXCEPT !.opaque[id] = Entry(@.seq + 1, r)]
DeletedIn(d, id) == [d EXCEPT !.opaque[id].record = NoObject]

LEMMA PutFacts ==
    ASSUME NEW d \in Device, NEW id \in OpaqueIds, NEW r \in Record
    PROVE  /\ OnlyAt(d, PutIn(d, id, r), id)
           /\ PutIn(d, id, r).opaque[id] = Entry(d.opaque[id].seq + 1, r)
           /\ On(PutIn(d, id, r), id) = r
<1>1. d.opaque[id].seq + 1 \in Nat
  BY DEF Device, Opaque
<1>2. Entry(d.opaque[id].seq + 1, r) \in [seq : Nat, record : Record \cup {NoObject}]
  BY <1>1 DEF Entry
<1> DEFINE f == [d.opaque EXCEPT ![id] = Entry(d.opaque[id].seq + 1, r)]
<1>3. f \in Opaque /\ f[id] = Entry(d.opaque[id].seq + 1, r)
        /\ \A j \in OpaqueIds : j # id => f[j] = d.opaque[j]
  BY <1>2 DEF Device, Opaque
<1>4. PutIn(d, id, r) = [d EXCEPT !.opaque = f]
  BY DEF PutIn, Device, Opaque
<1>5. [d EXCEPT !.opaque = f] \in Device /\ [d EXCEPT !.opaque = f].opaque = f
        /\ [d EXCEPT !.opaque = f].live = d.live /\ [d EXCEPT !.opaque = f].seq = d.seq
        /\ [d EXCEPT !.opaque = f].replaces = d.replaces
  <2> HIDE DEF f
  <2> QED BY <1>3 DEF Device
<1> QED BY <1>3, <1>4, <1>5 DEF OnlyAt, On, Entry

LEMMA DeletedFacts ==
    ASSUME NEW d \in Device, NEW id \in OpaqueIds
    PROVE  OnlyAt(d, DeletedIn(d, id), id) /\ On(DeletedIn(d, id), id) = NoObject
<1> DEFINE f == [d.opaque EXCEPT ![id].record = NoObject]
<1>3. f \in Opaque /\ f[id].record = NoObject
        /\ \A j \in OpaqueIds : j # id => f[j] = d.opaque[j]
  BY DEF Device, Opaque
<1>4. DeletedIn(d, id) = [d EXCEPT !.opaque = f]
  BY DEF DeletedIn, Device, Opaque
<1>5. [d EXCEPT !.opaque = f] \in Device /\ [d EXCEPT !.opaque = f].opaque = f
        /\ [d EXCEPT !.opaque = f].live = d.live /\ [d EXCEPT !.opaque = f].seq = d.seq
        /\ [d EXCEPT !.opaque = f].replaces = d.replaces
  <2> HIDE DEF f
  <2> QED BY <1>3 DEF Device
<1> QED BY <1>3, <1>4, <1>5 DEF OnlyAt, On

LEMMA DeviceKept ==
    ASSUME NEW d \in Device, NEW e, NEW id \in OpaqueIds, DeviceOK(d), OnlyAt(d, e, id),
           On(e, id) # NoObject =>
               /\ On(e, id).target \in 1..e.seq
               /\ On(e, id).kind = "stored" => On(e, id) = Stored(On(e, id).target)
               /\ On(e, id).kind = "legacy" => ~On(e, id).public
    PROVE  DeviceOK(e)
  BY DEF DeviceOK, OnlyAt

LEMMA ForgetFacts ==
    ASSUME NEW h \in Cache, NEW id \in OpaqueIds, NEW g, g = forget_cached_object(h, id)
    PROVE  /\ g \in Cache /\ g.key = h.key /\ g.known = h.known
           /\ g.cached[id] = Entry(0, NoObject)
           /\ \A j \in OpaqueIds : j # id => g.cached[j] = h.cached[j]
           /\ g.links = {l \in h.links : l.id # id}
           /\ g.writes = {w \in h.writes : w.id # id}
<1> DEFINE f == [h.cached EXCEPT ![id] = Entry(0, NoObject)]
           L == {l \in h.links : l.id # id}
           W == {w \in h.writes : w.id # id}
<1>1. f \in Opaque /\ f[id] = Entry(0, NoObject) /\ \A j \in OpaqueIds : j # id => f[j] = h.cached[j]
  BY DEF Cache, Opaque, Entry
<1>2. L \subseteq [id : OpaqueIds, seq : Nat] /\ W \subseteq [of : Record, id : OpaqueIds]
  BY DEF Cache
<1>3. g = [h EXCEPT !.cached = f, !.links = L, !.writes = W]
  BY DEF forget_cached_object, Cache
<1> HIDE DEF f, L, W
<1>4. g.cached = f /\ g.links = L /\ g.writes = W /\ g.key = h.key /\ g.known = h.known /\ g \in Cache
  BY <1>1, <1>2, <1>3 DEF Cache
<1> QED BY <1>1, <1>4 DEF f, L, W

LEMMA ForgetKeeps ==
    ASSUME NEW d \in Device, NEW e, NEW h \in Cache, NEW id \in OpaqueIds, NEW x,
           OnlyAt(d, e, id), StoreOK(d, h, x), id \notin Of(d, "legacy"), id \notin Of(e, "legacy")
    PROVE  StoreOK(e, forget_cached_object(h, id), x)
<1> DEFINE g == forget_cached_object(h, id)
<1>1. /\ g \in Cache /\ g.key = h.key /\ g.known = h.known
      /\ g.cached[id] = Entry(0, NoObject)
      /\ \A j \in OpaqueIds : j # id => g.cached[j] = h.cached[j]
      /\ g.links = {l \in h.links : l.id # id}
      /\ g.writes = {w \in h.writes : w.id # id}
  BY ForgetFacts
<1> HIDE DEF g
<1>2. /\ e.live = d.live /\ e.seq = d.seq /\ e.replaces = d.replaces
      /\ \A j \in OpaqueIds : j # id => e.opaque[j] = d.opaque[j] /\ On(e, j) = On(d, j)
  BY DEF OnlyAt
<1>3. CachedOK(e, g, x)
  <2>1. SUFFICES ASSUME NEW j \in OpaqueIds, g.cached[j].record # NoObject
                 PROVE  /\ On(e, j) # NoObject
                        /\ \/ g.cached[j] = e.opaque[j]
                           \/ /\ g.cached[j].seq < e.opaque[j].seq
                              /\ e.replaces /\ "change" \in x
                              /\ Alike(g.cached[j].record, On(e, j))
    BY DEF CachedOK
  <2>2. j # id
    BY <1>1, <2>1 DEF Entry
  <2>3. g.cached[j] = h.cached[j] /\ On(e, j) = On(d, j) /\ e.opaque[j] = d.opaque[j]
    BY <1>1, <1>2, <2>2
  <2> QED BY <2>1, <2>3, <1>2 DEF StoreOK, CachedOK
<1>4. WritesOK(e, g)
  <2>1. \A w \in g.writes : w \in h.writes /\ w.id # id /\ w.id \in OpaqueIds
    BY <1>1 DEF Cache
  <2> QED BY <1>2, <2>1 DEF StoreOK, WritesOK
<1>5. KeyOK(e, g)
  <2>1. \A l \in g.links : l \in h.links /\ l.id # id /\ l.id \in OpaqueIds
    BY <1>1 DEF Cache
  <2>2. \A j \in Of(e, "legacy") : j \in Of(d, "legacy") /\ j # id /\ j \in OpaqueIds
    BY <1>2 DEF Of
  <2>3. KeyOK(d, h)
    BY DEF StoreOK
  <2>4. g.key # 0 => e.live /\ g.key = e.seq
    BY <1>1, <1>2, <2>3 DEF KeyOK
  <2>5. g.key = 0 => g.links = {} /\ g.known = Entry(0, NoObject)
    BY <1>1, <1>2, <2>3 DEF KeyOK
  <2>6. \A l \in g.links :
          /\ On(e, l.id) # NoObject /\ On(e, l.id).target = e.seq /\ On(e, l.id).kind # "stored"
          /\ l.seq <= e.opaque[l.id].seq
    BY <1>2, <2>1, <2>3 DEF KeyOK
  <2>7. g.known.seq # 0 =>
          \A j \in Of(e, "legacy") :
            [id |-> j, seq |-> e.opaque[j].seq] \in g.links /\ g.cached[j] = e.opaque[j]
    BY <1>1, <1>2, <2>2, <2>3 DEF KeyOK
  <2> QED BY <1>1, <1>2, <2>3, <2>4, <2>5, <2>6, <2>7 DEF KeyOK
<1> QED BY <1>3, <1>4, <1>5 DEF StoreOK, g

LEMMA WrittenFacts ==
    ASSUME NEW h \in Cache, NEW id \in OpaqueIds, NEW r \in Record, NEW g, g = Written(h, r, id)
    PROVE  /\ g \in Cache /\ g.key = h.key /\ g.known = h.known /\ g.links = h.links
           /\ g.cached = h.cached
           /\ g.writes = {w \in h.writes : w.of # r} \cup {[of |-> r, id |-> id]}
  BY DEF Written, Cache

LEMMA WrittenKeeps ==
    ASSUME NEW d \in Device, NEW h \in Cache, NEW id \in OpaqueIds, NEW r \in Record,
           NEW x, StoreOK(d, h, x), On(d, id) = r
    PROVE  StoreOK(d, Written(h, r, id), x)
<1> DEFINE g == Written(h, r, id)
<1>1. /\ g.key = h.key /\ g.known = h.known /\ g.links = h.links /\ g.cached = h.cached
      /\ g.writes = {w \in h.writes : w.of # r} \cup {[of |-> r, id |-> id]}
  BY WrittenFacts
<1> HIDE DEF g
<1>2. CachedOK(d, g, x) /\ KeyOK(d, g)
  BY <1>1 DEF StoreOK, CachedOK, KeyOK
<1>3. WritesOK(d, g)
  BY <1>1, RecordFacts DEF StoreOK, WritesOK
<1> QED BY <1>2, <1>3 DEF StoreOK, g

-----------------------------------------------------------------------------
(* Listings.                                                               *)

LEMMA ListedFacts ==
    ASSUME NEW h \in Cache, hsm \in Device, NEW ids \in SUBSET OpaqueIds, NEW x,
           StoreOK(hsm, h, x), NEW g, g = Listed(h, ids)
    PROVE  /\ g \in Cache /\ g.known = h.known /\ g.writes = h.writes
           /\ \A id \in OpaqueIds : g.cached[id] =
                  IF id \in ids /\ Present(id) THEN hsm.opaque[id] ELSE h.cached[id]
           /\ g.links = {l \in h.links : l.id \in ids /\ Present(l.id) => l.seq = hsm.opaque[l.id].seq}
           /\ g.key = IF hsm.live THEN hsm.seq ELSE h.key
<1> DEFINE f == [id \in OpaqueIds |->
                    IF id \in ids /\ Present(id) THEN listed_object_info(h, id) ELSE h.cached[id]]
           L == {l \in h.links : l.id \in ids /\ Present(l.id) => l.seq = hsm.opaque[l.id].seq}
           k == IF hsm.live THEN hsm.seq ELSE h.key
<1>1. \A id \in OpaqueIds : f[id] = IF id \in ids /\ Present(id) THEN hsm.opaque[id] ELSE h.cached[id]
  <2>1. SUFFICES ASSUME NEW id \in OpaqueIds, id \in ids, Present(id)
                 PROVE  listed_object_info(h, id) = hsm.opaque[id]
    OBVIOUS
  <2>2. hsm.opaque[id].seq \in Nat /\ h.cached[id].seq \in Nat
    BY DEF Device, Cache, Opaque
  <2> QED BY <2>2 DEF listed_object_info, StoreOK, CachedOK
<1>2. f \in Opaque
  <2>1. \A id \in OpaqueIds : f[id] \in [seq : Nat, record : Record \cup {NoObject}]
    BY <1>1 DEF Device, Cache, Opaque
  <2> QED BY <2>1 DEF Opaque
<1>3. L \subseteq [id : OpaqueIds, seq : Nat] /\ k \in Sequence
  BY DEF Cache, Device
<1>4. g = [h EXCEPT !.cached = f, !.links = L, !.key = k]
  BY DEF Listed, Cache
<1> HIDE DEF f, L, k
<1>5. g.cached = f /\ g.links = L /\ g.writes = h.writes /\ g.key = k /\ g.known = h.known /\ g \in Cache
  BY <1>2, <1>3, <1>4 DEF Cache
<1> QED BY <1>1, <1>5 DEF L, k

LEMMA ListedKeeps ==
    ASSUME NEW h \in Cache, hsm \in Device, NEW ids \in SUBSET OpaqueIds, NEW x,
           StoreOK(hsm, h, x)
    PROVE  StoreOK(hsm, Listed(h, ids), x)
<1> DEFINE g == Listed(h, ids)
<1>1. /\ g \in Cache /\ g.known = h.known /\ g.writes = h.writes
      /\ \A id \in OpaqueIds : g.cached[id] =
             IF id \in ids /\ Present(id) THEN hsm.opaque[id] ELSE h.cached[id]
      /\ g.links = {l \in h.links : l.id \in ids /\ Present(l.id) => l.seq = hsm.opaque[l.id].seq}
      /\ g.key = IF hsm.live THEN hsm.seq ELSE h.key
  BY ListedFacts
<1> HIDE DEF g
<1>2. \A id \in OpaqueIds : Present(id) <=> On(hsm, id) # NoObject
  BY DEF Present, On
<1>3. CachedOK(hsm, g, x) /\ WritesOK(hsm, g)
  BY <1>1, <1>2 DEF StoreOK, CachedOK, WritesOK
<1>4. KeyOK(hsm, h)
  BY DEF StoreOK
<1>5. g.key # 0 => hsm.live /\ g.key = hsm.seq
  BY <1>1, <1>4 DEF KeyOK
<1>6. g.key = 0 => g.links = {} /\ g.known = Entry(0, NoObject)
  BY <1>1, <1>4 DEF KeyOK
<1>7. \A l \in g.links : l \in h.links
  BY <1>1
<1>8. ASSUME g.known.seq # 0, NEW id \in Of(hsm, "legacy")
      PROVE  [id |-> id, seq |-> hsm.opaque[id].seq] \in g.links /\ g.cached[id] = hsm.opaque[id]
  <2>1. [id |-> id, seq |-> hsm.opaque[id].seq] \in h.links /\ h.cached[id] = hsm.opaque[id]
    BY <1>1, <1>4, <1>8 DEF KeyOK
  <2>2. id \in OpaqueIds
    BY DEF Of
  <2> QED BY <1>1, <2>1, <2>2
<1>9. KeyOK(hsm, g)
  BY <1>1, <1>4, <1>5, <1>6, <1>7, <1>8 DEF KeyOK
<1> QED BY <1>3, <1>9 DEF StoreOK, g

(* A listing that failed forgets an object it had to read again.           *)
LEMMA ListingKeeps ==
    ASSUME NEW h \in Cache, hsm \in Device, NEW ids \in SUBSET OpaqueIds, NEW x,
           StoreOK(hsm, h, x), NEW at \in OpaqueIds, NEW g,
           g = [Listed(h, ids) EXCEPT !.cached[at] =
                   IF Present(at) /\ @.seq # hsm.opaque[at].seq THEN Entry(0, NoObject) ELSE @]
    PROVE  g \in Cache /\ StoreOK(hsm, g, x)
<1> DEFINE l == Listed(h, ids)
           f == [l.cached EXCEPT ![at] =
                    IF Present(at) /\ @.seq # hsm.opaque[at].seq THEN Entry(0, NoObject) ELSE @]
<1>1. l \in Cache /\ StoreOK(hsm, l, x)
  BY ListedFacts, ListedKeeps
<1> HIDE DEF l
<1>2. Entry(0, NoObject) \in [seq : Nat, record : Record \cup {NoObject}]
  BY DEF Entry
<1>3. /\ f \in Opaque
      /\ \A id \in OpaqueIds : f[id] = l.cached[id]
                               \/ (l.cached[id].seq # hsm.opaque[id].seq /\ f[id] = Entry(0, NoObject))
  BY <1>1, <1>2 DEF Cache, Opaque
<1>4. g = [l EXCEPT !.cached = f]
  BY <1>1 DEF Cache, l
<1> HIDE DEF f
<1>5. /\ g \in Cache /\ g.cached = f /\ g.known = l.known /\ g.writes = l.writes /\ g.links = l.links
      /\ g.key = l.key
  BY <1>1, <1>3, <1>4 DEF Cache
<1>6. CachedOK(hsm, g, x) /\ WritesOK(hsm, g)
  <2>1. \A id \in OpaqueIds : g.cached[id].record # NoObject => g.cached[id] = l.cached[id]
    <3>1. Entry(0, NoObject).record = NoObject
      BY DEF Entry
    <3> QED BY <1>3, <1>5, <3>1, Zenon
  <2>2. CachedOK(hsm, g, x)
    BY <1>1, <2>1 DEF StoreOK, CachedOK
  <2>3. WritesOK(hsm, g)
    BY <1>1, <1>5 DEF StoreOK, WritesOK
  <2> QED BY <2>2, <2>3
<1>7. KeyOK(hsm, g)
  <2>1. \A id \in Of(hsm, "legacy") : l.cached[id] = hsm.opaque[id] => g.cached[id] = hsm.opaque[id]
    BY <1>3, <1>5 DEF Of
  <2> QED BY <1>1, <1>5, <2>1 DEF StoreOK, KeyOK
<1> QED BY <1>5, <1>6, <1>7 DEF StoreOK

(* A complete listing.                                                     *)
LEMMA DiscoverFacts ==
    ASSUME NEW h \in Cache, hsm \in Device, DeviceOK(hsm), NEW x, StoreOK(hsm, h, x),
           NEW g, g = discover_objects(h)
    PROVE  /\ g \in Cache /\ g.known = h.known /\ StoreOK(hsm, g, {})
           /\ \A id \in OpaqueIds : Present(id) => g.cached[id] = hsm.opaque[id]
           /\ \A id \in OpaqueIds : ~Present(id) => g.cached[id] = h.cached[id]
           /\ LinkedIn(g) = IF hsm.live THEN Companion(hsm) ELSE {}
           /\ g.links = {[id |-> id, seq |-> hsm.opaque[id].seq] : id \in LinkedIn(g)}
           /\ hsm.live => g.key = hsm.seq
<1> DEFINE l == Listed(h, OpaqueIds)
           L == {[id |-> id, seq |-> l.cached[id].seq] : id \in LinkedIn(l)}
<1>1. /\ l \in Cache /\ l.known = h.known /\ l.writes = h.writes
      /\ \A id \in OpaqueIds : l.cached[id] = IF Present(id) THEN hsm.opaque[id] ELSE h.cached[id]
      /\ l.key = IF hsm.live THEN hsm.seq ELSE h.key
  BY ListedFacts
<1>2. StoreOK(hsm, l, x)
  BY ListedKeeps
<1> HIDE DEF l
<1>3. LinkedIn(l) \subseteq OpaqueIds /\ \A id \in LinkedIn(l) : Present(id)
  BY DEF LinkedIn
<1>4. LinkedIn(l) = IF hsm.live THEN Companion(hsm) ELSE {}
  <2>0. \A id \in OpaqueIds : Present(id) => l.cached[id].record = On(hsm, id) /\ On(hsm, id) \in Record
                                                /\ On(hsm, id) # NoObject
    BY <1>1 DEF On, Present, Device, Opaque
  <2>1. CASE hsm.live
    <3>1. \A id \in OpaqueIds : Present(id) =>
              (On(hsm, id).kind # "stored" <=> On(hsm, id).kind = "canonical" \/ On(hsm, id).kind = "legacy")
      BY <2>0 DEF Record
    <3>2. \A id \in LinkedIn(l) : id \in Companion(hsm)
      BY <1>1, <2>0, <2>1, <3>1 DEF LinkedIn, Companion, Of
    <3>3. \A id \in Companion(hsm) : id \in LinkedIn(l)
      BY <1>1, <2>0, <2>1, <3>1 DEF LinkedIn, Companion, Of, Present, On
    <3> QED BY <2>1, <3>2, <3>3
  <2>2. CASE ~hsm.live
    <3>1. l.key = 0
      BY <1>1, <2>2 DEF StoreOK, KeyOK
    <3>2. \A id \in LinkedIn(l) : FALSE
      BY <2>0, <3>1 DEF LinkedIn, DeviceOK
    <3> QED BY <2>2, <3>2
  <2> QED BY <2>1, <2>2 DEF Device
<1>5. \A id \in LinkedIn(l) : l.cached[id] = hsm.opaque[id] /\ hsm.opaque[id].seq \in Nat
  BY <1>1, <1>3 DEF Device, Opaque
<1>6. L = {[id |-> id, seq |-> hsm.opaque[id].seq] : id \in LinkedIn(l)}
        /\ L \subseteq [id : OpaqueIds, seq : Nat]
  BY <1>3, <1>5
<1>7. g = [l EXCEPT !.links = L]
  BY DEF discover_objects, l
<1> HIDE DEF L
<1>8. /\ g \in Cache /\ g.cached = l.cached /\ g.known = l.known /\ g.writes = l.writes /\ g.links = L
      /\ g.key = l.key
  BY <1>1, <1>6, <1>7 DEF Cache
<1>9. LinkedIn(g) = LinkedIn(l)
  BY <1>8 DEF LinkedIn
<1>10. CachedOK(hsm, g, {}) /\ WritesOK(hsm, g)
  BY <1>1, <1>2, <1>8 DEF StoreOK, CachedOK, WritesOK, Present, On
<1>11. KeyOK(hsm, g)
  <2>1. KeyOK(hsm, l)
    BY <1>2 DEF StoreOK
  <2>2. g.key = 0 => g.links = {} /\ g.known = Entry(0, NoObject)
    BY <2>1, <1>1, <1>4, <1>6, <1>8 DEF KeyOK, DeviceOK
  <2>3. \A k \in g.links : hsm.live /\ k.id \in Companion(hsm) /\ k.seq = hsm.opaque[k.id].seq
    BY <1>4, <1>6, <1>8
  <2>4. \A k \in g.links :
          /\ On(hsm, k.id) # NoObject /\ On(hsm, k.id).target = hsm.seq /\ On(hsm, k.id).kind # "stored"
          /\ k.seq <= hsm.opaque[k.id].seq
    BY <2>3 DEF Companion, Of, Device, Opaque
  <2>5. g.known.seq # 0 => hsm.live
    BY <2>1, <1>8 DEF KeyOK, Entry
  <2>6. g.known.seq # 0 =>
          \A id \in Of(hsm, "legacy") :
            [id |-> id, seq |-> hsm.opaque[id].seq] \in g.links /\ g.cached[id] = hsm.opaque[id]
    BY <2>5, <1>1, <1>4, <1>6, <1>8 DEF Companion, Of, Present, On
  <2> QED BY <2>1, <2>2, <2>4, <2>6, <1>8 DEF KeyOK
<1> QED BY <1>1, <1>4, <1>6, <1>8, <1>9, <1>10, <1>11 DEF StoreOK

LEMMA SelectedFacts ==
    ASSUME NEW g \in Cache, hsm \in Device, hsm.live, LinkedIn(g) = Companion(hsm),
           \A id \in Companion(hsm) : g.cached[id] = hsm.opaque[id]
    PROVE  /\ Selected(g) # NoObject =>
                  \E id \in Companion(hsm) : Selected(g) = On(hsm, id)
           /\ (IF Selected(g) = NoObject THEN Native(hsm)
               ELSE [Selected(g) EXCEPT !.kind = "canonical"]) = AttributesOf(hsm)
           /\ \A id \in OpaqueIds : Of(hsm, "canonical") = {id} => Selected(g) = On(hsm, id)
<1> DEFINE canonical == {id \in LinkedIn(g) : g.cached[id].record.kind = "canonical"}
           candidates == IF canonical # {} THEN canonical ELSE LinkedIn(g)
<1>1. canonical = Of(hsm, "canonical")
  <2>1. \A id \in Companion(hsm) : g.cached[id].record = On(hsm, id)
    BY DEF On
  <2> QED BY <2>1 DEF Companion, Of
<1>2. candidates = IF Of(hsm, "canonical") # {} THEN Of(hsm, "canonical") ELSE Of(hsm, "legacy")
  BY <1>1 DEF Companion
<1>3. candidates \subseteq Companion(hsm) /\ Companion(hsm) \subseteq OpaqueIds
  BY <1>2 DEF Companion, Of
<1>4. Selected(g) = IF Cardinality(candidates) = 1
                    THEN g.cached[CHOOSE id \in candidates : TRUE].record ELSE NoObject
  BY DEF Selected
<1> HIDE DEF candidates
<1>5. ASSUME NEW id \in OpaqueIds, candidates = {id} PROVE Selected(g) = On(hsm, id)
  <2>1. Cardinality(candidates) = 1 /\ (CHOOSE i \in candidates : TRUE) = id
    BY <1>5, CardinalityOne
  <2>2. g.cached[id].record = On(hsm, id)
    BY <1>3, <1>5 DEF On
  <2> QED BY <1>4, <2>1, <2>2
<1>6. ASSUME ~\E id \in OpaqueIds : candidates = {id} PROVE Selected(g) = NoObject
  <2>1. Cardinality(candidates) # 1
    BY <1>3, <1>6, CardinalityOne
  <2> QED BY <1>4, <2>1
<1>7. \A id \in Companion(hsm) : On(hsm, id) \in Record /\ On(hsm, id) # NoObject
  BY DEF Companion, Of, On, Device, Opaque
<1>8. CASE \E id \in OpaqueIds : Of(hsm, "canonical") = {id}
  <2>1. PICK id \in OpaqueIds : Of(hsm, "canonical") = {id}
    BY <1>8
  <2>2. candidates = {id}
    BY <1>2, <2>1
  <2>3. Selected(g) = On(hsm, id) /\ AttributesOf(hsm) = On(hsm, id)
    BY <1>5, <2>1, <2>2, AttributesOne
  <2>4. On(hsm, id).kind = "canonical" /\ id \in Companion(hsm)
    BY <2>1 DEF Of, Companion
  <2>5. [On(hsm, id) EXCEPT !.kind = "canonical"] = On(hsm, id)
    BY <1>7, <2>4 DEF Record
  <2> QED BY <1>7, <2>1, <2>3, <2>4, <2>5
<1>9. CASE \E i, j \in Of(hsm, "canonical") : i # j
  <2>1. Selected(g) = NoObject
    BY <1>2, <1>6, <1>9
  <2>2. AttributesOf(hsm) = Native(hsm)
    BY <1>9, AttributesMany
  <2> QED BY <1>9, <2>1, <2>2
<1>10. CASE Of(hsm, "canonical") = {} /\ \E id \in OpaqueIds : Of(hsm, "legacy") = {id}
  <2>1. PICK id \in OpaqueIds : Of(hsm, "legacy") = {id}
    BY <1>10
  <2>2. candidates = {id}
    BY <1>2, <1>10, <2>1
  <2>3. Selected(g) = On(hsm, id) /\ AttributesOf(hsm) = [On(hsm, id) EXCEPT !.kind = "canonical"]
    BY <1>5, <1>10, <2>1, <2>2, AttributesLegacy
  <2>4. id \in Companion(hsm)
    BY <2>1 DEF Companion
  <2> QED BY <1>7, <1>10, <2>3, <2>4
<1>11. CASE Of(hsm, "canonical") = {} /\ ~\E id \in OpaqueIds : Of(hsm, "legacy") = {id}
  <2>1. Selected(g) = NoObject
    BY <1>2, <1>6, <1>11
  <2>2. AttributesOf(hsm) = Native(hsm)
    BY <1>11, AttributesNone
  <2> QED BY <1>11, <2>1, <2>2
<1>12. Of(hsm, "canonical") \subseteq OpaqueIds
  BY DEF Of
<1> QED BY <1>8, <1>9, <1>10, <1>11, <1>12

LEMMA BackendFacts ==
    ASSUME NEW h \in Cache, hsm \in Device, DeviceOK(hsm), NEW x, StoreOK(hsm, h, x),
           NEW g, g = backend_token_objects(h)
    PROVE  g \in Cache /\ StoreOK(hsm, g, {}) /\ SyncedOK(hsm, g)
<1> DEFINE d == discover_objects(h)
           k == IF hsm.live THEN Entry(hsm.seq, Selected(d)) ELSE Entry(0, NoObject)
<1>1. /\ d \in Cache /\ StoreOK(hsm, d, {})
      /\ \A id \in OpaqueIds : Present(id) => d.cached[id] = hsm.opaque[id]
      /\ LinkedIn(d) = IF hsm.live THEN Companion(hsm) ELSE {}
      /\ d.links = {[id |-> id, seq |-> hsm.opaque[id].seq] : id \in LinkedIn(d)}
      /\ hsm.live => d.key = hsm.seq
  BY DiscoverFacts
<1>2. g = [d EXCEPT !.known = k]
  BY DEF backend_token_objects
<1> HIDE DEF d
<1>3. \A id \in Companion(hsm) : /\ id \in OpaqueIds /\ Present(id) /\ On(hsm, id) \in Record
                                 /\ On(hsm, id).target = hsm.seq /\ On(hsm, id).kind # "stored"
  BY DEF Companion, Of, Present, On, Device, Opaque
<1>4. hsm.live =>
        /\ Selected(d) # NoObject => \E id \in Companion(hsm) : Selected(d) = On(hsm, id)
        /\ (IF Selected(d) = NoObject THEN Native(hsm)
            ELSE [Selected(d) EXCEPT !.kind = "canonical"]) = AttributesOf(hsm)
        /\ \A id \in OpaqueIds : Of(hsm, "canonical") = {id} => Selected(d) = On(hsm, id)
  BY <1>1, <1>3, SelectedFacts
<1>5. k \in [seq : Sequence, record : Record \cup {NoObject}]
  BY <1>3, <1>4, RecordFacts DEF Entry, Device
<1>6. hsm.live => k.seq = hsm.seq /\ k.record = Selected(d)
  BY DEF Entry
<1>7. ~hsm.live => k = Entry(0, NoObject) /\ k.seq = 0 /\ k.record = NoObject
  BY DEF Entry
<1> HIDE DEF k
<1>8. /\ g \in Cache /\ g.cached = d.cached /\ g.known = k /\ g.writes = d.writes /\ g.links = d.links
      /\ g.key = d.key
  BY <1>1, <1>2, <1>5 DEF Cache
<1>9. CachedOK(hsm, g, {}) /\ WritesOK(hsm, g)
  BY <1>1, <1>8 DEF StoreOK, CachedOK, WritesOK
<1>10. KeyOK(hsm, g)
  <2>1. KeyOK(hsm, d)
    BY <1>1 DEF StoreOK
  <2>2. g.key = 0 => g.links = {} /\ g.known = Entry(0, NoObject)
    BY <1>1, <1>7, <1>8, <2>1 DEF KeyOK, DeviceOK, Device
  <2>3. g.known.seq \in {0, hsm.seq}
    BY <1>6, <1>7, <1>8 DEF Device
  <2>4. g.known.record # NoObject =>
          /\ g.known.record.target = g.known.seq /\ g.known.seq # 0
          /\ g.known.record.kind # "stored"
          /\ g.known.record.kind = "legacy" => ~g.known.record.public
    <3>1. SUFFICES ASSUME g.known.record # NoObject
                   PROVE  /\ g.known.record.target = g.known.seq /\ g.known.seq # 0
                          /\ g.known.record.kind # "stored"
                          /\ g.known.record.kind = "legacy" => ~g.known.record.public
      OBVIOUS
    <3>2. hsm.live /\ k.seq = hsm.seq /\ \E id \in Companion(hsm) : k.record = On(hsm, id)
      BY <1>4, <1>6, <1>7, <1>8, <3>1 DEF Device
    <3>3. PICK id \in Companion(hsm) : k.record = On(hsm, id)
      BY <3>2
    <3>4. On(hsm, id) # NoObject
      BY <1>3, RecordFacts
    <3> QED BY <1>3, <1>8, <3>2, <3>3, <3>4 DEF DeviceOK
  <2>5. \A id \in Of(hsm, "legacy") : g.known.seq # 0 =>
            [id |-> id, seq |-> hsm.opaque[id].seq] \in g.links /\ g.cached[id] = hsm.opaque[id]
    BY <1>1, <1>3, <1>7, <1>8 DEF Companion, Device
  <2> QED BY <1>8, <2>1, <2>2, <2>3, <2>4, <2>5 DEF KeyOK
<1>11. SyncedOK(hsm, g)
  <2>1. \A id \in OpaqueIds : On(hsm, id) # NoObject => g.cached[id] = hsm.opaque[id]
    BY <1>1, <1>8 DEF Present, On
  <2>2. hsm.live => CurrentOf(g) = AttributesOf(hsm)
    BY <1>4, <1>6, <1>8 DEF CurrentOf, Native
  <2>3. hsm.live => \A id \in Of(hsm, "canonical") :
                        Of(hsm, "canonical") = {id} => g.known.record = On(hsm, id)
    BY <1>4, <1>6, <1>8 DEF Of
  <2> QED BY <1>1, <1>6, <1>8, <2>1, <2>2, <2>3 DEF SyncedOK, Companion
<1> QED BY <1>8, <1>9, <1>10, <1>11 DEF StoreOK

-----------------------------------------------------------------------------
(* The caches when the key goes, comes, or the connection changes.         *)

LEMMA StaleKeeps ==
    ASSUME NEW d, NEW h, NEW x, NEW y, StoreOK(d, h, x), "change" \in x => "change" \in y
    PROVE  StoreOK(d, h, y)
  BY DEF StoreOK, CachedOK

LEMMA EmptyKeeps ==
    ASSUME NEW d \in Device, NEW x
    PROVE  EmptyCache \in Cache /\ StoreOK(d, EmptyCache, x)
<1>1. EmptyCache \in Cache
  BY RecordFacts DEF EmptyCache, Cache, Opaque, Entry
<1>2. \A id \in OpaqueIds : EmptyCache.cached[id].record = NoObject
  BY DEF EmptyCache, Entry
<1>3. EmptyCache.key = 0 /\ EmptyCache.links = {} /\ EmptyCache.writes = {}
        /\ EmptyCache.known = Entry(0, NoObject) /\ EmptyCache.known.seq = 0
        /\ EmptyCache.known.record = NoObject
  BY DEF EmptyCache, Entry
<1> HIDE DEF EmptyCache
<1> QED BY <1>1, <1>2, <1>3 DEF StoreOK, CachedOK, WritesOK, KeyOK

LEMMA ForgetKeyFacts ==
    ASSUME NEW h \in Cache, NEW g, g = forget_key(h)
    PROVE  /\ g \in Cache /\ g.cached = h.cached /\ g.writes = h.writes /\ g.key = 0 /\ g.links = {}
           /\ g.known = Entry(0, NoObject) /\ g.known.seq = 0 /\ g.known.record = NoObject
<1>1. Entry(0, NoObject) \in [seq : Sequence, record : Record \cup {NoObject}]
        /\ Entry(0, NoObject).seq = 0 /\ Entry(0, NoObject).record = NoObject
  BY RecordFacts DEF Entry
<1> QED BY <1>1, RecordFacts DEF forget_key, Cache

LEMMA ForgetKeyKeeps ==
    ASSUME NEW d \in Device, NEW h \in Cache, NEW x, StoreOK(d, h, x),
           NEW e, e.opaque = d.opaque, e.replaces = d.replaces
    PROVE  StoreOK(e, forget_key(h), x)
<1> DEFINE g == forget_key(h)
<1>1. /\ g.cached = h.cached /\ g.writes = h.writes /\ g.key = 0 /\ g.links = {}
      /\ g.known = Entry(0, NoObject) /\ g.known.seq = 0 /\ g.known.record = NoObject
  BY ForgetKeyFacts
<1> HIDE DEF g
<1>2. CachedOK(e, g, x) /\ WritesOK(e, g)
  BY <1>1 DEF StoreOK, CachedOK, WritesOK, On
<1>3. KeyOK(e, g)
  BY <1>1 DEF KeyOK
<1> QED BY <1>2, <1>3 DEF StoreOK, g

LEMMA ClearedKeeps ==
    ASSUME NEW d \in Device, NEW h \in Cache, NEW x
    PROVE  Cleared(h) \in Cache /\ (StoreOK(d, h, x) => StoreOK(d, Cleared(h), x))
<1> DEFINE k == forget_key(h)
           f == [id \in OpaqueIds |-> IF id \in {l.id : l \in h.links} THEN Entry(0, NoObject)
                                      ELSE k.cached[id]]
           g == Cleared(h)
<1>1. /\ k \in Cache /\ k.key = 0 /\ k.links = {} /\ k.cached = h.cached
      /\ k.known = Entry(0, NoObject) /\ k.known.seq = 0 /\ k.known.record = NoObject
  BY ForgetKeyFacts
<1>2. StoreOK(d, h, x) => StoreOK(d, k, x)
  BY ForgetKeyKeeps
<1>3. g = [k EXCEPT !.cached = f]
  BY DEF Cleared
<1> HIDE DEF k, g
<1>4. Entry(0, NoObject) \in [seq : Nat, record : Record \cup {NoObject}] /\ Entry(0, NoObject).record = NoObject
  BY DEF Entry
<1>5. f \in Opaque /\ \A id \in OpaqueIds : f[id] = k.cached[id] \/ f[id] = Entry(0, NoObject)
  BY <1>1, <1>4 DEF Cache, Opaque
<1> HIDE DEF f
<1>6. /\ g \in Cache /\ g.cached = f /\ g.writes = k.writes /\ g.key = 0 /\ g.links = {}
      /\ g.known = k.known
  BY <1>1, <1>3, <1>5 DEF Cache
<1>7. ASSUME StoreOK(d, k, x) PROVE StoreOK(d, g, x)
  <2>1. \A id \in OpaqueIds : g.cached[id].record # NoObject => g.cached[id] = k.cached[id]
    BY <1>4, <1>5, <1>6, Zenon
  <2>2. CachedOK(d, g, x)
    BY <1>7, <2>1 DEF StoreOK, CachedOK
  <2>3. WritesOK(d, g)
    BY <1>6, <1>7 DEF StoreOK, WritesOK
  <2>4. KeyOK(d, g)
    BY <1>1, <1>6 DEF KeyOK
  <2> QED BY <2>2, <2>3, <2>4 DEF StoreOK
<1> QED BY <1>2, <1>6, <1>7 DEF g

LEMMA SynchronizedKeeps ==
    ASSUME hsm \in Device, moved \in BOOLEAN, NEW h \in Cache, NEW x,
           ~moved => StoreOK(hsm, h, x)
    PROVE  Synchronized(h) \in Cache /\ StoreOK(hsm, Synchronized(h), IF moved THEN {} ELSE x)
<1>1. CASE moved
  BY <1>1, EmptyKeeps DEF Synchronized
<1>2. CASE ~moved
  BY <1>2 DEF Synchronized
<1> QED BY <1>1, <1>2

GeneratedIn(d) == [d EXCEPT !.live = TRUE, !.seq = @ + 1]

LEMMA GeneratedKeeps ==
    ASSUME NEW d \in Device, ~d.live, d.seq < MaxSequence, DeviceOK(d), NEW e, e = GeneratedIn(d)
    PROVE  /\ e \in Device /\ DeviceOK(e) /\ e.live /\ e.seq = d.seq + 1 /\ e.opaque = d.opaque
           /\ Of(e, "canonical") = {} /\ Of(e, "legacy") = {} /\ AttributesOf(e) = Native(e)
           /\ \A h \in Cache : \A x : StoreOK(d, h, x) => StoreOK(e, h, x)
<1>1. d.seq + 1 \in Sequence /\ d.seq \in Nat
  BY RecordFacts DEF Sequence, Device
<1>2. e \in Device /\ e.live /\ e.seq = d.seq + 1 /\ e.opaque = d.opaque /\ e.replaces = d.replaces
  BY <1>1 DEF GeneratedIn, Device
<1>3. \A id \in OpaqueIds : On(e, id) = On(d, id)
  BY <1>2 DEF On
<1>4. DeviceOK(e)
  BY <1>1, <1>2, <1>3 DEF DeviceOK
<1>5. Of(e, "canonical") = {} /\ Of(e, "legacy") = {}
  BY <1>1, <1>2, <1>3 DEF DeviceOK, Of
<1>6. AttributesOf(e) = Native(e)
  BY <1>2, <1>5, AttributesNone
<1>7. ASSUME NEW h \in Cache, NEW x, StoreOK(d, h, x) PROVE StoreOK(e, h, x)
  <2>1. h.key = 0 /\ h.links = {} /\ h.known = Entry(0, NoObject)
    BY <1>7 DEF StoreOK, KeyOK
  <2>2. h.known.seq = 0 /\ h.known.record = NoObject
    BY <2>1 DEF Entry
  <2>3. KeyOK(e, h)
    BY <2>1, <2>2 DEF KeyOK
  <2>4. CachedOK(e, h, x)
    BY <1>2, <1>3, <1>7 DEF StoreOK, CachedOK
  <2>5. WritesOK(e, h)
    BY <1>2, <1>7 DEF StoreOK, WritesOK, On
  <2> QED BY <2>3, <2>4, <2>5 DEF StoreOK
<1> QED BY <1>2, <1>4, <1>5, <1>6, <1>7

(* Another client changes a label.                                         *)
LEMMA ReplacedKeeps ==
    ASSUME NEW d \in Device, NEW h \in Cache, NEW x, StoreOK(d, h, x), d.replaces,
           NEW y, "change" \in y,
           NEW id \in Of(d, "canonical"), NEW r \in Record, Alike(On(d, id), r)
    PROVE  StoreOK(PutIn(d, id, r), h, y)
<1> DEFINE e == PutIn(d, id, r)
<1>0. id \in OpaqueIds /\ On(d, id) # NoObject /\ On(d, id).kind = "canonical" /\ On(d, id).target = d.seq
  BY DEF Of
<1>1. OnlyAt(d, e, id) /\ e.opaque[id] = Entry(d.opaque[id].seq + 1, r) /\ On(e, id) = r
  BY <1>0, PutFacts
<1> HIDE DEF e
<1>2. /\ e \in Device /\ e.live = d.live /\ e.seq = d.seq /\ e.replaces = d.replaces
      /\ \A j \in OpaqueIds : j # id => e.opaque[j] = d.opaque[j] /\ On(e, j) = On(d, j)
  BY <1>1 DEF OnlyAt
<1>3. r # NoObject /\ r.kind = "canonical" /\ r.target = d.seq /\ e.opaque[id].seq = d.opaque[id].seq + 1
        /\ d.opaque[id].seq \in Nat /\ h.cached[id].seq \in Nat
  BY <1>0, <1>1, RecordFacts DEF Alike, Entry, Device, Cache, Opaque
<1>4. CachedOK(e, h, y)
  <2>1. SUFFICES ASSUME NEW j \in OpaqueIds, h.cached[j].record # NoObject
                 PROVE  /\ On(e, j) # NoObject
                        /\ \/ h.cached[j] = e.opaque[j]
                           \/ /\ h.cached[j].seq < e.opaque[j].seq
                              /\ e.replaces /\ "change" \in y
                              /\ Alike(h.cached[j].record, On(e, j))
    BY DEF CachedOK
  <2>2. /\ On(d, j) # NoObject
        /\ \/ h.cached[j] = d.opaque[j]
           \/ h.cached[j].seq < d.opaque[j].seq /\ Alike(h.cached[j].record, On(d, j))
    BY <2>1 DEF StoreOK, CachedOK
  <2>3. CASE j # id
    BY <1>2, <2>2, <2>3
  <2>4. CASE j = id
    <3>1. h.cached[id].seq <= d.opaque[id].seq
      BY <1>3, <2>2, <2>4
    <3>2. Alike(h.cached[id].record, r)
      BY <1>0, <2>2, <2>4 DEF Alike, On
    <3> QED BY <1>1, <1>2, <1>3, <2>4, <3>1, <3>2
  <2> QED BY <2>3, <2>4
<1>5. WritesOK(e, h)
  <2>1. SUFFICES ASSUME NEW w \in h.writes
                 PROVE  /\ On(e, w.id) # NoObject
                        /\ On(e, w.id) = w.of \/ (e.replaces /\ Alike(w.of, On(e, w.id)))
    BY DEF WritesOK
  <2>2. w.id \in OpaqueIds /\ On(d, w.id) # NoObject /\ (On(d, w.id) = w.of \/ Alike(w.of, On(d, w.id)))
    BY DEF StoreOK, WritesOK, Cache
  <2>3. CASE w.id # id
    BY <1>2, <2>2, <2>3 DEF StoreOK, WritesOK
  <2>4. CASE w.id = id
    BY <1>1, <1>2, <1>3, <2>2, <2>4 DEF Alike
  <2> QED BY <2>3, <2>4
<1>6. KeyOK(e, h)
  <2>1. \A l \in h.links : l.id \in OpaqueIds /\ l.seq \in Nat
    BY DEF Cache
  <2>2. KeyOK(d, h)
    BY DEF StoreOK
  <2>3. \A l \in h.links :
          /\ On(e, l.id) # NoObject /\ On(e, l.id).target = e.seq /\ On(e, l.id).kind # "stored"
          /\ l.seq <= e.opaque[l.id].seq
    BY <1>1, <1>2, <1>3, <2>1, <2>2 DEF KeyOK
  <2>4. \A j \in Of(e, "legacy") : j \in Of(d, "legacy") /\ j # id /\ j \in OpaqueIds
    BY <1>1, <1>2, <1>3 DEF Of
  <2>5. h.known.seq # 0 =>
          \A j \in Of(e, "legacy") :
            [id |-> j, seq |-> e.opaque[j].seq] \in h.links /\ h.cached[j] = e.opaque[j]
    BY <1>2, <2>2, <2>4 DEF KeyOK
  <2> QED BY <1>2, <2>2, <2>3, <2>5 DEF KeyOK
<1> QED BY <1>4, <1>5, <1>6 DEF StoreOK, e

-----------------------------------------------------------------------------
(* What a command leaves of the attributes and of the public key.          *)

Call ==
    [op : {"none", "set", "project", "unproject", "create", "discard",
           "destroy", "generate", "login", "refresh"},
     pc : {"none", "update", "put", "delete", "erase", "list", "unlink", "standalone",
           "native", "undo", "restore", "name", "refresh"},
     new : Record \cup {NoObject}, todo : SUBSET Record, ids : SUBSET OpaqueIds,
     link : [id : OpaqueIds, record : Record] \cup {NoObject},
     existed : BOOLEAN, failed : BOOLEAN]

LEMMA Types ==
    /\ HsmObjectsTypeOK <=>
        /\ hsm \in Device /\ host \in Cache /\ run \in Call
        /\ user \in BOOLEAN /\ moved \in BOOLEAN /\ fresh \in BOOLEAN
        /\ doubts \subseteq {"change", "hidden"}
        /\ accepted \subseteq Record \cup {NoObject} /\ published \subseteq Sequence
    /\ HsmObjectsTypeOK' <=>
        /\ hsm' \in Device /\ host' \in Cache /\ run' \in Call
        /\ user' \in BOOLEAN /\ moved' \in BOOLEAN /\ fresh' \in BOOLEAN
        /\ doubts' \subseteq {"change", "hidden"}
        /\ accepted' \subseteq Record \cup {NoObject} /\ published' \subseteq Sequence
<1>1. {user, moved, fresh} \subseteq BOOLEAN <=>
          user \in BOOLEAN /\ moved \in BOOLEAN /\ fresh \in BOOLEAN
  BY Zenon
<1>2. {user', moved', fresh'} \subseteq BOOLEAN <=>
          user' \in BOOLEAN /\ moved' \in BOOLEAN /\ fresh' \in BOOLEAN
  BY Zenon
<1> QED BY <1>1, <1>2, Zenon DEF HsmObjectsTypeOK, Device, Cache, Call

LEMMA Unfold ==
    /\ Attributes = AttributesOf(hsm) /\ Attributes' = AttributesOf(hsm')
    /\ \A kind : Companions(kind) = Of(hsm, kind) /\ Companions(kind)' = Of(hsm', kind)
    /\ \A id : Present(id) <=> On(hsm, id) # NoObject
    /\ Held' = {On(hsm', id) : id \in Of(hsm', "canonical")}
                   \cup (IF Of(hsm', "canonical") = {} THEN {AttributesOf(hsm')} ELSE {})
    /\ Current = CurrentOf(host)
    /\ \A s : Holds(Stored(s)) <=> HasStored(hsm, s)
<1>1. \A kind : Companions(kind) = Of(hsm, kind) /\ Companions(kind)' = Of(hsm', kind)
  BY DEF Companions, Of, Present, On
<1>2. Attributes = AttributesOf(hsm) /\ Attributes' = AttributesOf(hsm')
  BY Zenon DEF Attributes, AttributesOf, Companions, Of, Present, Native, On
<1>3. Held' = {On(hsm', id) : id \in Of(hsm', "canonical")}
                   \cup (IF Of(hsm', "canonical") = {} THEN {AttributesOf(hsm')} ELSE {})
  BY <1>1, <1>2 DEF Held, On
<1> QED BY <1>1, <1>2, <1>3 DEF Present, On, Current, CurrentOf, Holds, HasStored

LEMMA IsNative ==
    ASSUME NEW d \in Device, NEW r \in Record, r.kind = "canonical", r.target = d.seq, is_empty(r)
    PROVE  r = Native(d)
  BY DEF is_empty, Native, Metadata, Record

LEMMA KeptMore ==
    ASSUME NEW d, NEW S, NEW T, S \subseteq T
    PROVE  (KeptOK(d, S) => KeptOK(d, T)) /\ (CertainOK(d, S) => CertainOK(d, T))
  BY DEF KeptOK, CertainOK

LEMMA KeptSame ==
    ASSUME NEW d \in Device, NEW e \in Device, SameCompanions(d, e), NEW S
    PROVE  (KeptOK(d, S) => KeptOK(e, S)) /\ (CertainOK(d, S) => CertainOK(e, S))
  BY AttributesSame DEF KeptOK, CertainOK

LEMMA StoredChanges ==
    ASSUME NEW d \in Device, NEW e, NEW id \in OpaqueIds, OnlyAt(d, e, id),
           On(d, id) # NoObject => On(d, id).kind = "stored",
           On(e, id) # NoObject => On(e, id).kind = "stored"
    PROVE  SameCompanions(d, e)
  BY DEF OnlyAt, SameCompanions

LEMMA KeptPut ==
    ASSUME NEW d \in Device, NEW e, NEW id \in OpaqueIds, OnlyAt(d, e, id), NEW S, KeptOK(d, S),
           On(e, id) \in Record, On(e, id).kind = "canonical", On(e, id).target = d.seq,
           On(e, id) \in S
    PROVE  KeptOK(e, S) /\ id \in Of(e, "canonical")
<1>1. id \in Of(e, "canonical")
  BY RecordFacts DEF Of, OnlyAt
<1>2. \A j \in Of(e, "canonical") : j = id \/ (j \in Of(d, "canonical") /\ On(e, j) = On(d, j))
  BY DEF Of, OnlyAt
<1> QED BY <1>1, <1>2 DEF KeptOK

LEMMA KeptDelete ==
    ASSUME NEW d \in Device, NEW e, NEW id \in OpaqueIds, OnlyAt(d, e, id), NEW S, KeptOK(d, S),
           On(e, id) = NoObject, id \notin Of(d, "legacy"),
           NEW r \in Record, r.kind = "canonical", r.target = d.seq, r \in S,
           \/ is_empty(r) /\ Of(d, "legacy") = {}
           \/ \E j \in OpaqueIds : j # id /\ On(d, j) = r
    PROVE  KeptOK(e, S)
<1>1. /\ e \in Device /\ e.seq = d.seq
      /\ \A j \in OpaqueIds : j # id => On(e, j) = On(d, j)
  BY DEF OnlyAt
<1>2. \A j \in Of(e, "canonical") : j \in Of(d, "canonical") /\ On(e, j) = On(d, j)
  BY <1>1 DEF Of
<1>3. ASSUME Of(e, "canonical") = {} PROVE AttributesOf(e) \in S
  <2>1. ~\E j \in OpaqueIds : j # id /\ On(d, j) = r
    BY <1>1, <1>3, RecordFacts DEF Of
  <2>2. is_empty(r) /\ Of(d, "legacy") = {}
    BY <2>1
  <2>3. Of(e, "legacy") = {}
    BY <1>1, <2>2 DEF Of
  <2>4. AttributesOf(e) = Native(e)
    BY <1>1, <1>3, <2>3, AttributesNone
  <2>5. r = Native(e)
    BY <1>1, <2>2, IsNative
  <2> QED BY <2>4, <2>5
<1> QED BY <1>2, <1>3 DEF KeptOK

LEMMA StoredStays ==
    ASSUME NEW d \in Device, NEW e, NEW id \in OpaqueIds, OnlyAt(d, e, id), NEW s,
           On(d, id) # Stored(s), HasStored(d, s)
    PROVE  HasStored(e, s)
  BY DEF HasStored, OnlyAt

-----------------------------------------------------------------------------
(* Calls that fail, other than the destruction of the key.                 *)

(* What such a call may leave on the device.                               *)
Good(d) ==
    /\ d \in Device /\ DeviceOK(d) /\ d.live = hsm.live /\ d.seq = hsm.seq
    /\ d.live => KeptOK(d, Allowed) /\ (run.op \notin AttrOps => CertainOK(d, accepted))
    /\ \A s \in published : PublicOK(d, run, doubts # {}, s)

LEMMA GoodNow ==
    ASSUME Inv, run.op # "destroy"
    PROVE  Good(hsm)
  BY Types DEF Inv, Good, StoreFits, Promises, PublicFits

(* The outcomes of a command that was not confirmed.                       *)
Broken ==
    \/ hsm' = hsm /\ user' = user /\ moved' = moved
    \/ Good(hsm') /\ user' = FALSE /\ moved' = TRUE

LEMMA FailedCases ==
    ASSUME NEW after, Failed(after)
    PROVE  \/ hsm' = hsm /\ user' = user /\ moved' = moved
           \/ user /\ hsm' \in {hsm, after} /\ user' = FALSE /\ moved' = TRUE
  BY DEF Failed, Refused, AnswerLost

LEMMA StoreFailed ==
    ASSUME Inv, host' = host, "change" \in doubts => "change" \in doubts',
           (hsm' = hsm /\ moved' = moved) \/ (DeviceOK(hsm') /\ moved' = TRUE)
    PROVE  StoreFits'
<1>2. CASE moved' = TRUE
  BY <1>2 DEF Inv, StoreFits
<1>3. CASE hsm' = hsm /\ moved' = moved
  <2>1. ASSUME ~moved PROVE StoreOK(hsm, host, doubts')
    <3>1. StoreOK(hsm, host, doubts)
      BY <2>1 DEF Inv, StoreFits
    <3> QED BY <3>1, StaleKeeps
  <2> QED BY <1>3, <2>1 DEF Inv, StoreFits
<1> QED BY <1>2, <1>3

LEMMA NoRunFacts ==
    /\ NoRun.op = "none" /\ NoRun.pc = "none" /\ NoRun.new = NoObject /\ NoRun.todo = {}
    /\ NoRun.ids = {} /\ NoRun.link = NoObject /\ NoRun.existed = FALSE /\ NoRun.failed = FALSE
    /\ NoRun \in Call
  BY DEF NoRun, Call

(* The invariant when no call runs.                                        *)
LEMMA IdleInv ==
    ASSUME run' = NoRun, HsmObjectsTypeOK', StoreFits', user' => ~moved', fresh' => user',
           fresh' \/ (user' /\ "change" \notin doubts') => SyncedOK(hsm', host'),
           user' /\ doubts' = {} => Single(hsm'),
           hsm'.live => KeptOK(hsm', accepted') /\ CertainOK(hsm', accepted'),
           \A s \in published' : HasStored(hsm', s)
               \/ (hsm'.live /\ s = hsm'.seq /\ \E id \in Of(hsm', "canonical") : On(hsm', id).public)
    PROVE  Inv'
<1>1. SlotFits' /\ Shape'
  BY NoRunFacts DEF SlotFits, Shape, AttrOps, Idle
<1>2. Replacing' /\ Promises' /\ Discarding' /\ Creating' /\ Destroying'
  BY NoRunFacts DEF Replacing, Promises, Discarding, Creating, Destroying, AttrOps, Allowed
<1>3. PublicFits'
  BY NoRunFacts DEF PublicFits, PublicOK, AttrOps
<1> QED BY <1>1, <1>2, <1>3 DEF Inv

(* A call fails after commands that left a good device.                    *)
LEMMA FailsSafely ==
    ASSUME Inv, run.op \in AttrOps \cup {"create", "discard"}, Good(hsm'), host' \in Cache, StoreFits',
           user' \in BOOLEAN, moved' \in BOOLEAN, fresh' \in BOOLEAN, user' => ~moved',
           fresh' => user' /\ SyncedOK(hsm', host'),
           run.op \in AttrOps /\ user' =>
               \A id \in run.ids : On(hsm', id) # NoObject => On(hsm', id).kind = "canonical",
           Fail, doubts' = IF run' = NoRun THEN doubts \cup {"change"} ELSE doubts
    PROVE  Inv'
<1>2. /\ hsm' \in Device /\ run \in Call /\ doubts \subseteq {"change", "hidden"}
      /\ accepted \subseteq Record \cup {NoObject} /\ published \subseteq Sequence
      /\ hsm'.live = hsm.live /\ hsm'.seq = hsm.seq
  BY Types DEF Inv, Good
<1>5. CASE run.op = "set"
  <2>1. run' = [run EXCEPT !.pc = "refresh", !.failed = TRUE]
          /\ accepted' = accepted /\ published' = published
    BY <1>5 DEF Fail, Promised
  <2>2. /\ run' \in Call /\ run'.op = "set" /\ run'.pc = "refresh" /\ run'.failed = TRUE
        /\ run'.new = run.new /\ run'.todo = run.todo /\ run'.ids = run.ids /\ run'.link = run.link
    BY <1>2, <1>5, <2>1 DEF Call
  <2>3. run' # NoRun /\ doubts' = doubts
    BY <2>2, NoRunFacts
  <2>4. HsmObjectsTypeOK'
    BY <1>2, <2>1, <2>2, <2>3, Types
  <2>5. SlotFits'
    BY <2>2, <2>3 DEF SlotFits, Idle
  <2>6. Shape'
    <3>1. /\ hsm.live /\ run.new \in Record /\ run.new.kind = "canonical" /\ run.new.target = hsm.seq
          /\ \A r \in run.todo : r.kind = "canonical"
      BY <1>5 DEF Inv, Shape, AttrOps
    <3> QED BY <1>2, <2>2, <2>3, <3>1 DEF Shape, AttrOps
  <2>7. Replacing'
    <3>1. user' => \A id \in run.ids : On(hsm', id) # NoObject => On(hsm', id).kind = "canonical"
      BY <1>5 DEF AttrOps
    <3> QED BY <2>2, <3>1 DEF Replacing, ReplacingOK
  <2>8. Promises' /\ PublicFits'
    <3>1. Allowed' = Allowed
      BY <1>5, <2>1, <2>2 DEF Allowed, AttrOps
    <3>2. Promises'
      BY <2>2, <3>1 DEF Promises, Good, AttrOps
    <3>3. \A s : PublicOK(hsm', run, doubts # {}, s) => PublicOK(hsm', run', doubts' # {}, s)
      BY <1>5, <2>2, <2>3 DEF PublicOK, AttrOps
    <3> QED BY <2>1, <3>2, <3>3 DEF PublicFits, Good
  <2>9. Discarding' /\ Creating' /\ Destroying'
    BY <2>2 DEF Discarding, Creating, Destroying
  <2> QED BY <2>4, <2>5, <2>6, <2>7, <2>8, <2>9 DEF Inv
<1>6. CASE run.op # "set"
  <2>1. run' = NoRun /\ published' = published
          /\ accepted' = IF run.op \in AttrOps THEN accepted \cup {run.new, NoObject} ELSE accepted
    BY <1>6 DEF Fail, Return, AttrOps
  <2>2. HsmObjectsTypeOK'
    BY <1>2, <2>1, NoRunFacts, Types DEF Call
  <2>3. hsm'.live => KeptOK(hsm', accepted') /\ CertainOK(hsm', accepted')
    <3>1. Allowed \subseteq accepted' /\ (run.op \in AttrOps => NoObject \in accepted')
      BY <2>1 DEF Allowed
    <3>2. hsm'.live => KeptOK(hsm', Allowed) /\ (run.op \notin AttrOps => CertainOK(hsm', accepted))
      BY DEF Good
    <3> QED BY <2>1, <3>1, <3>2, KeptMore DEF CertainOK
  <2>4. \A s \in published' : HasStored(hsm', s)
            \/ (hsm'.live /\ s = hsm'.seq /\ \E id \in Of(hsm', "canonical") : On(hsm', id).public)
    BY <2>1 DEF Good, PublicOK, AttrOps
  <2> QED BY <2>1, <2>2, <2>3, <2>4, IdleInv
<1> QED BY <1>5, <1>6

LEMMA FailKeeps ==
    ASSUME Inv, run.op \in AttrOps \cup {"create", "discard"}, Broken, host' = host, Fail,
           fresh' = FALSE \/ (fresh' = fresh /\ hsm' = hsm /\ user' = user),
           doubts' = IF run' = NoRun THEN doubts \cup {"change"} ELSE doubts
    PROVE  Inv'
<1>1. Good(hsm') /\ Good(hsm)
  <2>1. run.op # "destroy"
    BY DEF AttrOps
  <2> QED BY <2>1, GoodNow DEF Broken
<1>2. host \in Cache /\ user \in BOOLEAN /\ moved \in BOOLEAN /\ fresh \in BOOLEAN
  BY Types DEF Inv
<1>3. (user' => ~moved') /\ (fresh' => user') /\ (fresh' => SyncedOK(hsm', host'))
        /\ user' \in BOOLEAN /\ moved' \in BOOLEAN /\ fresh' \in BOOLEAN
  <2>1. (user => ~moved) /\ (fresh => user) /\ (fresh => SyncedOK(hsm, host))
    BY DEF Inv, SlotFits
  <2>2. (user' => ~moved') /\ user' \in BOOLEAN /\ moved' \in BOOLEAN
    <3>1. CASE user' = user /\ moved' = moved
      BY <1>2, <2>1, <3>1
    <3>2. CASE user' = FALSE /\ moved' = TRUE
      BY <3>2, Zenon
    <3> QED BY <3>1, <3>2 DEF Broken
  <2>3. CASE fresh' = FALSE
    BY <2>2, <2>3
  <2>4. CASE fresh' = fresh /\ hsm' = hsm /\ user' = user
    BY <1>2, <2>1, <2>2, <2>4
  <2> QED BY <2>3, <2>4
<1>4. StoreFits'
  <2>1. "change" \in doubts => "change" \in doubts'
    OBVIOUS
  <2> QED BY <1>1, <2>1, StoreFailed DEF Broken, Good
<1>5. ASSUME run.op \in AttrOps, user'
      PROVE  \A id \in run.ids : On(hsm', id) # NoObject => On(hsm', id).kind = "canonical"
  <2>1. hsm' = hsm /\ user
    BY <1>5 DEF Broken
  <2> QED BY <2>1, <1>5 DEF Inv, Replacing, ReplacingOK
<1> QED BY <1>1, <1>2, <1>3, <1>4, <1>5, FailsSafely

LEMMA GoodWrite ==
    ASSUME Inv, run.op \in AttrOps, NEW id \in OpaqueIds,
           On(hsm, id) = NoObject \/ id \in Of(hsm, "canonical")
    PROVE  Good(PutIn(hsm, id, run.new)) /\ run.new \in Record
<1> DEFINE e == PutIn(hsm, id, run.new)
<1>1. hsm \in Device /\ DeviceOK(hsm) /\ run.op # "destroy"
  BY Types DEF Inv, StoreFits, AttrOps
<1>2. /\ hsm.live /\ run.new \in Record /\ run.new.kind = "canonical" /\ run.new.target = hsm.seq
      /\ run.new # NoObject /\ hsm.seq \in Nat /\ hsm.seq >= 1
  BY <1>1, RecordFacts DEF Inv, Shape, DeviceOK, Device, Sequence
<1>3. OnlyAt(hsm, e, id) /\ On(e, id) = run.new
  BY <1>1, <1>2, PutFacts
<1> HIDE DEF e
<1>4. e \in Device /\ e.live = hsm.live /\ e.seq = hsm.seq
  BY <1>3 DEF OnlyAt
<1>5. DeviceOK(e)
  BY <1>1, <1>2, <1>3, <1>4, DeviceKept
<1>6. run.new \in Allowed /\ KeptOK(hsm, Allowed)
  BY <1>1, <1>2 DEF Allowed, Inv, Promises
<1>7. KeptOK(e, Allowed) /\ id \in Of(e, "canonical")
  BY <1>1, <1>2, <1>3, <1>6, KeptPut
<1>8. ASSUME NEW s \in published PROVE PublicOK(e, run, doubts # {}, s)
  <2>1. PublicOK(hsm, run, doubts # {}, s)
    BY DEF Inv, PublicFits
  <2>2. CASE HasStored(hsm, s)
    <3>0. s \in Sequence
      BY Types DEF Inv
    <3>1. On(hsm, id) # Stored(s)
      BY <3>0, RecordFacts DEF Of, Stored
    <3> QED BY <1>1, <1>3, <2>2, <3>1, StoredStays DEF PublicOK
  <2>3. CASE ~HasStored(hsm, s)
    BY <1>1, <1>2, <1>3, <1>4, <1>7, <2>1, <2>3 DEF PublicOK
  <2> QED BY <2>2, <2>3
<1> QED BY <1>2, <1>4, <1>5, <1>7, <1>8 DEF Good, e

LEMMA GoodCreate ==
    ASSUME Inv, run.op = "create", NEW id \in OpaqueIds, On(hsm, id) = NoObject
    PROVE  Good(PutIn(hsm, id, run.new)) /\ run.new \in Record
<1> DEFINE e == PutIn(hsm, id, run.new)
<1>1. hsm \in Device /\ DeviceOK(hsm)
  BY Types DEF Inv, StoreFits
<1>2. /\ hsm.live /\ run.new = Stored(hsm.seq) /\ hsm.seq \in Sequence /\ hsm.seq \in Nat /\ hsm.seq >= 1
  BY <1>1 DEF Inv, Shape, DeviceOK, Device, Sequence
<1>2a. /\ run.new \in Record /\ run.new # NoObject /\ run.new.kind = "stored"
       /\ run.new.target = hsm.seq
  BY <1>2, RecordFacts DEF Stored
<1>3. OnlyAt(hsm, e, id) /\ On(e, id) = run.new
  BY <1>1, <1>2a, PutFacts
<1> HIDE DEF e
<1>4. e \in Device /\ e.live = hsm.live /\ e.seq = hsm.seq
  BY <1>3 DEF OnlyAt
<1>5. DeviceOK(e)
  BY <1>1, <1>2, <1>2a, <1>3, <1>4, DeviceKept
<1>6. SameCompanions(hsm, e)
  BY <1>1, <1>2a, <1>3, StoredChanges
<1>7. KeptOK(hsm, Allowed) /\ CertainOK(hsm, accepted) /\ run.op \notin AttrOps
  BY <1>2 DEF Inv, Promises, AttrOps
<1>8. KeptOK(e, Allowed) /\ CertainOK(e, accepted)
  BY <1>1, <1>4, <1>6, <1>7, KeptSame
<1>9. ASSUME NEW s \in published PROVE PublicOK(e, run, doubts # {}, s)
  <2>1. PublicOK(hsm, run, doubts # {}, s)
    BY DEF Inv, PublicFits
  <2>2. CASE HasStored(hsm, s)
    <3>1. s \in Sequence
      BY Types DEF Inv
    <3>2. On(hsm, id) # Stored(s)
      BY <3>1, RecordFacts
    <3> QED BY <1>1, <1>3, <2>2, <3>2, StoredStays DEF PublicOK
  <2>3. CASE ~HasStored(hsm, s)
    <3>1. /\ Of(e, "canonical") = Of(hsm, "canonical")
          /\ \A j \in Of(hsm, "canonical") : On(e, j) = On(hsm, j)
      BY <1>1, <1>4, <1>6, AttributesSame
    <3> QED BY <1>4, <2>1, <2>3, <3>1 DEF PublicOK
  <2> QED BY <2>2, <2>3
<1> QED BY <1>2a, <1>4, <1>5, <1>7, <1>8, <1>9 DEF Good, e

LEMMA GoodErase ==
    ASSUME Inv, run.op \in AttrOps \cup {"discard"}, run.pc = "erase", user, NEW id \in run.ids
    PROVE  /\ Good(DeletedIn(hsm, id)) /\ id \in OpaqueIds
           /\ On(hsm, id) # NoObject => On(hsm, id).kind # "legacy"
<1> DEFINE e == DeletedIn(hsm, id)
<1>1. hsm \in Device /\ DeviceOK(hsm) /\ run.op # "destroy" /\ id \in OpaqueIds
  BY Types DEF Inv, StoreFits, AttrOps, Call
<1>3. OnlyAt(hsm, e, id) /\ On(e, id) = NoObject
  BY <1>1, DeletedFacts
<1> HIDE DEF e
<1>4. /\ e \in Device /\ e.live = hsm.live /\ e.seq = hsm.seq
      /\ \A j \in OpaqueIds : j # id => On(e, j) = On(hsm, j)
  BY <1>3 DEF OnlyAt
<1>5. DeviceOK(e)
  BY <1>1, <1>3, <1>4, DeviceKept
<1>6. CASE run.op \in AttrOps
  <2>1. On(hsm, id) # NoObject => On(hsm, id).kind = "canonical"
    BY <1>6 DEF Inv, Replacing, ReplacingOK
  <2>2. /\ hsm.live /\ run.new \in Record /\ run.new.kind = "canonical" /\ run.new.target = hsm.seq
    BY <1>6 DEF Inv, Shape
  <2>3. Bare(hsm, run) \/ \E j \in OpaqueIds : Safe(hsm, host, run, j)
    BY <1>6 DEF Inv, Replacing, ReplacingOK
  <2>4. Bare(hsm, run) \/ \E j \in OpaqueIds : j # id /\ On(hsm, j) = run.new
    BY <2>3 DEF Safe
  <2>5. run.new \in Allowed /\ KeptOK(hsm, Allowed)
    BY <1>1, <1>6, <2>2 DEF Allowed, Inv, Promises
  <2>6. id \notin Of(hsm, "legacy")
    BY <2>1 DEF Of
  <2>7. KeptOK(e, Allowed)
    BY <1>1, <1>3, <2>2, <2>4, <2>5, <2>6, KeptDelete DEF Bare
  <2>8. ASSUME NEW s \in published PROVE PublicOK(e, run, doubts # {}, s)
    <3>1. PublicOK(hsm, run, doubts # {}, s)
      BY DEF Inv, PublicFits
    <3>2. CASE HasStored(hsm, s)
      <4>1. On(hsm, id) # Stored(s)
        BY <2>1, RecordFacts, Types DEF Stored, Inv
      <4> QED BY <1>1, <1>3, <3>2, <4>1, StoredStays DEF PublicOK
    <3>3. CASE ~HasStored(hsm, s)
      <4>1. run.new.public /\ doubts = {} /\ s = hsm.seq
        BY <1>1, <1>6, <3>1, <3>3 DEF PublicOK
      <4>2. PICK j \in OpaqueIds : j # id /\ On(hsm, j) = run.new
        BY <2>4, <4>1 DEF Bare, is_empty
      <4>3. j \in Of(e, "canonical") /\ On(e, j).public
        BY <1>4, <2>2, <4>1, <4>2, RecordFacts DEF Of
      <4> QED BY <1>1, <1>4, <2>2, <4>1, <4>3 DEF PublicOK
    <3> QED BY <3>2, <3>3
  <2> QED BY <1>1, <1>4, <1>5, <1>6, <2>1, <2>7, <2>8 DEF Good, e
<1>7. CASE run.op = "discard"
  <2>1. On(hsm, id) # NoObject => On(hsm, id).kind = "stored" /\ On(hsm, id).target \notin published
    BY <1>7 DEF Inv, Discarding
  <2>2. SameCompanions(hsm, e)
    BY <1>1, <1>3, <2>1, StoredChanges
  <2>3. hsm.live => KeptOK(e, Allowed) /\ CertainOK(e, accepted)
    BY <1>1, <1>4, <1>7, <2>2, KeptSame DEF Inv, Promises, AttrOps
  <2>4. ASSUME NEW s \in published PROVE PublicOK(e, run, doubts # {}, s)
    <3>1. PublicOK(hsm, run, doubts # {}, s)
      BY DEF Inv, PublicFits
    <3>2. CASE HasStored(hsm, s)
      <4>1. On(hsm, id) # Stored(s)
        BY <2>1, RecordFacts, Types DEF Stored, Inv
      <4> QED BY <1>1, <1>3, <3>2, <4>1, StoredStays DEF PublicOK
    <3>3. CASE ~HasStored(hsm, s)
      <4>1. /\ Of(e, "canonical") = Of(hsm, "canonical")
            /\ \A j \in Of(hsm, "canonical") : On(e, j) = On(hsm, j)
        BY <1>1, <1>4, <2>2, AttributesSame
      <4> QED BY <1>4, <3>1, <3>3, <4>1 DEF PublicOK
    <3> QED BY <3>2, <3>3
  <2> QED BY <1>1, <1>4, <1>5, <2>1, <2>3, <2>4 DEF Good, e
<1> QED BY <1>6, <1>7

-----------------------------------------------------------------------------
(* The steps of a replacement.                                             *)

LEMMA GoodGoesOn ==
    ASSUME run.op # "destroy", Good(hsm'), run'.op = run.op, run'.new = run.new,
           accepted' = accepted, published' = published, doubts' = doubts
    PROVE  Promises' /\ PublicFits'
<1>1. Allowed' = Allowed
  BY DEF Allowed
<1>2. Promises'
  BY <1>1 DEF Promises, Good
<1>3. \A s : PublicOK(hsm', run, doubts # {}, s) => PublicOK(hsm', run', doubts' # {}, s)
  BY DEF PublicOK
<1> QED BY <1>2, <1>3 DEF PublicFits, Good

LEMMA RunFields ==
    ASSUME run \in Call
    PROVE  /\ \A p \in {"none", "update", "put", "delete", "erase", "list", "unlink", "standalone",
                        "native", "undo", "restore", "name", "refresh"} :
                /\ [run EXCEPT !.pc = p] \in Call /\ [run EXCEPT !.pc = p].pc = p
                /\ [run EXCEPT !.pc = p].op = run.op /\ [run EXCEPT !.pc = p].new = run.new
                /\ [run EXCEPT !.pc = p].todo = run.todo /\ [run EXCEPT !.pc = p].ids = run.ids
                /\ [run EXCEPT !.pc = p].link = run.link
                /\ [run EXCEPT !.pc = p].existed = run.existed
                /\ [run EXCEPT !.pc = p].failed = run.failed
  BY DEF Call

LEMMA WriteStep ==
    ASSUME Inv, user, run.op \in AttrOps \cup {"create"}, run.pc \in {"update", "put"},
           NEW id \in OpaqueIds,
           On(hsm, id) = NoObject \/ (run.op \in AttrOps /\ id \in Of(hsm, "canonical")),
           run.op \in AttrOps => run.new \notin run.todo,
           run.op \in AttrOps /\ doubts = {} =>
               \A j \in Of(hsm, "canonical") : j = id \/
                   (On(hsm, j) # run.new /\ On(hsm, j) \in run.todo /\ host.cached[j] = hsm.opaque[j]),
           hsm' = PutIn(hsm, id, run.new), user' = user, moved' = moved, fresh' = FALSE,
           host' = Written(forget_cached_object(host, id), run.new, id),
           run' = [run EXCEPT !.pc = "delete"], accepted' = accepted, published' = published,
           doubts' = doubts
    PROVE  Inv'
<1>1. Good(hsm') /\ run.new \in Record /\ run.op # "destroy"
  BY GoodWrite, GoodCreate DEF AttrOps
<1>2. /\ hsm \in Device /\ host \in Cache /\ run \in Call /\ user \in BOOLEAN /\ moved \in BOOLEAN
      /\ doubts \subseteq {"change", "hidden"}
      /\ accepted \subseteq Record \cup {NoObject} /\ published \subseteq Sequence
      /\ hsm' \in Device /\ hsm'.live = hsm.live /\ hsm'.seq = hsm.seq /\ DeviceOK(hsm')
  BY <1>1, Types DEF Inv, Good
<1>3. OnlyAt(hsm, hsm', id) /\ On(hsm', id) = run.new
  BY <1>1, <1>2, PutFacts
<1> DEFINE h == forget_cached_object(host, id)
<1>4. /\ h \in Cache /\ h.cached[id] = Entry(0, NoObject)
      /\ \A j \in OpaqueIds : j # id => h.cached[j] = host.cached[j]
      /\ h.writes = {w \in host.writes : w.id # id}
  BY <1>2, ForgetFacts
<1>5. /\ host' \in Cache /\ host'.cached = h.cached
      /\ host'.writes = {w \in h.writes : w.of # run.new} \cup {[of |-> run.new, id |-> id]}
  BY <1>1, <1>4, WrittenFacts
<1>6. /\ run' \in Call /\ run'.pc = "delete" /\ run'.op = run.op /\ run'.new = run.new
      /\ run'.todo = run.todo /\ run'.ids = run.ids /\ run'.link = run.link /\ run'.failed = run.failed
  BY <1>2, RunFields
<1>7. run.ids = {} /\ ~run.failed /\ ~moved
  BY DEF Inv, Shape, SlotFits
<1>8. HsmObjectsTypeOK'
  BY <1>2, <1>5, <1>6, Types
<1>9. StoreFits'
  <2>1. StoreOK(hsm, host, doubts)
    BY <1>7 DEF Inv, StoreFits
  <2>2. id \notin Of(hsm, "legacy") /\ id \notin Of(hsm', "legacy")
    <3>1. run.new.kind # "legacy"
      BY DEF Inv, Shape, Stored
    <3> QED BY <1>3, <3>1 DEF Of
  <2>3. StoreOK(hsm', h, doubts)
    BY <1>2, <1>3, <2>1, <2>2, ForgetKeeps
  <2>4. StoreOK(hsm', host', doubts)
    BY <1>1, <1>2, <1>3, <1>4, <2>3, WrittenKeeps
  <2> QED BY <1>2, <2>4 DEF StoreFits
<1> HIDE DEF h
<1>10. SlotFits'
  BY <1>6, <1>7, NoRunFacts DEF SlotFits, Idle
<1>11. Shape'
  <2>1. run' # NoRun /\ run.op # "none"
    BY <1>6, NoRunFacts DEF AttrOps
  <2>2. run.op \in AttrOps =>
          /\ hsm.live /\ run.new.kind = "canonical" /\ run.new.target = hsm.seq
          /\ \A r \in run.todo : r.kind = "canonical"
    BY DEF Inv, Shape
  <2>3. /\ run.op = "create" => run.new = Stored(hsm.seq) /\ hsm.live /\ run.todo = {}
        /\ run.op = "project" => run.new.public
    BY DEF Inv, Shape
  <2> QED BY <1>1, <1>2, <1>6, <1>7, <2>1, <2>2, <2>3 DEF Shape, AttrOps
<1>12. Promises' /\ PublicFits'
  BY <1>1, <1>6, GoodGoesOn
<1>13. Replacing'
  <2>1. SUFFICES ASSUME run.op \in AttrOps
                 PROVE  ReplacingOK(hsm', host', run') /\ (doubts = {} => SureOK(hsm', host', run'))
    BY <1>6 DEF Replacing
  <2>2. host'.cached[id].record = NoObject /\ \A w \in host'.writes : w.id = id => w.of = run.new
    BY <1>4, <1>5 DEF Entry
  <2>3. Safe(hsm', host', run', id)
    BY <1>3, <1>6, <1>7, <2>2 DEF Safe
  <2>4. ReplacingOK(hsm', host', run')
    BY <1>6, <1>7, <2>1, <2>3 DEF ReplacingOK
  <2>5. ASSUME doubts = {} PROVE SureOK(hsm', host', run')
    <3>1. \A j \in Of(hsm', "canonical") : j \in OpaqueIds /\ (j # id =>
              /\ j \in Of(hsm, "canonical") /\ On(hsm', j) = On(hsm, j) /\ hsm'.opaque[j] = hsm.opaque[j]
              /\ host'.cached[j] = host.cached[j])
      BY <1>3, <1>4, <1>5 DEF Of, OnlyAt
    <3>2. \A j \in Of(hsm', "canonical") : j = id \/
              (On(hsm', j) # run.new /\ On(hsm', j) \in run.todo /\ host'.cached[j] = hsm'.opaque[j])
      BY <2>1, <2>5, <3>1
    <3> QED BY <1>3, <1>6, <3>2 DEF SureOK
  <2> QED BY <2>4, <2>5
<1>14. Discarding' /\ Destroying'
  BY <1>6 DEF Discarding, Destroying, AttrOps
<1>15. Creating'
  <2>1. run.op = "create" => run.new = Stored(hsm.seq)
    BY DEF Inv, Shape
  <2> QED BY <1>2, <1>3, <1>6, <2>1 DEF Creating, HasStored
<1> QED BY <1>8, <1>9, <1>10, <1>11, <1>12, <1>13, <1>14, <1>15 DEF Inv

LEMMA UpdateKeeps ==
    ASSUME Inv, try_update_storage_object,
           doubts' = IF run' = NoRun THEN doubts \cup {"change"} ELSE doubts
    PROVE  Inv'
<1> DEFINE id == run.link.id
<1>0. run.pc = "update"
  BY DEF try_update_storage_object
<1>1. user /\ run.op \in AttrOps
  BY <1>0, NoRunFacts, Types DEF Inv, Shape, Call, AttrOps
<1>2. id \in Of(hsm, "canonical") /\ id \in OpaqueIds /\ run.new \notin run.todo
  BY <1>0, <1>1 DEF Inv, Replacing, ReplacingOK, Of
<1>3. hsm \in Device /\ run \in Call
  BY Types DEF Inv
<1>4. Good(PutIn(hsm, id, run.new)) /\ Good(hsm)
  BY <1>1, <1>2, GoodWrite, GoodNow DEF AttrOps
<1>5. Put(id, run.new) = PutIn(hsm, id, run.new)
  BY DEF Put, PutIn
<1>6. CASE /\ Takes(id) /\ Done(Put(id, run.new))
           /\ host' = Written(forget_cached_object(host, id), run.new, id)
           /\ Goto("delete") /\ Promised /\ Changed
  <2>1. run' # NoRun
    BY <1>1, <1>3, <1>6, RunFields, NoRunFacts DEF Goto
  <2>2. doubts = {} => Of(hsm, "canonical") = {id}
    BY <1>0, <1>1 DEF Inv, Replacing, SureOK, Shape
  <2> QED BY <1>0, <1>1, <1>2, <1>5, <1>6, <2>1, <2>2, WriteStep DEF Done, Goto, Promised, Changed
<1>7. CASE ~Takes(id) /\ Impossible /\ Goto("put") /\ Promised /\ UNCHANGED <<host, fresh>>
  <2>1. /\ hsm' = hsm /\ host' = host /\ user' = user /\ moved' = moved /\ fresh' = fresh
        /\ accepted' = accepted /\ published' = published
    BY <1>7 DEF Impossible, Promised
  <2>2. /\ run' \in Call /\ run'.pc = "put" /\ run'.op = run.op /\ run'.new = run.new
        /\ run'.todo = run.todo /\ run'.ids = run.ids /\ run'.link = run.link /\ run'.failed = run.failed
    BY <1>3, <1>7, RunFields DEF Goto
  <2>3. run' # NoRun /\ doubts' = doubts
    BY <2>2, NoRunFacts
  <2>4. HsmObjectsTypeOK'
    BY <2>1, <2>2, <2>3, Types DEF Inv
  <2>5. StoreFits' /\ SlotFits'
    BY <1>0, <2>1, <2>2, <2>3 DEF Inv, StoreFits, SlotFits, Idle
  <2>6. Shape'
    BY <1>0, <1>1, <2>1, <2>2, <2>3 DEF Inv, Shape, AttrOps
  <2>7. ~hsm.replaces
    BY <1>7 DEF Takes
  <2>8. Replacing'
    <3>1. ReplacingOK(hsm', host', run')
      BY <1>0, <1>1, <1>2, <2>1, <2>2, <2>7 DEF Inv, Replacing, ReplacingOK
    <3>2. doubts = {} => SureOK(hsm', host', run')
      BY <1>0, <1>1, <2>1, <2>2 DEF Inv, Replacing, SureOK, Shape
    <3> QED BY <2>2, <2>3, <3>1, <3>2 DEF Replacing
  <2>9. Promises' /\ PublicFits'
    BY <1>1, <1>4, <2>1, <2>2, <2>3, GoodGoesOn DEF AttrOps
  <2>10. Discarding' /\ Creating' /\ Destroying'
    BY <1>1, <2>2 DEF Discarding, Creating, Destroying, AttrOps
  <2> QED BY <2>4, <2>5, <2>6, <2>8, <2>9, <2>10 DEF Inv
<1>8. CASE /\ Failed(IF Takes(id) THEN Put(id, run.new) ELSE hsm)
           /\ Fail /\ Changed /\ UNCHANGED host
  <2>1. Broken
    <3> DEFINE after == IF Takes(id) THEN Put(id, run.new) ELSE hsm
    <3>1. Good(after)
      BY <1>4, <1>5
    <3> HIDE DEF after
    <3>2. \/ hsm' = hsm /\ user' = user /\ moved' = moved
          \/ hsm' \in {hsm, after} /\ user' = FALSE /\ moved' = TRUE
      BY <1>8, FailedCases DEF after
    <3> QED BY <1>4, <3>1, <3>2 DEF Broken
  <2> QED BY <1>1, <1>8, <2>1, FailKeeps DEF Changed
<1> QED BY <1>6, <1>7, <1>8 DEF try_update_storage_object

(* What the slot has cached or remembers to have written is there, if no   *)
(* other client can have changed it.                                       *)
LEMMA KnownIsThere ==
    ASSUME Inv, ~moved, NEW record \in Record, KnownToBeThere(record)
    PROVE  \E id \in OpaqueIds :
               /\ On(hsm, id) # NoObject
               /\ On(hsm, id) = record \/ (hsm.replaces /\ Alike(record, On(hsm, id)))
<1>1. StoreOK(hsm, host, doubts) /\ host \in Cache /\ record # NoObject
  BY Types, RecordFacts DEF Inv, StoreFits
<1>2. CASE \E w \in host.writes : w.of = record
  BY <1>1, <1>2 DEF StoreOK, WritesOK, Cache
<1>3. CASE CachedWith(host, record) # {}
  <2>1. PICK id \in OpaqueIds : host.cached[id].record = record
    BY <1>3 DEF CachedWith
  <2> QED BY <1>1, <2>1 DEF StoreOK, CachedOK, On
<1> QED BY <1>2, <1>3 DEF KnownToBeThere

LEMMA PutKeeps ==
    ASSUME Inv, put, doubts' = IF run' = NoRun THEN doubts \cup {"change"} ELSE doubts
    PROVE  Inv'
<1>0. run.pc = "put"
  BY DEF put
<1>1. user /\ run.op \in AttrOps \cup {"create"} /\ ~moved /\ run.ids = {} /\ ~run.failed
  BY <1>0, NoRunFacts, Types DEF Inv, Shape, Call, AttrOps, SlotFits
<1>2. hsm \in Device /\ run \in Call /\ Good(hsm) /\ run.op # "destroy"
  BY <1>1, GoodNow, Types DEF Inv, AttrOps
<1>3. run.op \in AttrOps => run.new \notin run.todo /\ (run.todo # {} => ~hsm.replaces)
  BY <1>0, <1>1 DEF Inv, Replacing, ReplacingOK
<1>4. run.op \in AttrOps /\ doubts = {} =>
          \A j \in Of(hsm, "canonical") :
              On(hsm, j) # run.new /\ On(hsm, j) \in run.todo /\ host.cached[j] = hsm.opaque[j]
  BY <1>0, <1>1 DEF Inv, Replacing, SureOK
<1>5. /\ run.op \in AttrOps =>
            hsm.live /\ run.new \in Record /\ run.new.kind = "canonical" /\ run.new.target = hsm.seq
      /\ run.op = "create" => run.new = Stored(hsm.seq)
      /\ run.new \in Record
  <2>1. hsm.seq \in Sequence
    BY <1>2 DEF Device
  <2>2. run.op = "create" => run.new = Stored(hsm.seq)
    BY DEF Inv, Shape
  <2> QED BY <1>1, <2>1, <2>2, RecordFacts DEF Inv, Shape
<1>6. CASE /\ KnownToBeThere(run.new) /\ Goto("delete") /\ Promised
           /\ UNCHANGED <<hsm, host, user, moved, fresh, spent>>
  <2>1. /\ hsm' = hsm /\ host' = host /\ user' = user /\ moved' = moved /\ fresh' = fresh
        /\ accepted' = accepted /\ published' = published
    BY <1>6 DEF Promised
  <2>2. /\ run' \in Call /\ run'.pc = "delete" /\ run'.op = run.op /\ run'.new = run.new
        /\ run'.todo = run.todo /\ run'.ids = run.ids /\ run'.link = run.link /\ run'.failed = run.failed
    BY <1>2, <1>6, RunFields DEF Goto
  <2>3. run' # NoRun /\ doubts' = doubts
    BY <2>2, NoRunFacts
  <2>4. HsmObjectsTypeOK'
    BY <2>1, <2>2, <2>3, Types DEF Inv
  <2>5. StoreFits' /\ SlotFits'
    BY <1>0, <2>1, <2>2, <2>3 DEF Inv, StoreFits, SlotFits, Idle
  <2>6. Shape'
    BY <1>0, <1>1, <2>1, <2>2, <2>3 DEF Inv, Shape, AttrOps
  <2>7. PICK id \in OpaqueIds :
            /\ On(hsm, id) # NoObject
            /\ On(hsm, id) = run.new \/ (hsm.replaces /\ Alike(run.new, On(hsm, id)))
    BY <1>1, <1>5, <1>6, KnownIsThere
  <2>8. Replacing'
    <3>1. SUFFICES ASSUME run.op \in AttrOps
                   PROVE  ReplacingOK(hsm, host, run') /\ (doubts = {} => SureOK(hsm, host, run'))
      BY <2>1, <2>2, <2>3 DEF Replacing
    <3>2. ASSUME run.todo # {} PROVE Safe(hsm, host, run', id)
      <4>1. ~hsm.replaces /\ On(hsm, id) = run.new
        BY <1>3, <2>7, <3>1, <3>2
      <4>2. StoreOK(hsm, host, doubts)
        BY <1>1 DEF Inv, StoreFits
      <4>3. host.cached[id].record # NoObject => host.cached[id] = hsm.opaque[id]
        BY <4>1, <4>2 DEF StoreOK, CachedOK
      <4>4. \A w \in host.writes : w.id = id => w.of = run.new
        BY <4>1, <4>2 DEF StoreOK, WritesOK
      <4> QED BY <1>1, <2>2, <4>1, <4>3, <4>4 DEF Safe, On
    <3>3. ReplacingOK(hsm, host, run')
      BY <1>1, <1>3, <2>2, <3>1, <3>2 DEF ReplacingOK
    <3>4. doubts # {}
      <4>1. SUFFICES ASSUME doubts = {} PROVE FALSE
        OBVIOUS
      <4>2. id \in Of(hsm, "canonical")
        BY <1>5, <2>7, <3>1 DEF Of, Alike
      <4>3. On(hsm, id) # run.new /\ run.todo # {}
        BY <1>4, <3>1, <4>1, <4>2
      <4> QED BY <1>3, <2>7, <3>1, <4>3
    <3> QED BY <3>3, <3>4
  <2>9. Promises' /\ PublicFits'
    BY <1>2, <2>1, <2>2, <2>3, GoodGoesOn
  <2>10. Discarding' /\ Destroying'
    BY <1>1, <2>2 DEF Discarding, Destroying, AttrOps
  <2>11. Creating'
    <3>1. run.op = "create" => On(hsm, id) = Stored(hsm.seq)
      BY <1>5, <2>7 DEF Alike, Stored
    <3> QED BY <2>1, <2>2, <3>1 DEF Creating, HasStored
  <2> QED BY <2>4, <2>5, <2>6, <2>8, <2>9, <2>10, <2>11 DEF Inv
<1>7. ASSUME NEW id \in OpaqueIds, ~Present(id), Done(Put(id, run.new)),
             host' = Written(forget_cached_object(host, id), run.new, id),
             Goto("delete"), Promised, Changed
      PROVE  Inv'
  <2>1. run' # NoRun
    BY <1>1, <1>2, <1>7, RunFields, NoRunFacts DEF Goto, AttrOps
  <2>2. On(hsm, id) = NoObject
    BY <1>7 DEF Present, On
  <2>3. Put(id, run.new) = PutIn(hsm, id, run.new)
    BY DEF Put, PutIn
  <2> QED BY <1>0, <1>1, <1>3, <1>4, <1>7, <2>1, <2>2, <2>3, WriteStep DEF Done, Goto, Promised, Changed
<1>8. ASSUME NEW id \in OpaqueIds, ~Present(id), Failed(Put(id, run.new)), Fail, Changed,
             UNCHANGED host
      PROVE  Inv'
  <2>1. On(hsm, id) = NoObject
    BY <1>8 DEF Present, On
  <2>2. Good(Put(id, run.new))
    BY <1>1, <2>1, GoodWrite, GoodCreate DEF Put, PutIn
  <2>3. \/ hsm' = hsm /\ user' = user /\ moved' = moved
        \/ hsm' \in {hsm, Put(id, run.new)} /\ user' = FALSE /\ moved' = TRUE
    BY <1>8, FailedCases
  <2>4. Broken
    BY <1>2, <2>2, <2>3 DEF Broken
  <2> QED BY <1>1, <1>8, <2>4, FailKeeps DEF Changed
<1>9. CASE Impossible /\ Fail /\ UNCHANGED <<host, fresh>>
  <2>1. Broken /\ hsm' = hsm /\ user' = user /\ fresh' = fresh /\ host' = host
    BY <1>9 DEF Impossible, Broken
  <2> QED BY <1>1, <1>9, <2>1, FailKeeps
<1> QED BY <1>6, <1>7, <1>8, <1>9, Zenon DEF put

(* Where a record was written or seen there is nothing else, but for a     *)
(* change of another client.                                               *)
LEMMA WhereKnown ==
    ASSUME Inv, ~moved, NEW record \in Record,
           NEW id \in {w.id : w \in {v \in host.writes : v.of = record}} \cup CachedWith(host, record)
    PROVE  id \in OpaqueIds /\ (On(hsm, id) = record \/ Alike(record, On(hsm, id)))
<1>1. StoreOK(hsm, host, doubts) /\ host \in Cache /\ record # NoObject
  BY Types, RecordFacts DEF Inv, StoreFits
<1>2. CASE \E w \in host.writes : w.of = record /\ w.id = id
  BY <1>1, <1>2 DEF StoreOK, WritesOK, Cache
<1>3. CASE id \in CachedWith(host, record)
  BY <1>1, <1>3 DEF StoreOK, CachedOK, On, CachedWith
<1> QED BY <1>2, <1>3

LEMMA DeleteKeeps ==
    ASSUME Inv, delete, doubts' = IF run' = NoRun THEN doubts \cup {"change"} ELSE doubts
    PROVE  Inv'
<1>0. run.pc = "delete" /\ hsm' = hsm /\ host' = host /\ user' = user /\ moved' = moved /\ fresh' = fresh
  BY DEF delete
<1>1. user /\ run.op \in AttrOps \cup {"create", "discard"} /\ ~moved /\ run.ids = {} /\ ~run.failed
  BY <1>0, NoRunFacts, Types DEF Inv, Shape, Call, AttrOps, SlotFits
<1>2. hsm \in Device /\ host \in Cache /\ run \in Call /\ Good(hsm) /\ run.op # "destroy" /\ run # NoRun
  BY <1>1, GoodNow, Types, NoRunFacts DEF Inv, AttrOps
<1>3. CASE run.todo = {} /\ Goto("refresh") /\ Promised
  <2>1. accepted' = accepted /\ published' = published
    BY <1>3 DEF Promised
  <2>2. /\ run' \in Call /\ run'.pc = "refresh" /\ run'.op = run.op /\ run'.new = run.new
        /\ run'.todo = run.todo /\ run'.ids = run.ids /\ run'.link = run.link /\ run'.failed = run.failed
    BY <1>2, <1>3, RunFields DEF Goto
  <2>3. run' # NoRun /\ doubts' = doubts
    BY <2>2, NoRunFacts
  <2>4. HsmObjectsTypeOK'
    BY <1>0, <2>1, <2>2, <2>3, Types DEF Inv
  <2>5. StoreFits' /\ SlotFits'
    BY <1>0, <1>2, <2>1, <2>2, <2>3 DEF Inv, StoreFits, SlotFits, Idle
  <2>6. Shape'
    BY <1>0, <1>1, <2>1, <2>2, <2>3 DEF Inv, Shape, AttrOps
  <2>7. Replacing'
    <3>1. SUFFICES ASSUME run.op \in AttrOps
                   PROVE  ReplacingOK(hsm, host, run') /\ (doubts = {} => SureOK(hsm, host, run'))
      BY <1>0, <2>2, <2>3 DEF Replacing
    <3>2. ReplacingOK(hsm, host, run')
      BY <1>1, <2>2 DEF ReplacingOK
    <3>3. ASSUME doubts = {} PROVE SureOK(hsm, host, run')
      <4>1. SureOK(hsm, host, run)
        BY <1>1, <3>1, <3>3 DEF Inv, Replacing
      <4>2. Bare(hsm, run') <=> Bare(hsm, run)
        BY <2>2 DEF Bare
      <4> QED BY <1>0, <1>1, <1>3, <2>2, <4>1, <4>2 DEF SureOK
    <3> QED BY <3>2, <3>3
  <2>8. Promises' /\ PublicFits'
    BY <1>0, <1>2, <2>1, <2>2, <2>3, GoodGoesOn
  <2>9. Discarding' /\ Creating' /\ Destroying'
    BY <1>0, <1>1, <1>3, <2>1, <2>2 DEF Inv, Discarding, Creating, Destroying, AttrOps
  <2> QED BY <2>4, <2>5, <2>6, <2>7, <2>8, <2>9 DEF Inv
<1>4. ASSUME NEW record \in run.todo, NEW ids,
             ids = {w.id : w \in {v \in host.writes : v.of = record}} \cup CachedWith(host, record),
             run' = [run EXCEPT !.todo = @ \ {record}, !.ids = ids,
                                !.pc = IF ids = {} THEN "delete" ELSE "erase"],
             Promised
      PROVE  Inv'
  <2>1. accepted' = accepted /\ published' = published /\ record \in Record /\ record # NoObject
    BY <1>2, <1>4, RecordFacts DEF Promised, Call
  <2>2. \A id \in ids : id \in OpaqueIds /\ (On(hsm, id) = record \/ Alike(record, On(hsm, id)))
    BY <1>1, <1>4, <2>1, WhereKnown
  <2>3. /\ run' \in Call /\ run'.pc = (IF ids = {} THEN "delete" ELSE "erase") /\ run'.op = run.op
        /\ run'.new = run.new /\ run'.todo = run.todo \ {record} /\ run'.ids = ids
        /\ run'.link = run.link /\ run'.failed = run.failed
    <3>1. ids \in SUBSET OpaqueIds
      BY <2>2
    <3> QED BY <1>2, <1>4, <3>1 DEF Call
  <2>4. run' # NoRun /\ doubts' = doubts
    BY <2>3, NoRunFacts
  <2>5. HsmObjectsTypeOK'
    BY <1>0, <2>1, <2>3, <2>4, Types DEF Inv
  <2>6. StoreFits' /\ SlotFits'
    BY <1>0, <1>2, <2>3, <2>4 DEF Inv, StoreFits, SlotFits, Idle
  <2>7. Shape'
    BY <1>0, <1>1, <2>1, <2>3, <2>4 DEF Inv, Shape, AttrOps
  <2>8. Replacing'
    <3>1. SUFFICES ASSUME run.op \in AttrOps
                   PROVE  ReplacingOK(hsm, host, run') /\ (doubts = {} => SureOK(hsm, host, run'))
      BY <1>0, <2>3, <2>4 DEF Replacing
    <3>2. Bare(hsm, run') <=> Bare(hsm, run)
      BY <2>3 DEF Bare
    <3>3. record.kind = "canonical"
      BY <3>1 DEF Inv, Shape
    <3>4. Bare(hsm, run) \/ (run.new \notin run.todo /\ \E id \in OpaqueIds : Safe(hsm, host, run, id))
      BY <1>0, <1>1, <3>1 DEF Inv, Replacing, ReplacingOK
    <3>5. ASSUME NEW id \in OpaqueIds, Safe(hsm, host, run, id), run.new \notin run.todo
          PROVE  Safe(hsm, host, run', id)
      <4>1. id \notin ids
        BY <1>4, <2>1, <3>5 DEF Safe, CachedWith
      <4> QED BY <2>3, <3>5, <4>1 DEF Safe
    <3>6. ReplacingOK(hsm, host, run')
      <4>1. \A id \in ids : On(hsm, id) # NoObject => On(hsm, id).kind = "canonical"
        BY <2>2, <3>3 DEF Alike
      <4>2. Bare(hsm, run') \/ (run'.new \notin run'.todo /\ \E id \in OpaqueIds : Safe(hsm, host, run', id))
        BY <2>3, <3>2, <3>4, <3>5
      <4> QED BY <2>3, <4>1, <4>2 DEF ReplacingOK
    <3>7. ASSUME doubts = {} PROVE SureOK(hsm, host, run')
      <4>1. SureOK(hsm, host, run)
        BY <1>1, <3>1, <3>7 DEF Inv, Replacing
      <4>2. \A id \in Of(hsm, "canonical") :
              \/ id \in ids
              \/ On(hsm, id) \in run.todo \ {record} /\ host.cached[id] = hsm.opaque[id]
              \/ On(hsm, id) = run.new
        BY <1>0, <1>1, <1>4, <4>1 DEF SureOK, On, CachedWith, Of
      <4> QED BY <1>0, <2>3, <3>2, <4>1, <4>2 DEF SureOK
    <3> QED BY <3>6, <3>7
  <2>9. Promises' /\ PublicFits'
    BY <1>0, <1>2, <2>1, <2>3, <2>4, GoodGoesOn
  <2>10. Discarding'
    <3>1. SUFFICES ASSUME run.op = "discard"
                   PROVE  /\ \A r \in run'.todo : r.kind = "stored" /\ r.target \notin published
                          /\ \A id \in ids : On(hsm, id) # NoObject =>
                                 On(hsm, id).kind = "stored" /\ On(hsm, id).target \notin published
      BY <1>0, <2>1, <2>3 DEF Discarding
    <3>2. \A r \in run.todo : r.kind = "stored" /\ r.target \notin published
      BY <1>1, <3>1 DEF Inv, Discarding
    <3> QED BY <2>2, <2>3, <3>2 DEF Alike
  <2>11. Creating' /\ Destroying'
    BY <1>0, <1>1, <1>2, <2>3 DEF Inv, Creating, Destroying, AttrOps, Shape
  <2> QED BY <2>5, <2>6, <2>7, <2>8, <2>9, <2>10, <2>11 DEF Inv
<1>5. CASE run.op = "discard" /\ Fail
  <2>1. Broken
    BY <1>0 DEF Broken
  <2> QED BY <1>0, <1>5, <2>1, FailKeeps
<1> QED BY <1>3, <1>4, <1>5, Zenon DEF delete

(* A step of a deletion: the object is gone, or the command failed.        *)
LEMMA ErasedKeeps ==
    ASSUME Inv, run.op \in AttrOps \cup {"discard"}, run.pc = "erase", NEW id \in run.ids,
           Good(hsm'), host' \in Cache, StoreFits',
           user' \in BOOLEAN, moved' \in BOOLEAN, fresh' \in BOOLEAN, user' => user /\ ~moved',
           fresh' => user' /\ SyncedOK(hsm', host'),
           user' => \A j \in OpaqueIds :
               \/ On(hsm', j) = On(hsm, j) /\ hsm'.opaque[j] = hsm.opaque[j]
               \/ On(hsm', j) = NoObject /\ j = id,
           user' => /\ \A j \in OpaqueIds : j # id => host'.cached[j] = host.cached[j]
                    /\ host'.writes \subseteq host.writes,
           NEW failed \in BOOLEAN, failed \/ (user' /\ ~run.failed /\ On(hsm', id) = NoObject),
           Erased(id, failed), doubts' = IF run' = NoRun THEN doubts \cup {"change"} ELSE doubts
    PROVE  Inv'
<1>1. run \in Call /\ id \in OpaqueIds /\ run.op # "destroy" /\ run # NoRun
  BY Types, NoRunFacts DEF Inv, Call, AttrOps
<1>2. /\ hsm' \in Device /\ hsm'.live = hsm.live /\ hsm'.seq = hsm.seq
      /\ doubts \subseteq {"change", "hidden"}
      /\ accepted \subseteq Record \cup {NoObject} /\ published \subseteq Sequence
  BY Types DEF Inv, Good
<1>3. run.op \in AttrOps =>
        /\ hsm.live /\ run.new \in Record /\ run.new.kind = "canonical" /\ run.new.target = hsm.seq
        /\ \A r \in run.todo : r.kind = "canonical"
  BY DEF Inv, Shape
<1>4. run.op \in AttrOps /\ user' =>
          \A j \in run.ids : On(hsm', j) # NoObject => On(hsm', j).kind = "canonical"
  <2>1. run.op \in AttrOps /\ user' => \A j \in run.ids : On(hsm, j) # NoObject => On(hsm, j).kind = "canonical"
    BY DEF Inv, Replacing, ReplacingOK
  <2>2. \A j \in run.ids : j \in OpaqueIds
    BY <1>1 DEF Call
  <2> QED BY <2>1, <2>2
<1>5. ASSUME NEW pc \in {"delete", "erase"},
             run'.op = run.op, run'.new = run.new, run'.todo = run.todo, run'.pc = pc, run' \in Call,
             run'.ids = run.ids \ {id}, run'.link = run.link, run'.failed = failed,
             accepted' = accepted, published' = published,
             pc = "erase" => run'.ids # {}, pc = "delete" => run'.ids = {} /\ ~failed
      PROVE  Inv'
  <2>1. run' # NoRun /\ doubts' = doubts
    BY <1>5, NoRunFacts
  <2>2. HsmObjectsTypeOK'
    BY <1>2, <1>5, <2>1, Types
  <2>3. SlotFits'
    BY <1>5, <2>1 DEF SlotFits, Idle
  <2>4. Shape'
    <3>1. run.op # "none" /\ (run.op = "project" => run.new.public)
      BY DEF AttrOps, Inv, Shape
    <3> QED BY <1>2, <1>3, <1>5, <2>1, <3>1 DEF Shape, AttrOps
  <2>5. Replacing'
    <3>1. SUFFICES ASSUME run.op \in AttrOps, user'
                   PROVE  ReplacingOK(hsm', host', run') /\ (doubts = {} /\ ~failed => SureOK(hsm', host', run'))
      BY <1>5, <2>1 DEF Replacing
    <3>2. Bare(hsm, run) => Bare(hsm', run')
      BY <1>2, <1>5, <3>1 DEF Bare, Of
    <3>3. Bare(hsm, run) \/ (run.new \notin run.todo /\ \E j \in OpaqueIds : Safe(hsm, host, run, j))
      BY <3>1 DEF Inv, Replacing, ReplacingOK
    <3>4. ASSUME NEW j \in OpaqueIds, Safe(hsm, host, run, j) PROVE Safe(hsm', host', run', j)
      BY <1>5, <3>1, <3>4 DEF Safe
    <3>5. ReplacingOK(hsm', host', run')
      BY <1>4, <1>5, <3>1, <3>2, <3>3, <3>4 DEF ReplacingOK
    <3>6. ASSUME doubts = {}, ~failed PROVE SureOK(hsm', host', run')
      <4>1. SureOK(hsm, host, run) /\ On(hsm', id) = NoObject
        BY <3>1, <3>6 DEF Inv, Replacing
      <4>2. \A j \in Of(hsm', "canonical") : /\ j \in Of(hsm, "canonical") /\ j # id /\ j \in OpaqueIds
                                             /\ On(hsm', j) = On(hsm, j) /\ hsm'.opaque[j] = hsm.opaque[j]
                                             /\ host'.cached[j] = host.cached[j]
        BY <1>2, <3>1, <4>1 DEF Of
      <4>3. \A j \in Of(hsm', "canonical") :
              \/ j \in run'.ids
              \/ On(hsm', j) \in run'.todo /\ host'.cached[j] = hsm'.opaque[j]
              \/ On(hsm', j) = run'.new
        BY <1>5, <4>1, <4>2 DEF SureOK
      <4>4. Bare(hsm', run') \/ \E j \in OpaqueIds : On(hsm', j) = run'.new
        BY <1>5, <3>2, <3>3, <3>4 DEF Safe
      <4>5. \A i, j \in Of(hsm', "canonical") : On(hsm', i) = run'.new /\ On(hsm', j) = run'.new => i = j
        BY <1>5, <4>1, <4>2 DEF SureOK
      <4> QED BY <1>5, <4>3, <4>4, <4>5 DEF SureOK
    <3> QED BY <3>5, <3>6
  <2>6. Promises' /\ PublicFits'
    BY <1>1, <1>5, <2>1, GoodGoesOn
  <2>7. Discarding'
    <3>1. SUFFICES ASSUME run.op = "discard", user'
                   PROVE  /\ \A r \in run.todo : r.kind = "stored" /\ r.target \notin published
                          /\ \A j \in run.ids : On(hsm', j) # NoObject =>
                                 On(hsm', j).kind = "stored" /\ On(hsm', j).target \notin published
      BY <1>5 DEF Discarding
    <3>2. \A j \in run.ids : j \in OpaqueIds
      BY <1>1 DEF Call
    <3> QED BY <3>1, <3>2 DEF Inv, Discarding
  <2>8. Creating' /\ Destroying'
    BY <1>1, <1>5 DEF Creating, Destroying, AttrOps
  <2> QED BY <2>2, <2>3, <2>4, <2>5, <2>6, <2>7, <2>8 DEF Inv
<1>6. CASE run.ids \ {id} # {}
  <2>1. run' = [run EXCEPT !.ids = run.ids \ {id}, !.failed = failed] /\ accepted' = accepted
          /\ published' = published
    BY <1>6 DEF Erased, Promised
  <2>2. /\ run'.op = run.op /\ run'.new = run.new /\ run'.todo = run.todo /\ run'.pc = "erase"
        /\ run' \in Call /\ run'.ids = run.ids \ {id} /\ run'.link = run.link /\ run'.failed = failed
    BY <1>1, <2>1 DEF Call
  <2> QED BY <1>5, <1>6, <2>1, <2>2
<1>7. CASE run.ids \ {id} = {} /\ failed
  <2>1. Fail
    BY <1>7 DEF Erased
  <2> QED BY <1>4, <2>1, FailsSafely
<1>8. CASE run.ids \ {id} = {} /\ ~failed
  <2>1. run' = [run EXCEPT !.ids = {}, !.pc = "delete"] /\ accepted' = accepted
          /\ published' = published
    BY <1>1, <1>8 DEF Erased, Promised
  <2>2. /\ run'.op = run.op /\ run'.new = run.new /\ run'.todo = run.todo /\ run'.pc = "delete"
        /\ run' \in Call /\ run'.ids = run.ids \ {id} /\ run'.link = run.link /\ run'.failed = run.failed
    BY <1>1, <1>8, <2>1 DEF Call
  <2>3. run.failed = failed
    BY <1>1, <1>8 DEF Call
  <2> QED BY <1>5, <1>8, <2>1, <2>2, <2>3
<1> QED BY <1>6, <1>7, <1>8

LEMMA EraseKeeps ==
    ASSUME Inv, delete_metadata_objects, run.op # "destroy",
           doubts' = IF run' = NoRun THEN doubts \cup {"change"} ELSE doubts
    PROVE  Inv'
<1>0. run.pc = "erase"
  BY DEF delete_metadata_objects
<1>1. run.op \in AttrOps \cup {"discard"}
  BY <1>0, NoRunFacts, Types DEF Inv, Shape, Call, AttrOps
<1>2. /\ hsm \in Device /\ host \in Cache /\ run \in Call /\ Good(hsm)
      /\ user \in BOOLEAN /\ moved \in BOOLEAN /\ fresh \in BOOLEAN
  BY GoodNow, Types DEF Inv
<1>3. (user => ~moved) /\ (fresh => user /\ SyncedOK(hsm, host)) /\ ("change" \in doubts => "change" \in doubts')
  BY DEF Inv, SlotFits
<1>4. \A id \in run.ids : id \in OpaqueIds /\ Deleted(id) = DeletedIn(hsm, id)
  BY <1>2 DEF Call, Deleted, DeletedIn
<1>5. ASSUME NEW id \in run.ids, Present(id), Done(Deleted(id)),
             host' = forget_cached_object(host, id), Erased(id, run.failed), Changed
      PROVE  Inv'
  <2>1. user /\ hsm' = DeletedIn(hsm, id) /\ user' = user /\ moved' = moved /\ fresh' = FALSE
    BY <1>4, <1>5 DEF Done, Changed
  <2>2. Good(hsm') /\ id \in OpaqueIds /\ (On(hsm, id) # NoObject => On(hsm, id).kind # "legacy")
    BY <1>0, <1>1, <2>1, GoodErase
  <2>3. OnlyAt(hsm, hsm', id) /\ On(hsm', id) = NoObject
    BY <1>2, <2>1, <2>2, DeletedFacts
  <2>4. /\ host' \in Cache
        /\ \A j \in OpaqueIds : j # id => host'.cached[j] = host.cached[j]
        /\ host'.writes \subseteq host.writes
    BY <1>2, <1>5, <2>2, ForgetFacts
  <2>5. StoreFits'
    <3>1. StoreOK(hsm, host, doubts)
      BY <1>3, <2>1 DEF Inv, StoreFits
    <3>2. id \notin Of(hsm, "legacy") /\ id \notin Of(hsm', "legacy")
      BY <2>2, <2>3 DEF Of
    <3>3. StoreOK(hsm', host', doubts)
      BY <1>2, <1>5, <2>2, <2>3, <3>1, <3>2, ForgetKeeps
    <3> QED BY <1>3, <2>2, <3>3, StaleKeeps DEF StoreFits, Good
  <2>6. \A j \in OpaqueIds : (On(hsm', j) = On(hsm, j) /\ hsm'.opaque[j] = hsm.opaque[j])
                                 \/ (On(hsm', j) = NoObject /\ j = id)
    BY <2>3 DEF OnlyAt
  <2>7. run.failed \in BOOLEAN
    BY <1>2 DEF Call
  <2>8. /\ user' \in BOOLEAN /\ moved' \in BOOLEAN /\ fresh' \in BOOLEAN /\ (user' => user /\ ~moved')
        /\ (fresh' => user' /\ SyncedOK(hsm', host'))
        /\ run.failed \/ (user' /\ ~run.failed /\ On(hsm', id) = NoObject)
    BY <1>2, <1>3, <2>1, <2>3
  <2> QED BY <1>0, <1>1, <1>5, <2>2, <2>4, <2>5, <2>6, <2>7, <2>8, ErasedKeeps
<1>6. ASSUME NEW id \in run.ids, Erased(id, TRUE), host' = host, hsm' = hsm, user' = user, moved' = moved,
             fresh' = FALSE \/ fresh' = fresh
      PROVE  Inv'
  <2>1. StoreFits'
    BY <1>3, <1>6, StoreFailed
  <2>2. user' \in BOOLEAN /\ moved' \in BOOLEAN /\ fresh' \in BOOLEAN /\ (user' => user /\ ~moved')
          /\ (fresh' => user' /\ SyncedOK(hsm', host'))
    <3>1. user' \in BOOLEAN /\ moved' \in BOOLEAN /\ (user' => user /\ ~moved')
      BY <1>2, <1>3, <1>6
    <3>2. CASE fresh' = FALSE
      BY <3>1, <3>2
    <3>3. CASE fresh' = fresh
      BY <1>2, <1>3, <1>6, <3>1, <3>3
    <3> QED BY <1>6, <3>2, <3>3
  <2> QED BY <1>0, <1>1, <1>2, <1>6, <2>1, <2>2, ErasedKeeps
<1>7. ASSUME NEW id \in run.ids, Erased(id, TRUE), host' = host, user, hsm' \in {hsm, DeletedIn(hsm, id)},
             user' = FALSE, moved' = TRUE, fresh' = FALSE
      PROVE  Inv'
  <2>1. Good(hsm')
    BY <1>0, <1>1, <1>2, <1>7, GoodErase
  <2>2. StoreFits'
    BY <1>3, <1>7, <2>1, StoreFailed DEF Good
  <2>3. user' \in BOOLEAN /\ moved' \in BOOLEAN /\ fresh' \in BOOLEAN /\ ~user' /\ ~fresh'
    BY <1>7
  <2> QED BY <1>0, <1>1, <1>2, <1>7, <2>1, <2>2, <2>3, ErasedKeeps
<1>8. ASSUME NEW id \in run.ids, Failed(Deleted(id)), Erased(id, TRUE), Changed, UNCHANGED host
      PROVE  Inv'
  <2>1. \/ hsm' = hsm /\ user' = user /\ moved' = moved
        \/ user /\ hsm' \in {hsm, DeletedIn(hsm, id)} /\ user' = FALSE /\ moved' = TRUE
    BY <1>4, <1>8, FailedCases
  <2> QED BY <1>6, <1>7, <1>8, <2>1 DEF Changed
<1>9. ASSUME NEW id \in run.ids, Impossible, Erased(id, TRUE), UNCHANGED <<host, fresh>>
      PROVE  Inv'
  BY <1>6, <1>9 DEF Impossible
<1> QED BY <1>5, <1>8, <1>9, Zenon DEF delete_metadata_objects

-----------------------------------------------------------------------------
(* The destruction of the key.                                             *)

ShownIn(d, s) ==
    HasStored(d, s) \/ (d.live /\ s = d.seq /\ \E id \in Of(d, "canonical") : On(d, id).public)

LEMMA PublishedNow ==
    \A s : /\ Published(s) <=> ShownIn(hsm, s)
           /\ Published(s)' <=> ShownIn(hsm', s)
<1>1. \A s : Published(s) <=> ShownIn(hsm, s)
  BY Zenon DEF Published, ShownIn, Holds, HasStored, Companions, Of, Present, On
<1>2. \A s : Published(s)' <=> ShownIn(hsm', s)
  BY Zenon DEF Published, ShownIn, Holds, HasStored, Companions, Of, Present, On
<1> QED BY <1>1, <1>2

(* What the promises are when nothing is known.                            *)
LEMMA ResetKeeps ==
    ASSUME hsm' \in Device, accepted' = Held' \cup {Attributes'}, published \subseteq Sequence,
           published' = {s \in published : Published(s)'}
    PROVE  /\ accepted' \subseteq Record \cup {NoObject} /\ published' \subseteq Sequence
           /\ KeptOK(hsm', accepted') /\ CertainOK(hsm', accepted')
           /\ \A s \in published' : ShownIn(hsm', s)
<1>1. AttributesOf(hsm') \in Record
  BY AttributesType
<1>2. \A id \in Of(hsm', "canonical") : On(hsm', id) \in Record
  BY DEF Of, Device, Opaque, On
<1>3. Held' = {On(hsm', id) : id \in Of(hsm', "canonical")}
                  \cup (IF Of(hsm', "canonical") = {} THEN {AttributesOf(hsm')} ELSE {})
        /\ Attributes' = AttributesOf(hsm')
  BY Unfold
<1>4. \A s \in published' : ShownIn(hsm', s)
  BY PublishedNow
<1> QED BY <1>1, <1>2, <1>3, <1>4 DEF KeptOK, CertainOK

LEMMA DestroyReturns ==
    ASSUME Inv, run.op = "destroy", hsm' \in Device, host' \in Cache, StoreFits',
           user' \in BOOLEAN, moved' \in BOOLEAN, fresh' \in BOOLEAN, user' => ~moved',
           fresh' => user' /\ SyncedOK(hsm', host'),
           user' /\ ~(run.pc = "restore" /\ hsm' = hsm) =>
               /\ hsm'.live => KeptOK(hsm', accepted) /\ CertainOK(hsm', accepted)
               /\ \A s \in published : ShownIn(hsm', s),
           Return(FALSE), doubts' = IF run' = NoRun THEN doubts \cup {"change"} ELSE doubts
    PROVE  Inv'
<1>1. run' = NoRun /\ doubts' = doubts \cup {"change"}
  BY DEF Return
<1>2. doubts \subseteq {"change", "hidden"} /\ accepted \subseteq Record \cup {NoObject}
        /\ published \subseteq Sequence
  BY Types DEF Inv
<1>3. /\ accepted' \subseteq Record \cup {NoObject} /\ published' \subseteq Sequence
      /\ hsm'.live => KeptOK(hsm', accepted') /\ CertainOK(hsm', accepted')
      /\ \A s \in published' : ShownIn(hsm', s)
  <2>1. CASE ~user' \/ (run.pc = "restore" /\ hsm' = hsm)
    <3>1. accepted' = Held' \cup {Attributes'} /\ published' = {s \in published : Published(s)'}
      BY <2>1, Zenon DEF Return
    <3> QED BY <1>2, <3>1, ResetKeeps
  <2>2. CASE ~(~user' \/ (run.pc = "restore" /\ hsm' = hsm))
    <3>1. accepted' = accepted /\ published' = published
      BY <2>2 DEF Return
    <3> QED BY <1>2, <2>2, <3>1
  <2> QED BY <2>1, <2>2
<1>4. HsmObjectsTypeOK'
  BY <1>1, <1>2, <1>3, NoRunFacts, Types
<1> QED BY <1>1, <1>3, <1>4, IdleInv DEF ShownIn

LEMMA DestroyGoesOn ==
    ASSUME Inv, hsm' \in Device, host' \in Cache, StoreFits',
           user' \in BOOLEAN, moved' \in BOOLEAN, fresh' \in BOOLEAN, user' => ~moved',
           fresh' => user' /\ SyncedOK(hsm', host'),
           run' \in Call, run'.op = "destroy", accepted' = accepted, published' = published,
           doubts' = IF run' = NoRun THEN doubts \cup {"change"} ELSE doubts,
           run'.pc \in {"unlink", "standalone", "native", "undo", "restore", "erase", "refresh"},
           run'.pc \in {"unlink", "standalone", "native", "refresh"} => user',
           run'.pc = "erase" => run'.ids # {}, run'.pc # "erase" => ~run'.failed,
           Destroying', PublicFits'
    PROVE  Inv'
<1>1. run' # NoRun /\ doubts' = doubts
  BY NoRunFacts
<1>2. HsmObjectsTypeOK'
  BY <1>1, Types DEF Inv
<1>3. SlotFits'
  BY <1>1 DEF SlotFits, Idle
<1>4. Shape'
  BY <1>1 DEF Shape, AttrOps
<1>5. Replacing' /\ Promises' /\ Discarding' /\ Creating'
  BY DEF Replacing, Promises, Discarding, Creating, AttrOps
<1> QED BY <1>2, <1>3, <1>4, <1>5 DEF Inv

LEMMA DiscoverSynced ==
    ASSUME hsm \in Device, host \in Cache, DeviceOK(hsm), StoreOK(hsm, host, doubts), SyncedOK(hsm, host)
    PROVE  SyncedOK(hsm, discover_objects(host))
<1> DEFINE g == discover_objects(host)
<1>1. /\ g.known = host.known
      /\ \A id \in OpaqueIds : Present(id) => g.cached[id] = hsm.opaque[id]
      /\ LinkedIn(g) = IF hsm.live THEN Companion(hsm) ELSE {}
      /\ g.links = {[id |-> id, seq |-> hsm.opaque[id].seq] : id \in LinkedIn(g)}
      /\ hsm.live => g.key = hsm.seq
  BY DiscoverFacts
<1> HIDE DEF g
<1>2. CurrentOf(g) = CurrentOf(host)
  BY <1>1 DEF CurrentOf
<1>3. \A id \in OpaqueIds : On(hsm, id) # NoObject => g.cached[id] = hsm.opaque[id]
  BY <1>1 DEF Present, On
<1> QED BY <1>1, <1>2, <1>3 DEF SyncedOK, Companion, g

(* What the slot knows of a key with a public aspect.                      *)
LEMMA CurrentPublic ==
    ASSUME hsm \in Device, host \in Cache, StoreOK(hsm, host, doubts), CurrentOf(host).public,
           host.known.seq # 0
    PROVE  /\ host.known.record \in Record /\ host.known.record.kind = "canonical"
           /\ host.known.record.target = hsm.seq /\ host.known.record.public
           /\ host.known.seq = hsm.seq /\ hsm.live
<1>1. host.known.record # NoObject
  BY DEF CurrentOf, Metadata
<1>2. host.known.record \in Record
  BY <1>1 DEF Cache
<1>3. host.known.record.public
  BY <1>1, <1>2 DEF CurrentOf, Record
<1>4. KeyOK(hsm, host) /\ (host.known = Entry(0, NoObject) => host.known.seq = 0)
  BY DEF StoreOK, Entry
<1> QED BY <1>1, <1>2, <1>3, <1>4 DEF KeyOK, Record

LEMMA ListKeeps ==
    ASSUME Inv, list, doubts' = IF run' = NoRun THEN doubts \cup {"change"} ELSE doubts
    PROVE  Inv'
<1>0. run.pc = "list"
  BY DEF list
<1>1. run.op = "destroy" /\ user /\ ~moved /\ ~run.failed
  BY <1>0, NoRunFacts, Types DEF Inv, Shape, Call, AttrOps, SlotFits
<1>2. /\ hsm \in Device /\ host \in Cache /\ run \in Call /\ user \in BOOLEAN /\ moved \in BOOLEAN
      /\ fresh \in BOOLEAN /\ DeviceOK(hsm) /\ StoreOK(hsm, host, doubts)
      /\ published \subseteq Sequence
  BY <1>1, Types DEF Inv, StoreFits
<1>3. /\ hsm.live /\ run.link = NoObject /\ host.known.seq # 0 /\ CurrentOf(host).public
      /\ KeptOK(hsm, accepted) /\ CertainOK(hsm, accepted)
      /\ \A id \in run.ids : On(hsm, id) # NoObject => On(hsm, id).kind = "canonical"
  BY <1>0, <1>1 DEF Inv, Destroying
<1>4. ASSUME NEW s \in published
      PROVE  \/ HasStored(hsm, s)
             \/ s = hsm.seq /\ doubts = {} /\ \E id \in Of(hsm, "canonical") : On(hsm, id).public
  BY <1>0, <1>1, <1>3 DEF Inv, PublicFits, PublicOK
<1>5. \A s \in published : ShownIn(hsm, s)
  BY <1>3, <1>4 DEF ShownIn
<1> DEFINE now == discover_objects(host)
<1>6. /\ now \in Cache /\ now.known = host.known /\ StoreOK(hsm, now, {})
      /\ \A id \in OpaqueIds : Present(id) => now.cached[id] = hsm.opaque[id]
  BY <1>2, DiscoverFacts
<1>7. /\ StoreOK(hsm, now, doubts) /\ (fresh => user /\ SyncedOK(hsm, now))
      /\ StoreOK(hsm, now, doubts \cup {"change"})
  BY <1>2, <1>6, StaleKeeps, DiscoverSynced DEF Inv, SlotFits
<1> DEFINE same == {id \in run.ids : now.cached[id].seq = host.cached[id].seq}
           linked == {id \in same : now.cached[id].record = host.known.record}
<1> HIDE DEF now
<1>8. ASSUME Done(hsm), host' = now, UNCHANGED fresh, NEW id \in linked,
             run' = [run EXCEPT !.pc = "unlink", !.ids = @ \ {id},
                                !.link = [id |-> id, record |-> host.known.record],
                                !.existed = CachedWith(now, Stored(host.known.seq)) # {}],
             Promised
      PROVE  Inv'
  <2>1. /\ hsm' = hsm /\ user' = user /\ moved' = moved /\ fresh' = fresh /\ accepted' = accepted
        /\ published' = published
    BY <1>8 DEF Done, Promised
  <2>2. /\ host.known.record \in Record /\ host.known.record.kind = "canonical"
        /\ host.known.record.target = hsm.seq /\ host.known.record.public
        /\ host.known.seq = hsm.seq /\ host.known.record # NoObject
    BY <1>2, <1>3, CurrentPublic, RecordFacts
  <2>3. id \in run.ids /\ id \in OpaqueIds /\ now.cached[id].record = host.known.record
    BY <1>2, <1>8 DEF Call
  <2>4. On(hsm, id) = host.known.record
    BY <1>6, <2>2, <2>3 DEF StoreOK, CachedOK, On
  <2>5. id \in Of(hsm, "canonical")
    BY <2>2, <2>3, <2>4 DEF Of
  <2> DEFINE existed == CachedWith(now, Stored(host.known.seq)) # {}
  <2>6. existed <=> HasStored(hsm, hsm.seq)
    <3>1. Stored(hsm.seq) # NoObject
      BY <1>2, RecordFacts DEF Device
    <3>2. ASSUME NEW j \in OpaqueIds PROVE now.cached[j].record = Stored(hsm.seq) <=> On(hsm, j) = Stored(hsm.seq)
      <4>1. now.cached[j].record # NoObject => now.cached[j] = hsm.opaque[j]
        BY <1>6 DEF StoreOK, CachedOK
      <4>2. On(hsm, j) # NoObject => now.cached[j] = hsm.opaque[j]
        BY <1>6 DEF Present, On
      <4> QED BY <3>1, <4>1, <4>2 DEF On
    <3> QED BY <2>2, <3>2 DEF CachedWith, HasStored
  <2>7. /\ run' \in Call /\ run'.op = "destroy" /\ run'.pc = "unlink" /\ run'.ids = run.ids \ {id}
        /\ run'.link.id = id /\ run'.link.record = host.known.record /\ run'.link # NoObject
        /\ run'.existed = existed /\ run'.failed = run.failed
    <3>1. [id |-> id, record |-> host.known.record] \in [id : OpaqueIds, record : Record]
            /\ [id |-> id, record |-> host.known.record] # NoObject
      BY <2>2, <2>3, RecordFacts
    <3>2. existed \in BOOLEAN
      OBVIOUS
    <3> HIDE DEF existed
    <3> QED BY <1>1, <1>2, <1>8, <3>1, <3>2 DEF Call, existed
  <2> HIDE DEF existed
  <2>8. LinkOK(hsm, run', accepted)
    <3>1. host.known.record \in accepted /\ \A j \in Of(hsm, "canonical") : On(hsm, j) \in accepted
      BY <1>3, <2>4, <2>5 DEF KeptOK
    <3>2. ASSUME NEW j \in Of(hsm, "canonical"), j # id PROVE NoObject \in accepted \/ Native(hsm) \in accepted
      BY <1>2, <1>3, <2>5, <3>2, AttributesMany DEF CertainOK
    <3>3. run'.existed => \E j \in OpaqueIds : j # id /\ On(hsm, j) = Stored(hsm.seq)
      BY <2>2, <2>4, <2>6, <2>7 DEF HasStored, Stored
    <3>4. \/ NoObject \in accepted
          \/ Of(hsm, "canonical") \ {id} = {}
          \/ Of(hsm, "canonical") \ {id} # {} /\ Native(hsm) \in accepted
      BY <3>2
    <3> QED BY <2>2, <2>4, <2>6, <2>7, <3>1, <3>3, <3>4 DEF LinkOK
  <2>9. Destroying'
    BY <1>1, <1>3, <2>1, <2>7, <2>8 DEF Destroying
  <2>10. PublicFits'
    <3>1. SUFFICES ASSUME NEW s \in published PROVE PublicOK(hsm, run', doubts # {}, s)
      BY <2>1, <2>7, NoRunFacts DEF PublicFits
    <3> QED BY <1>3, <1>4, <2>7 DEF PublicOK, AttrOps
  <2>11. StoreFits'
    BY <1>2, <1>7, <1>8, <2>1, <2>7, NoRunFacts DEF StoreFits
  <2>12. /\ user' \in BOOLEAN /\ moved' \in BOOLEAN /\ fresh' \in BOOLEAN /\ (user' => ~moved') /\ user'
         /\ (fresh' => user' /\ SyncedOK(hsm', host')) /\ ~run'.failed
    BY <1>1, <1>2, <1>7, <1>8, <2>1, <2>7
  <2> QED BY <1>2, <1>6, <1>8, <2>1, <2>7, <2>9, <2>10, <2>11, <2>12, DestroyGoesOn
<1>9. ASSUME Done(hsm), host' = now, UNCHANGED fresh, Return(FALSE)
      PROVE  Inv'
  <2>1. /\ hsm' = hsm /\ user' = user /\ moved' = moved /\ fresh' = fresh
        /\ doubts' = doubts \cup {"change"}
    BY <1>9 DEF Done, Return
  <2>2. StoreFits'
    BY <1>2, <1>7, <1>9, <2>1 DEF StoreFits
  <2>3. /\ user' \in BOOLEAN /\ moved' \in BOOLEAN /\ fresh' \in BOOLEAN /\ (user' => ~moved')
        /\ (fresh' => user' /\ SyncedOK(hsm', host'))
    BY <1>1, <1>2, <1>7, <1>9, <2>1
  <2> QED BY <1>1, <1>2, <1>3, <1>5, <1>6, <1>9, <2>1, <2>2, <2>3, DestroyReturns
<1>10. ASSUME ListingFailed PROVE Inv'
  <2>1. PICK ids \in SUBSET OpaqueIds, at \in OpaqueIds :
            host' = [Listed(host, ids) EXCEPT !.cached[at] =
                IF Present(at) /\ @.seq # hsm.opaque[at].seq THEN Entry(0, NoObject) ELSE @]
    BY <1>10 DEF ListingFailed
  <2>2. host' \in Cache /\ StoreOK(hsm, host', doubts)
    BY <1>2, <2>1, ListingKeeps
  <2>3. hsm' = hsm /\ fresh' = FALSE /\ Return(FALSE) /\ doubts' = doubts \cup {"change"}
    BY <1>10, FailedCases DEF ListingFailed, Changed, Return
  <2>4. user' \in BOOLEAN /\ moved' \in BOOLEAN /\ (user' => ~moved')
    <3>1. CASE user' = user /\ moved' = moved
      BY <1>1, <1>2, <3>1
    <3>2. CASE user' = FALSE /\ moved' = TRUE
      BY <3>2, Zenon
    <3> QED BY <1>10, <3>1, <3>2, FailedCases DEF ListingFailed
  <2>5. StoreFits'
    BY <1>2, <2>2, <2>3, StaleKeeps DEF StoreFits
  <2>6. fresh' \in BOOLEAN /\ (fresh' => user' /\ SyncedOK(hsm', host'))
    BY <2>3
  <2> QED BY <1>1, <1>2, <1>3, <1>5, <2>2, <2>3, <2>4, <2>5, <2>6, DestroyReturns
<1> QED BY <1>8, <1>9, <1>10, Zenon DEF list, now

LEMMA DestroyTypes ==
    ASSUME Inv, run.op = "destroy"
    PROVE  /\ hsm \in Device /\ host \in Cache /\ run \in Call /\ user \in BOOLEAN /\ moved \in BOOLEAN
           /\ fresh \in BOOLEAN /\ DeviceOK(hsm) /\ published \subseteq Sequence /\ hsm.seq \in Sequence
           /\ (user \/ moved) /\ (user => ~moved)
           /\ ~moved => StoreOK(hsm, host, doubts)
           /\ fresh => user /\ SyncedOK(hsm, host)
           /\ run.link # NoObject => run.link.id \in OpaqueIds /\ run.link.record \in Record
           /\ run # NoRun
<1>1. run \in Call /\ run # NoRun
  BY Types, NoRunFacts DEF Inv
<1>2. run.link # NoObject => run.link.id \in OpaqueIds /\ run.link.record \in Record
  BY <1>1 DEF Call
<1> QED BY <1>1, <1>2, Types DEF Inv, StoreFits, SlotFits, Destroying, Device

(* Only the object under the ID of the companion that went has changed.    *)
LEMMA LinkStays ==
    ASSUME Inv, run.op = "destroy", user, hsm.live, run.link # NoObject, run.pc # "unlink",
           NEW e, OnlyAt(hsm, e, run.link.id), NEW r, r.op = "destroy", r.link = run.link, r.ids = run.ids,
           r.existed = run.existed, r.pc \in {"standalone", "native", "undo", "restore"},
           r.pc \in {"standalone", "undo"} => ~r.existed,
           r.pc = "native" /\ ~r.existed => On(e, run.link.id) = Stored(hsm.seq),
           On(e, run.link.id) = NoObject \/ (~run.existed /\ On(e, run.link.id) = Stored(hsm.seq))
    PROVE  LinkOK(e, r, accepted) /\ SameCompanions(hsm, e)
<1>1. LinkOK(hsm, run, accepted)
  BY DEF Inv, Destroying
<1>2. hsm \in Device /\ run.link.id \in OpaqueIds /\ Stored(hsm.seq) # NoObject
  BY DestroyTypes, RecordFacts
<1>3. On(hsm, run.link.id) = NoObject \/ On(hsm, run.link.id) = Stored(hsm.seq)
  BY <1>1 DEF LinkOK
<1>4. SameCompanions(hsm, e)
  BY <1>2, <1>3, StoredChanges DEF Stored
<1>5. e \in Device /\ e.seq = hsm.seq
  BY DEF OnlyAt
<1>6. /\ Of(e, "canonical") = Of(hsm, "canonical") /\ Native(e) = Native(hsm)
      /\ \A j \in Of(hsm, "canonical") : On(e, j) = On(hsm, j)
  BY <1>2, <1>4, <1>5, AttributesSame
<1>7. r.existed => \E id \in OpaqueIds : id # r.link.id /\ On(e, id) = Stored(e.seq)
  BY <1>1, <1>5 DEF LinkOK, OnlyAt
<1> QED BY <1>1, <1>4, <1>5, <1>6, <1>7 DEF LinkOK

LEMMA PublicStays ==
    ASSUME Inv, run.op = "destroy", hsm.live, run.link # NoObject,
           NEW e, OnlyAt(hsm, e, run.link.id),
           \A s \in Sequence : s # hsm.seq => On(hsm, run.link.id) # Stored(s),
           NEW r, r.op = "destroy", r.link = run.link, r.pc # "unlink", NEW unsure
    PROVE  \A s \in published : PublicOK(e, r, unsure, s)
<1>1. SUFFICES ASSUME NEW s \in published PROVE PublicOK(e, r, unsure, s)
  OBVIOUS
<1>2. hsm \in Device /\ run.link.id \in OpaqueIds /\ s \in Sequence /\ e.live = hsm.live /\ e.seq = hsm.seq
  BY DestroyTypes DEF OnlyAt
<1>3. HasStored(hsm, s) \/ s = hsm.seq
  BY DEF Inv, PublicFits, PublicOK
<1>4. CASE s = hsm.seq
  BY <1>2, <1>4 DEF PublicOK
<1>5. CASE s # hsm.seq
  BY <1>2, <1>3, <1>5, StoredStays DEF PublicOK
<1> QED BY <1>4, <1>5

LEMMA UnlinkKeeps ==
    ASSUME Inv, unlink, doubts' = IF run' = NoRun THEN doubts \cup {"change"} ELSE doubts
    PROVE  Inv'
<1> DEFINE id == run.link.id
<1>0. run.pc = "unlink"
  BY DEF unlink
<1>1. run.op = "destroy" /\ user /\ ~run.failed
  BY <1>0, NoRunFacts, Types DEF Inv, Shape, Call, AttrOps
<1>2. /\ hsm \in Device /\ host \in Cache /\ run \in Call /\ user \in BOOLEAN /\ moved \in BOOLEAN
      /\ fresh \in BOOLEAN /\ DeviceOK(hsm) /\ hsm.seq \in Sequence /\ published \subseteq Sequence
      /\ ~moved /\ StoreOK(hsm, host, doubts)
  BY <1>1, DestroyTypes
<1>3. hsm.live /\ run.link # NoObject
  BY <1>0, <1>1 DEF Inv, Destroying
<1>4. LinkOK(hsm, run, accepted) /\ id \in OpaqueIds /\ run.link.record \in Record
        /\ run.link.record # NoObject
  BY <1>1, <1>3, DestroyTypes, RecordFacts DEF Inv, Destroying
<1>5. id \in Of(hsm, "canonical") /\ On(hsm, id) = run.link.record
  BY <1>0, <1>4 DEF LinkOK, Of
<1> DEFINE e == DeletedIn(hsm, id)
<1>6. OnlyAt(hsm, e, id) /\ On(e, id) = NoObject /\ Deleted(id) = e
  BY <1>2, <1>4, DeletedFacts DEF Deleted, DeletedIn
<1> HIDE DEF e
<1>7. /\ e \in Device /\ e.live = hsm.live /\ e.seq = hsm.seq /\ DeviceOK(e)
      /\ \A j \in OpaqueIds : j # id => On(e, j) = On(hsm, j)
  BY <1>2, <1>4, <1>6, DeviceKept DEF OnlyAt
<1>8. ASSUME Present(id), Done(Deleted(id)), host' = forget_cached_object(host, id),
             Goto(IF run.existed THEN "native" ELSE "standalone"), Promised, Changed
      PROVE  Inv'
  <2>1. /\ hsm' = e /\ user' = user /\ moved' = moved /\ fresh' = FALSE /\ accepted' = accepted
        /\ published' = published
    BY <1>6, <1>8 DEF Done, Promised, Changed
  <2>2. /\ run' \in Call /\ run'.pc = (IF run.existed THEN "native" ELSE "standalone")
        /\ run'.op = "destroy" /\ run'.ids = run.ids /\ run'.link = run.link
        /\ run'.existed = run.existed /\ run'.failed = run.failed
    BY <1>1, <1>2, <1>8, RunFields DEF Goto
  <2>3. host' \in Cache
    BY <1>2, <1>4, <1>8, ForgetFacts
  <2>4. StoreFits'
    <3>1. id \notin Of(hsm, "legacy") /\ id \notin Of(e, "legacy")
      BY <1>5, <1>6 DEF Of
    <3>2. StoreOK(e, host', doubts)
      BY <1>2, <1>4, <1>6, <1>8, <3>1, ForgetKeeps
    <3> QED BY <1>7, <2>1, <2>2, <3>2, NoRunFacts DEF StoreFits
  <2>5. LinkOK(e, run', accepted)
    <3>1. \A j \in Of(e, "canonical") : j \in Of(hsm, "canonical") /\ On(e, j) = On(hsm, j)
      BY <1>6, <1>7 DEF Of
    <3>2. Of(e, "canonical") \ {id} = Of(hsm, "canonical") \ {id}
      BY <1>7 DEF Of
    <3>3. Native(e) = Native(hsm)
      BY <1>7 DEF Native
    <3>4. run'.existed => \E j \in OpaqueIds : j # id /\ On(e, j) = Stored(e.seq)
      BY <1>4, <1>7, <2>2 DEF LinkOK
    <3> QED BY <1>4, <1>6, <1>7, <2>2, <3>1, <3>2, <3>3, <3>4 DEF LinkOK
  <2>6. Destroying'
    <3>1. \A j \in run.ids : On(e, j) # NoObject => On(e, j).kind = "canonical"
      <4>1. \A j \in run.ids : On(hsm, j) # NoObject => On(hsm, j).kind = "canonical"
        BY <1>1 DEF Inv, Destroying
      <4>2. \A j \in run.ids : j \in OpaqueIds
        BY <1>2 DEF Call
      <4> QED BY <1>6, <1>7, <4>1, <4>2
    <3> QED BY <1>1, <1>3, <1>7, <2>1, <2>2, <2>5, <3>1 DEF Destroying
  <2>7. PublicFits'
    <3>1. \A s \in Sequence : s # hsm.seq => On(hsm, id) # Stored(s)
      BY <1>5 DEF Of, Stored
    <3>2. run'.pc # "unlink"
      BY <2>2
    <3>3. \A s \in published : PublicOK(e, run', doubts' # {}, s)
      BY <1>1, <1>3, <1>6, <2>2, <3>1, <3>2, PublicStays
    <3> QED BY <2>1, <3>3 DEF PublicFits
  <2>8. /\ user' \in BOOLEAN /\ moved' \in BOOLEAN /\ fresh' \in BOOLEAN /\ (user' => ~moved') /\ user'
        /\ (fresh' => user' /\ SyncedOK(hsm', host')) /\ ~run'.failed
    BY <1>1, <1>2, <2>1, <2>2
  <2> QED BY <1>7, <2>1, <2>2, <2>3, <2>4, <2>6, <2>7, <2>8, DestroyGoesOn
<1>9. ~(~Present(id))
  BY <1>4, <1>5 DEF Present, On
<1>10. ASSUME Failed(Deleted(id)), Return(FALSE), Changed, UNCHANGED host
       PROVE  Inv'
  <2>1. \/ hsm' = hsm /\ user' = user /\ moved' = moved
        \/ hsm' \in {hsm, e} /\ user' = FALSE /\ moved' = TRUE
    BY <1>6, <1>10, FailedCases
  <2>2. fresh' = FALSE /\ host' = host /\ hsm' \in Device /\ DeviceOK(hsm')
    BY <1>2, <1>7, <1>10, <2>1 DEF Changed
  <2>3. StoreFits'
    BY <2>1, <2>2, StoreFailed
  <2>4. user' \in BOOLEAN /\ moved' \in BOOLEAN /\ (user' => ~moved') /\ (user' => hsm' = hsm)
    <3>1. CASE user' = user /\ moved' = moved /\ hsm' = hsm
      BY <1>1, <1>2, <3>1
    <3>2. CASE user' = FALSE /\ moved' = TRUE
      BY <3>2, Zenon
    <3> QED BY <2>1, <3>1, <3>2
  <2>5. KeptOK(hsm, accepted)
    BY <1>4, <1>5 DEF LinkOK, KeptOK
  <2>6. CertainOK(hsm, accepted)
    <3>1. CASE NoObject \in accepted
      BY <3>1 DEF CertainOK
    <3>2. CASE Of(hsm, "canonical") \ {id} = {}
      <4>1. Of(hsm, "canonical") = {id}
        BY <1>5, <3>2
      <4> QED BY <1>2, <1>4, <1>5, <4>1, AttributesOne DEF LinkOK, CertainOK
    <3>3. CASE Of(hsm, "canonical") \ {id} # {} /\ Native(hsm) \in accepted
      BY <1>2, <1>5, <3>3, AttributesMany DEF CertainOK
    <3> QED BY <1>4, <3>1, <3>2, <3>3 DEF LinkOK
  <2>7. \A s \in published : ShownIn(hsm, s)
    BY <1>0, <1>1 DEF Inv, PublicFits, PublicOK, ShownIn
  <2>8. fresh' \in BOOLEAN /\ (fresh' => user' /\ SyncedOK(hsm', host'))
    BY <2>2
  <2> QED BY <1>1, <1>2, <1>10, <2>2, <2>3, <2>4, <2>5, <2>6, <2>7, <2>8, DestroyReturns
<1> QED BY <1>8, <1>9, <1>10, Zenon DEF unlink

LEMMA StandaloneKeeps ==
    ASSUME Inv, write_standalone_storage_object,
           doubts' = IF run' = NoRun THEN doubts \cup {"change"} ELSE doubts
    PROVE  Inv'
<1> DEFINE id == run.link.id
           record == Stored(run.link.record.target)
<1>0. run.pc = "standalone" /\ accepted' = accepted /\ published' = published
  BY DEF write_standalone_storage_object, Promised
<1>1. run.op = "destroy" /\ user /\ ~run.failed
  BY <1>0, NoRunFacts, Types DEF Inv, Shape, Call, AttrOps
<1>2. /\ hsm \in Device /\ host \in Cache /\ run \in Call /\ user \in BOOLEAN /\ moved \in BOOLEAN
      /\ fresh \in BOOLEAN /\ DeviceOK(hsm) /\ hsm.seq \in Sequence /\ published \subseteq Sequence
      /\ ~moved /\ StoreOK(hsm, host, doubts) /\ (fresh => user /\ SyncedOK(hsm, host))
  BY <1>1, DestroyTypes
<1>3. hsm.live /\ run.link # NoObject
  BY <1>0, <1>1 DEF Inv, Destroying
<1>4. LinkOK(hsm, run, accepted) /\ id \in OpaqueIds
  BY <1>1, <1>3, DestroyTypes DEF Inv, Destroying
<1>5. record = Stored(hsm.seq) /\ record \in Record /\ record # NoObject /\ ~run.existed
        /\ record.kind = "stored" /\ record.target = hsm.seq
  BY <1>0, <1>2, <1>4, RecordFacts DEF LinkOK, Stored
<1>6. On(hsm, id) = NoObject \/ On(hsm, id) = record
  BY <1>0, <1>4, <1>5 DEF LinkOK
<1> DEFINE e == PutIn(hsm, id, record)
<1>7. OnlyAt(hsm, e, id) /\ On(e, id) = record /\ Put(id, record) = e
  BY <1>2, <1>4, <1>5, PutFacts DEF Put, PutIn
<1> HIDE DEF e, record
<1>8. /\ e \in Device /\ e.live = hsm.live /\ e.seq = hsm.seq
      /\ \A j \in OpaqueIds : j # id => On(e, j) = On(hsm, j)
  BY <1>7 DEF OnlyAt
<1>8a. DeviceOK(e)
  <2>1. hsm.seq \in Nat /\ hsm.seq >= 1
    BY <1>2 DEF DeviceOK, Sequence
  <2> QED BY <1>2, <1>4, <1>5, <1>7, <1>8, <2>1, DeviceKept
<1>8b. \A s \in Sequence : s # hsm.seq => On(hsm, id) # Stored(s)
  BY <1>5, <1>6, RecordFacts DEF Stored
<1>8c. OnlyAt(hsm, hsm, id)
  BY <1>2 DEF OnlyAt
<1>9. ASSUME NEW pc \in {"native", "restore"}, run' = [run EXCEPT !.pc = pc], hsm' \in {hsm, e},
             host' \in Cache, user' \in BOOLEAN, moved' \in BOOLEAN, fresh' \in BOOLEAN,
             user' => ~moved', user' \/ moved', fresh' => user' /\ SyncedOK(hsm', host'), StoreFits',
             pc = "native" => user' /\ hsm' = e
      PROVE  Inv'
  <2>1. /\ run' \in Call /\ run'.pc = pc /\ run'.op = "destroy" /\ run'.ids = run.ids
        /\ run'.link = run.link /\ run'.existed = run.existed /\ run'.failed = run.failed
    BY <1>1, <1>2, <1>9, RunFields
  <2>2. OnlyAt(hsm, hsm', id) /\ (On(hsm', id) = NoObject \/ On(hsm', id) = Stored(hsm.seq))
          /\ hsm'.live /\ hsm' \in Device
    BY <1>2, <1>3, <1>5, <1>6, <1>7, <1>8, <1>8c, <1>9
  <2>3. LinkOK(hsm', run', accepted)
    BY <1>0, <1>1, <1>3, <1>5, <1>7, <1>9, <2>1, <2>2, LinkStays
  <2>4. PublicFits'
    <3>1. \A s \in published : PublicOK(hsm', run', doubts' # {}, s)
      BY <1>1, <1>3, <1>8b, <1>9, <2>1, <2>2, PublicStays
    <3> QED BY <1>0, <3>1 DEF PublicFits
  <2>5. Destroying'
    <3>1. \A j \in run.ids : On(hsm', j) # NoObject => On(hsm', j).kind = "canonical"
      <4>1. \A j \in run.ids : On(hsm, j) # NoObject => On(hsm, j).kind = "canonical"
        BY <1>1 DEF Inv, Destroying
      <4>2. \A j \in run.ids : j \in OpaqueIds /\ j # id
        BY <1>2, <1>4 DEF Call, LinkOK
      <4> QED BY <1>8, <1>9, <4>1, <4>2
    <3> QED BY <1>0, <1>3, <1>9, <2>1, <2>2, <2>3, <3>1 DEF Destroying
  <2> QED BY <1>0, <1>1, <1>9, <2>1, <2>2, <2>4, <2>5, DestroyGoesOn
<1>10. ASSUME Takes(id), Done(Put(id, record)),
              host' = Written(forget_cached_object(host, id), record, id),
              Goto("native"), Changed
       PROVE  Inv'
  <2>1. hsm' = e /\ user' = user /\ moved' = moved /\ fresh' = FALSE /\ run' = [run EXCEPT !.pc = "native"]
    BY <1>7, <1>10 DEF Done, Changed, Goto
  <2>2. forget_cached_object(host, id) \in Cache
    BY <1>2, <1>4, ForgetFacts
  <2>3. host' \in Cache
    BY <1>4, <1>5, <1>10, <2>2, WrittenFacts
  <2>4. StoreFits'
    <3>1. id \notin Of(hsm, "legacy") /\ id \notin Of(e, "legacy")
      BY <1>5, <1>6, <1>7 DEF Of
    <3>2. StoreOK(e, forget_cached_object(host, id), doubts)
      BY <1>2, <1>4, <1>7, <3>1, ForgetKeeps
    <3>3. StoreOK(e, host', doubts)
      BY <1>4, <1>5, <1>7, <1>8, <1>10, <2>2, <3>2, WrittenKeeps
    <3> QED BY <1>8a, <2>1, <3>3, StaleKeeps DEF StoreFits
  <2>5. user' \in BOOLEAN /\ moved' \in BOOLEAN /\ fresh' \in BOOLEAN /\ user' /\ ~moved' /\ ~fresh'
    BY <1>1, <1>2, <2>1
  <2> QED BY <1>9, <2>1, <2>3, <2>4, <2>5
<1>11. ASSUME Impossible, Goto("restore"), UNCHANGED <<host, fresh>>
       PROVE  Inv'
  <2>1. /\ hsm' = hsm /\ user' = user /\ moved' = moved /\ fresh' = fresh /\ host' = host
        /\ run' = [run EXCEPT !.pc = "restore"]
    BY <1>11 DEF Impossible, Goto
  <2>2. StoreFits'
    BY <2>1, StoreFailed
  <2> QED BY <1>1, <1>2, <1>9, <2>1, <2>2
<1>12. ASSUME Failed(IF Takes(id) THEN Put(id, record) ELSE hsm), Goto("restore"), Changed, UNCHANGED host
       PROVE  Inv'
  <2> DEFINE after == IF Takes(id) THEN Put(id, record) ELSE hsm
  <2>1. after \in {hsm, e} /\ Failed(after)
    BY <1>7, <1>12
  <2> HIDE DEF after
  <2>2. \/ hsm' = hsm /\ user' = user /\ moved' = moved
        \/ hsm' \in {hsm, after} /\ user' = FALSE /\ moved' = TRUE
    BY <2>1, FailedCases
  <2>3. fresh' = FALSE /\ host' = host /\ hsm' \in {hsm, e} /\ DeviceOK(hsm')
          /\ run' = [run EXCEPT !.pc = "restore"]
    BY <1>2, <1>8a, <1>12, <2>1, <2>2 DEF Changed, Goto
  <2>4. StoreFits'
    BY <2>2, <2>3, StoreFailed
  <2>5. user' \in BOOLEAN /\ moved' \in BOOLEAN /\ (user' => ~moved') /\ (user' \/ moved')
    <3>1. CASE user' = user /\ moved' = moved
      BY <1>1, <1>2, <3>1
    <3>2. CASE user' = FALSE /\ moved' = TRUE
      BY <3>2, Zenon
    <3> QED BY <2>2, <3>1, <3>2
  <2>6. fresh' \in BOOLEAN /\ ~fresh'
    BY <2>3
  <2> QED BY <1>2, <1>9, <2>3, <2>4, <2>5, <2>6
<1> QED BY <1>10, <1>11, <1>12, Zenon DEF write_standalone_storage_object, record

(* Before the key is deleted its public key has a record of its own.       *)
LEMMA NativeStored ==
    ASSUME Inv, run.op = "destroy", run.pc = "native"
    PROVE  user /\ hsm.live /\ \A s \in published : HasStored(hsm, s)
<1>1. user
  BY DEF Inv, Shape
<1>2. hsm.live
  BY <1>1 DEF Inv, Destroying
<1>3. run.link # NoObject => HasStored(hsm, hsm.seq)
  <2>1. run.link # NoObject => LinkOK(hsm, run, accepted) /\ run.link.id \in OpaqueIds
    BY <1>1, <1>2, DestroyTypes DEF Inv, Destroying
  <2> QED BY <2>1 DEF LinkOK, HasStored
<1> QED BY <1>1, <1>2, <1>3 DEF Inv, PublicFits, PublicOK

LEMMA NativeKeeps ==
    ASSUME Inv, delete_native, doubts' = IF run' = NoRun THEN doubts \cup {"change"} ELSE doubts
    PROVE  Inv'
<1>0. run.pc = "native"
  BY DEF delete_native
<1>1. run.op = "destroy" /\ ~run.failed
  BY <1>0, NoRunFacts, Types DEF Inv, Shape, Call, AttrOps
<1>2. /\ hsm \in Device /\ host \in Cache /\ run \in Call /\ user \in BOOLEAN /\ moved \in BOOLEAN
      /\ fresh \in BOOLEAN /\ DeviceOK(hsm) /\ hsm.seq \in Sequence /\ published \subseteq Sequence
      /\ user /\ hsm.live /\ \A s \in published : HasStored(hsm, s)
  BY <1>0, <1>1, DestroyTypes, NativeStored
<1>2a. ~moved /\ StoreOK(hsm, host, doubts)
  BY <1>1, <1>2, DestroyTypes
<1> DEFINE e == [hsm EXCEPT !.live = FALSE]
<1>3. /\ KeyDeleted = e /\ e \in Device /\ ~e.live /\ e.opaque = hsm.opaque /\ e.seq = hsm.seq
      /\ e.replaces = hsm.replaces
  BY <1>2 DEF KeyDeleted, Device
<1> HIDE DEF e
<1>4. /\ DeviceOK(e) /\ \A s : HasStored(e, s) <=> HasStored(hsm, s)
      /\ \A id : On(e, id) = On(hsm, id)
  BY <1>2, <1>3 DEF DeviceOK, On, HasStored
<1>5. \A id \in run.ids : On(hsm, id) # NoObject => On(hsm, id).kind = "canonical"
  BY <1>1, <1>2 DEF Inv, Destroying
<1>6. ASSUME Done(KeyDeleted), host' = forget_key(host),
             Goto(IF run.ids = {} THEN "refresh" ELSE "erase"), Promised, Changed
      PROVE  Inv'
  <2>1. /\ hsm' = e /\ user' = user /\ moved' = moved /\ fresh' = FALSE /\ accepted' = accepted
        /\ published' = published
    BY <1>3, <1>6 DEF Done, Promised, Changed
  <2>2. /\ run' \in Call /\ run'.pc = (IF run.ids = {} THEN "refresh" ELSE "erase")
        /\ run'.op = "destroy" /\ run'.ids = run.ids /\ run'.link = run.link /\ run'.failed = run.failed
    BY <1>1, <1>2, <1>6, RunFields DEF Goto
  <2>3. host' \in Cache
    BY <1>2, <1>6, ForgetKeyFacts
  <2>4. StoreFits'
    <3>1. StoreOK(e, host', doubts)
      BY <1>2, <1>2a, <1>3, <1>6, ForgetKeyKeeps
    <3> QED BY <1>4, <2>1, <3>1, StaleKeeps DEF StoreFits
  <2>5. Destroying'
    BY <1>2, <1>3, <1>4, <1>5, <2>1, <2>2 DEF Destroying
  <2>6. PublicFits'
    BY <1>2, <1>4, <2>1 DEF PublicFits, PublicOK
  <2>7. /\ user' \in BOOLEAN /\ moved' \in BOOLEAN /\ fresh' \in BOOLEAN /\ (user' => ~moved') /\ user'
        /\ (fresh' => user' /\ SyncedOK(hsm', host')) /\ ~run'.failed
    BY <1>1, <1>2, <1>2a, <2>1, <2>2
  <2> QED BY <1>3, <2>1, <2>2, <2>3, <2>4, <2>5, <2>6, <2>7, DestroyGoesOn
<1>7. ASSUME Failed(KeyDeleted), AfterRefusal, Changed, UNCHANGED host
      PROVE  Inv'
  <2>1. \/ hsm' = hsm /\ user' = user /\ moved' = moved
        \/ hsm' \in {hsm, e} /\ user' = FALSE /\ moved' = TRUE
    BY <1>3, <1>7, FailedCases
  <2>2. /\ fresh' = FALSE /\ host' = host /\ hsm' \in {hsm, e} /\ hsm' \in Device /\ DeviceOK(hsm')
        /\ \A s \in published : HasStored(hsm', s)
    BY <1>2, <1>3, <1>4, <1>7, <2>1 DEF Changed
  <2>3. StoreFits'
    BY <2>1, <2>2, StoreFailed
  <2>4. user' \in BOOLEAN /\ moved' \in BOOLEAN /\ (user' => ~moved') /\ (user' => hsm' = hsm)
          /\ (user' \/ moved')
    <3>1. CASE user' = user /\ moved' = moved /\ hsm' = hsm
      BY <1>2, <1>2a, <3>1
    <3>2. CASE user' = FALSE /\ moved' = TRUE
      BY <3>2, Zenon
    <3> QED BY <2>1, <3>1, <3>2
  <2>5. fresh' \in BOOLEAN /\ (fresh' => user' /\ SyncedOK(hsm', host'))
    BY <2>2
  <2>6. CASE run.link = NoObject
    <3>1. KeptOK(hsm, accepted) /\ CertainOK(hsm, accepted)
      BY <1>0, <1>1, <2>6 DEF Inv, Destroying
    <3>2. \A s \in published : ShownIn(hsm', s)
      BY <2>2 DEF ShownIn
    <3>3. Return(FALSE)
      BY <1>7, <2>6 DEF AfterRefusal
    <3> QED BY <1>1, <1>2, <2>2, <2>3, <2>4, <2>5, <3>1, <3>2, <3>3, DestroyReturns
  <2>7. CASE run.link # NoObject
    <3>1. run' = [run EXCEPT !.pc = IF run.existed THEN "restore" ELSE "undo"]
            /\ accepted' = accepted /\ published' = published
      BY <1>7, <2>7 DEF AfterRefusal, Goto, Promised
    <3>2. /\ run' \in Call /\ run'.pc = (IF run.existed THEN "restore" ELSE "undo")
          /\ run'.op = "destroy" /\ run'.ids = run.ids /\ run'.link = run.link
          /\ run'.existed = run.existed /\ run'.failed = run.failed
      BY <1>1, <1>2, <3>1, RunFields
    <3>3. ASSUME user' PROVE LinkOK(hsm', run', accepted)
      <4>1. LinkOK(hsm, run, accepted) /\ hsm' = hsm
        BY <1>1, <1>2, <2>4, <2>7, <3>3 DEF Inv, Destroying
      <4> QED BY <1>0, <3>2, <4>1 DEF LinkOK
    <3>4. Destroying'
      BY <1>2, <1>5, <2>4, <2>7, <3>1, <3>2, <3>3 DEF Destroying
    <3>5. PublicFits'
      BY <2>2, <3>1 DEF PublicFits, PublicOK
    <3>6. run'.pc \in {"restore", "undo"}
      BY <3>2
    <3> QED BY <1>1, <1>2, <2>2, <2>3, <2>4, <2>5, <3>1, <3>2, <3>4, <3>5, <3>6, DestroyGoesOn
  <2> QED BY <2>6, <2>7
<1> QED BY <1>2, <1>6, <1>7, Zenon DEF delete_native

LEMMA UndoKeeps ==
    ASSUME Inv, undo, doubts' = IF run' = NoRun THEN doubts \cup {"change"} ELSE doubts
    PROVE  Inv'
<1> DEFINE id == run.link.id
<1>0. /\ run.pc = "undo" /\ accepted' = accepted /\ published' = published /\ fresh' = FALSE
      /\ run' = [run EXCEPT !.pc = "restore"] /\ host' = forget_cached_object(host, id)
  BY DEF undo, Promised, Changed, Goto
<1>1. run.op = "destroy" /\ ~run.failed
  BY <1>0, NoRunFacts, Types DEF Inv, Shape, Call, AttrOps
<1>2. /\ hsm \in Device /\ host \in Cache /\ run \in Call /\ user \in BOOLEAN /\ moved \in BOOLEAN
      /\ DeviceOK(hsm) /\ hsm.seq \in Sequence /\ published \subseteq Sequence
      /\ (user \/ moved) /\ (user => ~moved)
      /\ ~moved => StoreOK(hsm, host, doubts)
  BY <1>1, DestroyTypes
<1>3. run.link # NoObject /\ id \in OpaqueIds /\ (user => hsm.live)
  BY <1>0, <1>1, DestroyTypes DEF Inv, Destroying
<1>4. user => LinkOK(hsm, run, accepted)
  BY <1>1, <1>3 DEF Inv, Destroying
<1>5. user => ~run.existed /\ (On(hsm, id) = NoObject \/ On(hsm, id) = Stored(hsm.seq))
  BY <1>0, <1>4 DEF LinkOK
<1> DEFINE e == DeletedIn(hsm, id)
<1>6. OnlyAt(hsm, e, id) /\ On(e, id) = NoObject /\ Deleted(id) = e /\ OnlyAt(hsm, hsm, id)
  BY <1>2, <1>3, DeletedFacts DEF Deleted, DeletedIn, OnlyAt
<1> HIDE DEF e
<1>7. e \in Device /\ DeviceOK(e)
  BY <1>2, <1>3, <1>6, DeviceKept DEF OnlyAt
<1>8. \/ user /\ hsm' \in {hsm, e} /\ user' = user /\ moved' = moved
      \/ ~user /\ hsm' = hsm /\ user' = user /\ moved' = moved
      \/ user /\ hsm' \in {hsm, e} /\ user' = FALSE /\ moved' = TRUE
  <2>1. CASE Done(Deleted(id))
    BY <1>6, <2>1 DEF Done
  <2>2. CASE Impossible
    BY <2>2 DEF Impossible
  <2>3. CASE Failed(Deleted(id))
    BY <1>2, <1>6, <2>3, FailedCases
  <2> QED BY <2>1, <2>2, <2>3 DEF undo
<1>9. user' \in BOOLEAN /\ moved' \in BOOLEAN /\ (user' => user /\ ~moved') /\ (user' \/ moved')
        /\ (~moved' => user)
  <2>1. CASE user' = user /\ moved' = moved
    BY <1>2, <2>1
  <2>2. CASE user' = FALSE /\ moved' = TRUE /\ user
    BY <2>2, Zenon
  <2> QED BY <1>8, <2>1, <2>2
<1>10. /\ run' \in Call /\ run'.pc = "restore" /\ run'.op = "destroy" /\ run'.ids = run.ids
       /\ run'.link = run.link /\ run'.existed = run.existed /\ run'.failed = run.failed
  BY <1>0, <1>1, <1>2, RunFields
<1>11. hsm' \in Device /\ DeviceOK(hsm') /\ OnlyAt(hsm, hsm', id)
         /\ (user => On(hsm', id) = NoObject \/ On(hsm', id) = Stored(hsm.seq))
  BY <1>2, <1>5, <1>6, <1>7, <1>8
<1>12. host' \in Cache
  BY <1>0, <1>2, <1>3, ForgetFacts
<1>13. StoreFits'
  <2>1. SUFFICES ASSUME ~moved' PROVE StoreOK(hsm', host', doubts)
    BY <1>11, StaleKeeps DEF StoreFits
  <2>2. user /\ StoreOK(hsm, host, doubts)
    BY <1>2, <1>9, <2>1
  <2>3. id \notin Of(hsm, "legacy") /\ id \notin Of(hsm', "legacy")
    BY <1>5, <1>11, <2>2 DEF Of, Stored
  <2> QED BY <1>0, <1>2, <1>3, <1>11, <2>2, <2>3, ForgetKeeps
<1>14. Destroying'
  <2>1. ASSUME user' PROVE LinkOK(hsm', run', accepted) /\ hsm'.live
    <3>1. user /\ hsm.live /\ hsm'.live = hsm.live
      BY <1>3, <1>9, <1>11, <2>1 DEF OnlyAt
    <3> QED BY <1>0, <1>1, <1>3, <1>5, <1>10, <1>11, <3>1, LinkStays
  <2>2. ASSUME user' PROVE \A j \in run.ids : On(hsm', j) # NoObject => On(hsm', j).kind = "canonical"
    <3>1. \A j \in run.ids : On(hsm, j) # NoObject => On(hsm, j).kind = "canonical"
      BY <1>1, <1>9, <2>2 DEF Inv, Destroying
    <3>2. \A j \in run.ids : j \in OpaqueIds /\ j # id
      BY <1>2, <1>4, <1>9, <2>2 DEF Call, LinkOK
    <3> QED BY <1>11, <3>1, <3>2 DEF OnlyAt
  <2> QED BY <1>0, <1>3, <1>9, <1>10, <2>1, <2>2 DEF Destroying
<1>15. PublicFits'
  <2>1. CASE user
    <3>1. \A s \in Sequence : s # hsm.seq => On(hsm, id) # Stored(s)
      BY <1>2, <1>5, <2>1, RecordFacts DEF Stored
    <3>2. \A s \in published : PublicOK(hsm', run', doubts' # {}, s)
      BY <1>1, <1>3, <1>10, <1>11, <2>1, <3>1, PublicStays
    <3> QED BY <1>0, <3>2 DEF PublicFits
  <2>2. CASE ~user
    <3>1. hsm' = hsm
      BY <1>8, <2>2
    <3> QED BY <1>0, <1>1, <1>10, <3>1 DEF Inv, PublicFits, PublicOK, AttrOps
  <2> QED BY <2>1, <2>2
<1>16. fresh' \in BOOLEAN /\ ~fresh' /\ ~run'.failed
  BY <1>0, <1>1, <1>10
<1> QED BY <1>0, <1>9, <1>10, <1>11, <1>12, <1>13, <1>14, <1>15, <1>16, DestroyGoesOn

LEMMA RestoreKeeps ==
    ASSUME Inv, restore, doubts' = IF run' = NoRun THEN doubts \cup {"change"} ELSE doubts
    PROVE  Inv'
<1> DEFINE id == run.link.id
           record == run.link.record
<1>0. run.pc = "restore" /\ fresh' = FALSE /\ Return(FALSE)
  BY DEF restore, Changed
<1>1. run.op = "destroy"
  BY <1>0, NoRunFacts, Types DEF Inv, Shape, Call, AttrOps
<1>2. /\ hsm \in Device /\ host \in Cache /\ run \in Call /\ user \in BOOLEAN /\ moved \in BOOLEAN
      /\ DeviceOK(hsm) /\ hsm.seq \in Sequence /\ published \subseteq Sequence
      /\ (user \/ moved) /\ (user => ~moved)
      /\ ~moved => StoreOK(hsm, host, doubts)
  BY <1>1, DestroyTypes
<1>3. run.link # NoObject /\ id \in OpaqueIds /\ record \in Record /\ (user => hsm.live)
  BY <1>0, <1>1, DestroyTypes DEF Inv, Destroying
<1>4. user => LinkOK(hsm, run, accepted)
  BY <1>1, <1>3 DEF Inv, Destroying
<1>5. user => /\ On(hsm, id) = NoObject \/ On(hsm, id) = Stored(hsm.seq)
              /\ record.kind = "canonical" /\ record.target = hsm.seq /\ record.public
  BY <1>0, <1>4 DEF LinkOK
<1> DEFINE e == PutIn(hsm, id, record)
<1>6. OnlyAt(hsm, e, id) /\ On(e, id) = record /\ Put(id, record) = e
  BY <1>2, <1>3, PutFacts DEF Put, PutIn
<1> HIDE DEF e
<1>7. /\ e \in Device /\ e.live = hsm.live /\ e.seq = hsm.seq
      /\ \A j \in OpaqueIds : j # id => On(e, j) = On(hsm, j)
  BY <1>6 DEF OnlyAt
<1>8. user => DeviceOK(e)
  <2>1. hsm.seq \in Nat /\ hsm.seq >= 1
    BY <1>2 DEF DeviceOK, Sequence
  <2> QED BY <1>2, <1>3, <1>5, <1>6, <1>7, <2>1, DeviceKept
<1>9. ASSUME user, Done(Put(id, record)), host' = forget_cached_object(host, id)
      PROVE  Inv'
  <2>1. hsm' = e /\ user' = user /\ moved' = moved
    BY <1>6, <1>9 DEF Done
  <2>2. host' \in Cache
    BY <1>2, <1>3, <1>9, ForgetFacts
  <2>3. StoreFits'
    <3>1. id \notin Of(hsm, "legacy") /\ id \notin Of(e, "legacy")
      BY <1>5, <1>6, <1>9 DEF Of, Stored
    <3>2. StoreOK(e, host', doubts)
      BY <1>2, <1>3, <1>6, <1>9, <3>1, ForgetKeeps
    <3> QED BY <1>8, <1>9, <2>1, <3>2, StaleKeeps DEF StoreFits
  <2>4. /\ user' \in BOOLEAN /\ moved' \in BOOLEAN /\ fresh' \in BOOLEAN /\ (user' => ~moved')
        /\ (fresh' => user' /\ SyncedOK(hsm', host'))
    BY <1>0, <1>2, <2>1
  <2>5. id \in Of(e, "canonical")
    BY <1>3, <1>5, <1>6, <1>7, <1>9, RecordFacts DEF Of
  <2>6. \A j \in Of(e, "canonical") : j = id \/ (j \in Of(hsm, "canonical") /\ On(e, j) = On(hsm, j))
    BY <1>7 DEF Of
  <2>7. Of(e, "canonical") \ {id} = Of(hsm, "canonical") \ {id} /\ Native(e) = Native(hsm)
    BY <1>7 DEF Of, Native
  <2>8. KeptOK(e, accepted)
    BY <1>4, <1>6, <1>9, <2>5, <2>6 DEF LinkOK, KeptOK
  <2>9. CertainOK(e, accepted)
    <3>1. CASE NoObject \in accepted
      BY <3>1 DEF CertainOK
    <3>2. CASE Of(hsm, "canonical") \ {id} = {}
      <4>1. Of(e, "canonical") = {id}
        BY <2>5, <2>7, <3>2
      <4> QED BY <1>3, <1>4, <1>6, <1>7, <1>9, <4>1, AttributesOne DEF LinkOK, CertainOK
    <3>3. CASE Of(hsm, "canonical") \ {id} # {} /\ Native(hsm) \in accepted
      <4>1. PICK j \in Of(e, "canonical") : j # id
        BY <2>7, <3>3
      <4> QED BY <1>7, <2>5, <2>7, <3>3, <4>1, AttributesMany DEF CertainOK
    <3> QED BY <1>4, <1>9, <3>1, <3>2, <3>3 DEF LinkOK
  <2>10. \A s \in published : ShownIn(e, s)
    <3>1. SUFFICES ASSUME NEW s \in published PROVE ShownIn(e, s)
      OBVIOUS
    <3>2. HasStored(hsm, s) \/ s = hsm.seq
      BY DEF Inv, PublicFits, PublicOK
    <3>3. CASE s = hsm.seq
      BY <1>3, <1>5, <1>6, <1>7, <1>9, <2>5, <3>3 DEF ShownIn
    <3>4. CASE s # hsm.seq
      <4>1. On(hsm, id) # Stored(s)
        BY <1>2, <1>5, <1>9, <3>4, RecordFacts DEF Stored
      <4> QED BY <1>2, <1>3, <1>6, <3>2, <3>4, <4>1, StoredStays DEF ShownIn
    <3> QED BY <3>3, <3>4
  <2> QED BY <1>0, <1>1, <1>7, <2>1, <2>2, <2>3, <2>4, <2>8, <2>9, <2>10, DestroyReturns
<1>10. ASSUME Impossible, UNCHANGED host PROVE Inv'
  <2>1. hsm' = hsm /\ user' = user /\ moved' = moved /\ host' = host
    BY <1>10 DEF Impossible
  <2>2. StoreFits'
    BY <2>1, StoreFailed
  <2>3. /\ user' \in BOOLEAN /\ moved' \in BOOLEAN /\ fresh' \in BOOLEAN /\ (user' => ~moved')
        /\ (fresh' => user' /\ SyncedOK(hsm', host'))
    BY <1>0, <1>2, <2>1
  <2> QED BY <1>0, <1>1, <1>2, <2>1, <2>2, <2>3, DestroyReturns
<1>11. ASSUME Failed(IF Takes(id) THEN Put(id, record) ELSE hsm), UNCHANGED host PROVE Inv'
  <2> DEFINE after == IF Takes(id) THEN Put(id, record) ELSE hsm
  <2>1. after \in {hsm, e} /\ Failed(after)
    BY <1>6, <1>11
  <2> HIDE DEF after
  <2>2. \/ hsm' = hsm /\ user' = user /\ moved' = moved
        \/ user /\ hsm' \in {hsm, after} /\ user' = FALSE /\ moved' = TRUE
    BY <2>1, FailedCases
  <2>3. host' = host /\ hsm' \in Device /\ DeviceOK(hsm')
    BY <1>2, <1>7, <1>8, <1>11, <2>1, <2>2
  <2>4. StoreFits'
    BY <2>2, <2>3, StoreFailed
  <2>5. user' \in BOOLEAN /\ moved' \in BOOLEAN /\ (user' => ~moved') /\ (user' => hsm' = hsm)
    <3>1. CASE user' = user /\ moved' = moved /\ hsm' = hsm
      BY <1>2, <3>1
    <3>2. CASE user' = FALSE /\ moved' = TRUE
      BY <3>2, Zenon
    <3> QED BY <2>2, <3>1, <3>2
  <2>6. fresh' \in BOOLEAN /\ (fresh' => user' /\ SyncedOK(hsm', host'))
    BY <1>0
  <2> QED BY <1>0, <1>1, <1>2, <2>3, <2>4, <2>5, <2>6, DestroyReturns
<1>12. Takes(id) /\ Done(Put(id, record)) => user
  BY DEF Done
<1> QED BY <1>9, <1>10, <1>11, <1>12, Zenon DEF restore

(* The old companions go when the key is gone.                             *)
LEMMA EraseDestroyKeeps ==
    ASSUME Inv, delete_metadata_objects, run.op = "destroy",
           doubts' = IF run' = NoRun THEN doubts \cup {"change"} ELSE doubts
    PROVE  Inv'
<1>0. run.pc = "erase"
  BY DEF delete_metadata_objects
<1>2. /\ hsm \in Device /\ host \in Cache /\ run \in Call /\ user \in BOOLEAN /\ moved \in BOOLEAN
      /\ fresh \in BOOLEAN /\ DeviceOK(hsm) /\ hsm.seq \in Sequence /\ published \subseteq Sequence
      /\ (user \/ moved) /\ (user => ~moved)
      /\ ~moved => StoreOK(hsm, host, doubts)
      /\ fresh => user /\ SyncedOK(hsm, host)
  BY DestroyTypes
<1>3. ~hsm.live /\ (user => \A j \in run.ids : On(hsm, j) # NoObject => On(hsm, j).kind = "canonical")
  BY <1>0 DEF Inv, Destroying
<1>4. \A s \in published : HasStored(hsm, s)
  BY <1>3 DEF Inv, PublicFits, PublicOK
<1>5. \A id \in run.ids :
        /\ id \in OpaqueIds /\ Deleted(id) = DeletedIn(hsm, id)
        /\ OnlyAt(hsm, DeletedIn(hsm, id), id) /\ On(DeletedIn(hsm, id), id) = NoObject
        /\ DeletedIn(hsm, id) \in Device /\ DeviceOK(DeletedIn(hsm, id))
  <2>1. SUFFICES ASSUME NEW id \in run.ids
                 PROVE  /\ id \in OpaqueIds /\ Deleted(id) = DeletedIn(hsm, id)
                        /\ OnlyAt(hsm, DeletedIn(hsm, id), id) /\ On(DeletedIn(hsm, id), id) = NoObject
                        /\ DeletedIn(hsm, id) \in Device /\ DeviceOK(DeletedIn(hsm, id))
    OBVIOUS
  <2>2. id \in OpaqueIds
    BY <1>2 DEF Call
  <2>3. OnlyAt(hsm, DeletedIn(hsm, id), id) /\ On(DeletedIn(hsm, id), id) = NoObject
    BY <1>2, <2>2, DeletedFacts
  <2>4. DeletedIn(hsm, id) \in Device /\ DeviceOK(DeletedIn(hsm, id))
    BY <1>2, <2>2, <2>3, DeviceKept DEF OnlyAt
  <2> QED BY <2>2, <2>3, <2>4 DEF Deleted, DeletedIn
<1>6. ASSUME NEW id \in run.ids, NEW failed \in BOOLEAN, Erased(id, failed),
             hsm' = hsm \/ (user /\ hsm' = DeletedIn(hsm, id)), host' \in Cache, StoreFits',
             user' \in BOOLEAN, moved' \in BOOLEAN, fresh' \in BOOLEAN, user' => user /\ ~moved',
             user' \/ moved', fresh' => user' /\ SyncedOK(hsm', host'),
             failed \/ (user' /\ ~run.failed)
      PROVE  Inv'
  <2>1. /\ hsm' \in Device /\ ~hsm'.live
        /\ \A j \in OpaqueIds : On(hsm', j) = On(hsm, j) \/ On(hsm', j) = NoObject
    BY <1>2, <1>3, <1>5, <1>6 DEF OnlyAt
  <2>2. \A s \in published : HasStored(hsm', s)
    <3>1. CASE hsm' = hsm
      BY <1>4, <3>1
    <3>2. CASE user /\ hsm' = DeletedIn(hsm, id)
      <4>1. ASSUME NEW s \in published PROVE HasStored(hsm', s)
        <5>1. On(hsm, id) # Stored(s)
          BY <1>2, <1>3, <3>2, RecordFacts DEF Stored
        <5> QED BY <1>2, <1>4, <1>5, <3>2, <5>1, StoredStays
      <4> QED BY <4>1
    <3> QED BY <1>6, <3>1, <3>2
  <2>3. ASSUME user' PROVE \A j \in run.ids : On(hsm', j) # NoObject => On(hsm', j).kind = "canonical"
    BY <1>3, <1>5, <1>6, <2>1, <2>3
  <2>4. ASSUME NEW pc \in {"erase", "refresh"}, run' \in Call, run'.op = "destroy", run'.pc = pc,
               run'.ids \subseteq run.ids, accepted' = accepted, published' = published,
               pc = "refresh" => user' /\ ~run'.failed, pc = "erase" => run'.ids # {}
        PROVE  Inv'
    <3>1. Destroying'
      BY <1>6, <2>1, <2>3, <2>4 DEF Destroying
    <3>2. PublicFits'
      BY <2>2, <2>4 DEF PublicFits, PublicOK
    <3> QED BY <1>6, <2>1, <2>4, <3>1, <3>2, DestroyGoesOn
  <2>5. CASE run.ids \ {id} # {}
    <3>1. run' = [run EXCEPT !.ids = run.ids \ {id}, !.failed = failed] /\ accepted' = accepted
            /\ published' = published
      BY <1>6, <2>5 DEF Erased, Promised
    <3>2. run' \in Call /\ run'.op = "destroy" /\ run'.pc = "erase" /\ run'.ids = run.ids \ {id}
      BY <1>0, <1>2, <3>1 DEF Call
    <3> QED BY <2>4, <2>5, <3>1, <3>2
  <2>6. CASE run.ids \ {id} = {} /\ failed
    <3>1. Return(FALSE)
      BY <1>6, <2>6 DEF Erased, Fail
    <3>2. \A s \in published : ShownIn(hsm', s)
      BY <2>2 DEF ShownIn
    <3> QED BY <1>6, <2>1, <3>1, <3>2, DestroyReturns
  <2>7. CASE run.ids \ {id} = {} /\ ~failed
    <3>1. run' = [run EXCEPT !.ids = {}, !.pc = "refresh"] /\ accepted' = accepted
            /\ published' = published
      BY <1>6, <2>7 DEF Erased, Promised
    <3>2. run' \in Call /\ run'.op = "destroy" /\ run'.pc = "refresh" /\ run'.ids = {}
            /\ run'.failed = run.failed
      BY <1>2, <3>1 DEF Call
    <3> QED BY <1>6, <2>4, <2>7, <3>1, <3>2
  <2> QED BY <2>5, <2>6, <2>7
<1>7. ASSUME NEW id \in run.ids, Done(Deleted(id)), host' = forget_cached_object(host, id),
             Erased(id, run.failed), Changed
      PROVE  Inv'
  <2>1. user /\ hsm' = DeletedIn(hsm, id) /\ user' = user /\ moved' = moved /\ fresh' = FALSE
    BY <1>5, <1>7 DEF Done, Changed
  <2>2. host' \in Cache
    BY <1>2, <1>5, <1>7, ForgetFacts
  <2>3. StoreFits'
    <3>1. id \notin Of(hsm, "legacy") /\ id \notin Of(hsm', "legacy")
      BY <1>3, <1>5, <2>1 DEF Of
    <3>2. StoreOK(hsm', host', doubts)
      BY <1>2, <1>5, <1>7, <2>1, <3>1, ForgetKeeps
    <3> QED BY <1>5, <2>1, <3>2, StaleKeeps DEF StoreFits
  <2>4. run.failed \in BOOLEAN
    BY <1>2 DEF Call
  <2>5. /\ user' \in BOOLEAN /\ moved' \in BOOLEAN /\ fresh' \in BOOLEAN /\ (user' => user /\ ~moved')
        /\ (user' \/ moved') /\ (fresh' => user' /\ SyncedOK(hsm', host'))
        /\ (run.failed \/ (user' /\ ~run.failed))
    BY <1>2, <2>1
  <2> QED BY <1>6, <1>7, <2>1, <2>2, <2>3, <2>4, <2>5
<1>8. ASSUME NEW id \in run.ids, Erased(id, TRUE), host' = host,
             \/ hsm' = hsm /\ user' = user /\ moved' = moved
             \/ user /\ hsm' \in {hsm, DeletedIn(hsm, id)} /\ user' = FALSE /\ moved' = TRUE,
             fresh' = FALSE \/ (fresh' = fresh /\ hsm' = hsm /\ user' = user)
      PROVE  Inv'
  <2>1. StoreFits'
    BY <1>2, <1>5, <1>8, StoreFailed
  <2>2. user' \in BOOLEAN /\ moved' \in BOOLEAN /\ (user' => user /\ ~moved') /\ (user' \/ moved')
    <3>1. CASE user' = user /\ moved' = moved
      BY <1>2, <3>1
    <3>2. CASE user' = FALSE /\ moved' = TRUE
      BY <3>2, Zenon
    <3> QED BY <1>8, <3>1, <3>2
  <2>3. fresh' \in BOOLEAN /\ (fresh' => user' /\ SyncedOK(hsm', host'))
    <3>1. CASE fresh' = FALSE
      BY <3>1
    <3>2. CASE fresh' = fresh /\ hsm' = hsm /\ user' = user
      BY <1>2, <1>8, <3>2
    <3> QED BY <1>8, <3>1, <3>2
  <2>4. hsm' = hsm \/ (user /\ hsm' = DeletedIn(hsm, id))
    BY <1>8
  <2> QED BY <1>2, <1>6, <1>8, <2>1, <2>2, <2>3, <2>4
<1>9. ASSUME NEW id \in run.ids, Failed(Deleted(id)), Erased(id, TRUE), Changed, UNCHANGED host
      PROVE  Inv'
  BY <1>5, <1>8, <1>9, FailedCases DEF Changed
<1>10. ASSUME NEW id \in run.ids, Impossible, Erased(id, TRUE), UNCHANGED <<host, fresh>>
       PROVE  Inv'
  BY <1>8, <1>10 DEF Impossible
<1> QED BY <1>7, <1>9, <1>10, Zenon DEF delete_metadata_objects

-----------------------------------------------------------------------------
(* Calls begin.                                                            *)

LEMMA FormatFacts ==
    ASSUME hsm \in Device, host \in Cache, StoreOK(hsm, host, doubts)
    PROVE  /\ \A l \in metadata_objects_in_format("canonical") :
                /\ l.id \in Of(hsm, "canonical") /\ l.id \in OpaqueIds
                /\ host.cached[l.id].record \in Record /\ host.cached[l.id].record.kind = "canonical"
           /\ host.known.seq # 0 /\ metadata_objects_in_format("legacy") = {} => Of(hsm, "legacy") = {}
           /\ hsm.live /\ SyncedOK(hsm, host) =>
                \A id \in Of(hsm, "canonical") :
                    \E l \in metadata_objects_in_format("canonical") :
                        l.id = id /\ host.cached[l.id].record = On(hsm, id)
<1>1. CachedOK(hsm, host, doubts) /\ KeyOK(hsm, host)
  BY DEF StoreOK
<1>2. ASSUME NEW l \in metadata_objects_in_format("canonical")
      PROVE  /\ l.id \in Of(hsm, "canonical") /\ l.id \in OpaqueIds
             /\ host.cached[l.id].record \in Record /\ host.cached[l.id].record.kind = "canonical"
  <2>1. /\ l \in host.links /\ l.id \in OpaqueIds /\ host.cached[l.id].record # NoObject
        /\ host.cached[l.id].record.kind = "canonical"
    BY DEF metadata_objects_in_format, Cache
  <2>2. host.cached[l.id].record \in Record
    BY <2>1 DEF Cache, Opaque
  <2>3. On(hsm, l.id) # NoObject /\ On(hsm, l.id).target = hsm.seq
    BY <1>1, <2>1 DEF KeyOK
  <2>4. On(hsm, l.id).kind = "canonical"
    BY <1>1, <2>1 DEF CachedOK, Alike, On
  <2> QED BY <2>1, <2>2, <2>3, <2>4 DEF Of
<1>3. ASSUME NEW id \in Of(hsm, "legacy"), host.known.seq # 0
      PROVE  [id |-> id, seq |-> hsm.opaque[id].seq] \in metadata_objects_in_format("legacy")
  <2>1. [id |-> id, seq |-> hsm.opaque[id].seq] \in host.links /\ host.cached[id] = hsm.opaque[id]
    BY <1>1, <1>3 DEF KeyOK
  <2> QED BY <2>1 DEF metadata_objects_in_format, Of, On
<1>4. ASSUME NEW id \in Of(hsm, "canonical"), hsm.live, SyncedOK(hsm, host)
      PROVE  \E l \in metadata_objects_in_format("canonical") :
                 l.id = id /\ host.cached[l.id].record = On(hsm, id)
  <2>1. /\ [id |-> id, seq |-> hsm.opaque[id].seq] \in host.links /\ host.cached[id] = hsm.opaque[id]
    BY <1>4 DEF SyncedOK, Of
  <2>2. [id |-> id, seq |-> hsm.opaque[id].seq] \in metadata_objects_in_format("canonical")
    BY <2>1 DEF metadata_objects_in_format, Of, On
  <2> QED BY <2>1, <2>2 DEF On
<1> QED BY <1>2, <1>3, <1>4

LEMMA PlanKeeps ==
    ASSUME Inv, Idle \/ run.pc = "name", user, host.known.seq # 0, NEW op \in AttrOps,
           NEW new \in Record, new.kind = "canonical", new.target = hsm.seq, op = "project" => new.public,
           replace_pkcs11_metadata_record(op, new),
           hsm' = hsm, host' = host, user' = user, moved' = moved, fresh' = fresh, doubts' = doubts,
           accepted' = accepted, published' \subseteq published,
           \A s \in published' : HasStored(hsm, s) \/ (s = hsm.seq /\ doubts = {} /\ new.public
                                       /\ \E id \in Of(hsm, "canonical") : On(hsm, id).public)
    PROVE  Inv'
<1>1. /\ hsm \in Device /\ host \in Cache /\ run \in Call /\ ~moved /\ StoreOK(hsm, host, doubts)
      /\ published \subseteq Sequence
  BY Types DEF Inv, StoreFits, SlotFits
<1>2. hsm.live
  <2>1. host.known = Entry(0, NoObject) => host.known.seq = 0
    BY DEF Entry
  <2> QED BY <1>1, <2>1 DEF StoreOK, KeyOK
<1>3. KeptOK(hsm, accepted)
  <2>1. run.op \notin AttrOps \cup {"destroy"}
    BY NoRunFacts, <1>1 DEF Idle, Inv, Shape, AttrOps
  <2> QED BY <1>2, <2>1 DEF Inv, Promises, Allowed
<1>4. doubts = {} => SyncedOK(hsm, host) /\ Single(hsm)
  <2>1. CASE Idle
    BY <2>1 DEF Inv, SlotFits
  <2>2. CASE run.pc = "name"
    <3>1. SyncedOK(hsm, host) /\ run.op = "generate"
      BY <1>1, <2>2, NoRunFacts DEF Inv, SlotFits, Shape, Call, AttrOps
    <3>2. Companion(hsm) = {}
      BY <3>1 DEF Inv, Shape
    <3> QED BY <3>1, <3>2 DEF Companion, Single
  <2> QED BY <2>1, <2>2
<1> DEFINE old == metadata_objects_in_format("canonical")
           contents == {host.cached[l.id].record : l \in old}
           at == [NoRun EXCEPT !.op = op, !.new = new]
           bare == is_empty(new) /\ metadata_objects_in_format("legacy") = {}
<1>5. /\ \A l \in old : /\ l.id \in Of(hsm, "canonical") /\ l.id \in OpaqueIds
                        /\ host.cached[l.id].record \in Record
                        /\ host.cached[l.id].record.kind = "canonical"
      /\ metadata_objects_in_format("legacy") = {} => Of(hsm, "legacy") = {}
      /\ doubts = {} => \A id \in Of(hsm, "canonical") :
             \E l \in old : l.id = id /\ host.cached[l.id].record = On(hsm, id)
  BY <1>1, <1>2, <1>4, FormatFacts
<1> HIDE DEF old
<1>6. contents \subseteq Record /\ \A r \in contents : r.kind = "canonical"
  BY <1>5
<1>7. /\ at \in Call /\ at.op = op /\ at.new = new /\ at.todo = {} /\ at.ids = {} /\ at.link = NoObject
      /\ at.existed = FALSE /\ at.failed = FALSE /\ at.pc = "none"
  BY DEF NoRun, Call, AttrOps
<1> HIDE DEF at
<1>8. ASSUME run' \in Call, run'.op = op, run'.new = new, run'.ids = {}, run'.failed = FALSE,
             run'.pc \in {"update", "put", "delete", "refresh"},
             \A r \in run'.todo : r.kind = "canonical",
             ReplacingOK(hsm, host, run'), doubts = {} => SureOK(hsm, host, run')
      PROVE  Inv'
  <2>1. run' # NoRun
    BY <1>8, NoRunFacts DEF AttrOps
  <2>2. HsmObjectsTypeOK'
    BY <1>1, <1>8, Types DEF Inv
  <2>3. StoreFits'
    BY DEF Inv, StoreFits
  <2>4. SlotFits'
    BY <1>8, <2>1 DEF Inv, SlotFits, Idle
  <2>5. Shape'
    BY <1>2, <1>8, <2>1 DEF Shape, AttrOps
  <2>6. Replacing'
    BY <1>8 DEF Replacing
  <2>7. Promises'
    BY <1>3, <1>8, KeptMore DEF Promises, Allowed, AttrOps
  <2>8. PublicFits'
    BY <1>2, <1>8 DEF PublicFits, PublicOK, AttrOps
  <2>9. Discarding' /\ Creating' /\ Destroying'
    BY <1>8 DEF Discarding, Creating, Destroying, AttrOps
  <2> QED BY <2>2, <2>3, <2>4, <2>5, <2>6, <2>7, <2>8, <2>9 DEF Inv
<1>9. ASSUME bare, run' = [at EXCEPT !.pc = "delete", !.todo = contents] PROVE Inv'
  <2>1. /\ run' \in Call /\ run'.op = op /\ run'.new = new /\ run'.ids = {} /\ run'.failed = FALSE
        /\ run'.pc = "delete" /\ run'.todo = contents
    <3> HIDE DEF contents
    <3> QED BY <1>6, <1>7, <1>9 DEF Call
  <2>2. Bare(hsm, run')
    BY <1>5, <1>9, <2>1 DEF Bare
  <2>3. ReplacingOK(hsm, host, run')
    BY <2>1, <2>2 DEF ReplacingOK
  <2>4. ASSUME doubts = {} PROVE SureOK(hsm, host, run')
    <3>1. \A id \in Of(hsm, "canonical") : On(hsm, id) \in contents /\ host.cached[id] = hsm.opaque[id]
      BY <1>4, <1>5, <2>4 DEF SyncedOK, Of
    <3> QED BY <1>4, <2>1, <2>2, <2>4, <3>1 DEF SureOK, Single
  <2> QED BY <1>6, <1>8, <2>1, <2>3, <2>4
<1>10. ASSUME old # {}, host.known.record = new, run' = [at EXCEPT !.pc = "refresh"] PROVE Inv'
  <2>1. /\ run' \in Call /\ run'.op = op /\ run'.new = new /\ run'.ids = {} /\ run'.failed = FALSE
        /\ run'.pc = "refresh" /\ run'.todo = {}
    BY <1>7, <1>10 DEF Call
  <2>2. ReplacingOK(hsm, host, run')
    BY <2>1 DEF ReplacingOK
  <2>3. ASSUME doubts = {} PROVE SureOK(hsm, host, run')
    <3>1. PICK id \in Of(hsm, "canonical") : TRUE
      BY <1>5, <1>10
    <3>2. Of(hsm, "canonical") = {id} /\ id \in OpaqueIds
      BY <1>4, <2>3 DEF Single, Of
    <3>3. On(hsm, id) = new
      BY <1>2, <1>4, <1>10, <2>3, <3>2 DEF SyncedOK
    <3> QED BY <2>1, <3>2, <3>3 DEF SureOK
  <2> QED BY <1>8, <2>1, <2>2, <2>3
<1>11. ASSUME host.known.record # new, NEW l \in old,
              run' = [at EXCEPT !.pc = "update", !.todo = contents \ {new},
                                !.link = [id |-> l.id, record |-> host.cached[l.id].record]]
       PROVE  Inv'
  <2>1. /\ run' \in Call /\ run'.op = op /\ run'.new = new /\ run'.ids = {} /\ run'.failed = FALSE
        /\ run'.pc = "update" /\ run'.todo = contents \ {new} /\ run'.link.id = l.id /\ run'.link # NoObject
    <3>1. [id |-> l.id, record |-> host.cached[l.id].record] \in [id : OpaqueIds, record : Record]
      BY <1>5
    <3>2. [id |-> l.id, record |-> host.cached[l.id].record] # NoObject
      BY <3>1, RecordFacts
    <3> HIDE DEF contents
    <3> QED BY <1>6, <1>7, <1>11, <3>1, <3>2 DEF Call
  <2>2. ReplacingOK(hsm, host, run')
    BY <1>5, <2>1 DEF ReplacingOK
  <2>3. ASSUME doubts = {} PROVE SureOK(hsm, host, run')
    <3>1. Of(hsm, "canonical") = {l.id} /\ l.id \in OpaqueIds
      BY <1>4, <1>5, <2>3 DEF Single, Of
    <3>2. On(hsm, l.id) # new
      BY <1>2, <1>4, <1>11, <2>3, <3>1 DEF SyncedOK
    <3>3. host.cached[l.id] = hsm.opaque[l.id]
      BY <1>4, <2>3, <3>1 DEF SyncedOK, Of
    <3>4. \A k \in old : k.id = l.id
      BY <1>5, <3>1
    <3>5. contents \ {new} = {On(hsm, l.id)}
      BY <1>11, <3>2, <3>3, <3>4 DEF On
    <3> QED BY <2>1, <3>1, <3>2, <3>3, <3>5 DEF SureOK
  <2> QED BY <1>6, <1>8, <2>1, <2>2, <2>3
<1>12. ASSUME old = {}, run' = [at EXCEPT !.pc = "put"] PROVE Inv'
  <2>1. /\ run' \in Call /\ run'.op = op /\ run'.new = new /\ run'.ids = {} /\ run'.failed = FALSE
        /\ run'.pc = "put" /\ run'.todo = {}
    BY <1>7, <1>12 DEF Call
  <2>2. ReplacingOK(hsm, host, run')
    BY <2>1 DEF ReplacingOK
  <2>3. ASSUME doubts = {} PROVE SureOK(hsm, host, run')
    <3>1. Of(hsm, "canonical") = {}
      BY <1>5, <1>12, <2>3
    <3> QED BY <2>1, <3>1 DEF SureOK
  <2> QED BY <1>8, <2>1, <2>2, <2>3
<1>13. \/ bare /\ run' = [at EXCEPT !.pc = "delete", !.todo = contents]
       \/ old # {} /\ host.known.record = new /\ run' = [at EXCEPT !.pc = "refresh"]
       \/ /\ old # {} /\ host.known.record # new
          /\ \E l \in old :
                run' = [at EXCEPT !.pc = "update", !.todo = contents \ {new},
                                  !.link = [id |-> l.id, record |-> host.cached[l.id].record]]
       \/ old = {} /\ run' = [at EXCEPT !.pc = "put"]
  BY DEF replace_pkcs11_metadata_record, old, at
<1> QED BY <1>9, <1>10, <1>11, <1>12, <1>13

LEMMA CurrentFacts ==
    ASSUME hsm \in Device, host \in Cache, StoreOK(hsm, host, doubts), host.known.seq # 0
    PROVE  /\ CurrentOf(host) \in Record /\ CurrentOf(host).kind = "canonical"
           /\ CurrentOf(host).target = hsm.seq /\ hsm.live
<1>1. KeyOK(hsm, host) /\ host.known.seq \in Sequence /\ (host.known = Entry(0, NoObject) => host.known.seq = 0)
  BY DEF StoreOK, Cache, Entry
<1>2. host.known.seq = hsm.seq /\ hsm.live
  BY <1>1 DEF KeyOK
<1>3. CASE host.known.record = NoObject
  <2>1. CurrentOf(host) = Metadata(hsm.seq, NativeLabel, FALSE)
    BY <1>2, <1>3 DEF CurrentOf
  <2>2. Metadata(hsm.seq, NativeLabel, FALSE) \in Record
    BY <1>1, <1>2, RecordFacts
  <2>3. CurrentOf(host).kind = "canonical" /\ CurrentOf(host).target = hsm.seq
    BY <2>1 DEF Metadata
  <2> QED BY <1>2, <2>1, <2>2, <2>3
<1>4. CASE host.known.record # NoObject
  <2>1. host.known.record \in Record /\ host.known.record.target = hsm.seq
    BY <1>1, <1>2, <1>4 DEF Cache, KeyOK
  <2>2. CurrentOf(host) = [host.known.record EXCEPT !.kind = "canonical"]
    BY <1>4 DEF CurrentOf
  <2> QED BY <1>2, <2>1, <2>2 DEF Record
<1> QED BY <1>3, <1>4

LEMMA IdleFacts ==
    ASSUME Inv, Idle, user
    PROVE  /\ hsm \in Device /\ host \in Cache /\ ~moved /\ StoreOK(hsm, host, doubts)
           /\ published \subseteq Sequence /\ hsm.seq \in Sequence
           /\ run.op = "none" /\ run.pc = "none" /\ run.link = NoObject
           /\ \A s \in published : ShownIn(hsm, s)
           /\ hsm.live => KeptOK(hsm, accepted) /\ CertainOK(hsm, accepted)
           /\ doubts = {} /\ hsm.live /\ (\E id \in Of(hsm, "canonical") : On(hsm, id).public) =>
                  CurrentOf(host).public
<1>1. run.op = "none" /\ run.pc = "none" /\ run.link = NoObject
  BY NoRunFacts DEF Idle
<1>2. /\ hsm \in Device /\ host \in Cache /\ ~moved /\ StoreOK(hsm, host, doubts)
      /\ published \subseteq Sequence /\ hsm.seq \in Sequence
  BY Types DEF Inv, StoreFits, SlotFits, Device
<1>3. \A s \in published : ShownIn(hsm, s)
  BY <1>1 DEF Inv, PublicFits, PublicOK, ShownIn
<1>4. hsm.live => KeptOK(hsm, accepted) /\ CertainOK(hsm, accepted)
  BY <1>1 DEF Inv, Promises, Allowed, AttrOps
<1>5. ASSUME doubts = {}, hsm.live, NEW id \in Of(hsm, "canonical"), On(hsm, id).public
      PROVE  CurrentOf(host).public
  <2>1. SyncedOK(hsm, host) /\ Single(hsm)
    BY <1>5 DEF Inv, SlotFits
  <2>2. Of(hsm, "canonical") = {id} /\ id \in OpaqueIds
    BY <2>1 DEF Single, Of
  <2>3. CurrentOf(host) = AttributesOf(hsm)
    BY <1>5, <2>1 DEF SyncedOK
  <2> QED BY <1>2, <1>5, <2>2, <2>3, AttributesOne
<1> QED BY <1>1, <1>2, <1>3, <1>4, <1>5

LEMMA BeginFacts ==
    ASSUME Begin
    PROVE  /\ Idle /\ user /\ hsm' = hsm /\ user' = user /\ moved' = moved /\ host' = host
           /\ fresh' = fresh
  BY DEF Begin

LEMMA RiskedFacts ==
    ASSUME Inv, Idle, user, Risked
    PROVE  /\ accepted' = accepted /\ published' \subseteq published
           /\ \A s \in published' : HasStored(hsm, s) \/ (s = hsm.seq /\ doubts = {} /\ hsm.live
                  /\ CurrentOf(host).public /\ \E id \in Of(hsm, "canonical") : On(hsm, id).public)
<1>1. \A s : Holds(Stored(s)) <=> HasStored(hsm, s)
  BY Unfold
<1> QED BY <1>1, IdleFacts DEF Risked, ShownIn

LEMMA SetKeeps ==
    ASSUME Inv, yubihsm_set_attributes, doubts' = doubts
    PROVE  Inv'
<1>1. /\ Idle /\ user /\ hsm' = hsm /\ user' = user /\ moved' = moved /\ host' = host /\ fresh' = fresh
      /\ host.known.seq # 0 /\ Risked
  BY BeginFacts DEF yubihsm_set_attributes
<1>2. PICK label \in Labels \cup {NativeLabel} :
          replace_pkcs11_metadata_record("set", [CurrentOf(host) EXCEPT !.label = label])
  BY Unfold DEF yubihsm_set_attributes
<1>3. /\ CurrentOf(host) \in Record /\ CurrentOf(host).kind = "canonical"
      /\ CurrentOf(host).target = hsm.seq
  BY <1>1, IdleFacts, CurrentFacts
<1> DEFINE new == [CurrentOf(host) EXCEPT !.label = label]
<1>4. /\ new \in Record /\ new.kind = "canonical" /\ new.target = hsm.seq
      /\ new.public = CurrentOf(host).public
  BY <1>3 DEF Record
<1> HIDE DEF new
<1>5. "set" \in AttrOps /\ replace_pkcs11_metadata_record("set", new)
  BY <1>2 DEF AttrOps, new
<1>6. accepted' = accepted /\ published' \subseteq published
        /\ \A s \in published' : HasStored(hsm, s) \/ (s = hsm.seq /\ doubts = {} /\ new.public
                                     /\ \E id \in Of(hsm, "canonical") : On(hsm, id).public)
  BY <1>1, <1>4, RiskedFacts
<1> QED BY <1>1, <1>4, <1>5, <1>6, PlanKeeps

LEMMA ProjectKeeps ==
    ASSUME Inv, persist_public_projection, doubts' = doubts
    PROVE  Inv'
<1>1. /\ Idle /\ user /\ hsm' = hsm /\ user' = user /\ moved' = moved /\ host' = host /\ fresh' = fresh
      /\ host.known.seq # 0 /\ Risked
  BY BeginFacts DEF persist_public_projection
<1>2. replace_pkcs11_metadata_record("project", [CurrentOf(host) EXCEPT !.public = TRUE])
  BY Unfold DEF persist_public_projection
<1>3. /\ CurrentOf(host) \in Record /\ CurrentOf(host).kind = "canonical"
      /\ CurrentOf(host).target = hsm.seq
  BY <1>1, IdleFacts, CurrentFacts
<1> DEFINE new == [CurrentOf(host) EXCEPT !.public = TRUE]
<1>4. new \in Record /\ new.kind = "canonical" /\ new.target = hsm.seq /\ new.public
  BY <1>3 DEF Record
<1> HIDE DEF new
<1>5. "project" \in AttrOps /\ replace_pkcs11_metadata_record("project", new)
  BY <1>2 DEF AttrOps, new
<1>6. accepted' = accepted /\ published' \subseteq published
        /\ \A s \in published' : HasStored(hsm, s) \/ (s = hsm.seq /\ doubts = {} /\ new.public
                                     /\ \E id \in Of(hsm, "canonical") : On(hsm, id).public)
  BY <1>1, <1>4, RiskedFacts
<1> QED BY <1>1, <1>4, <1>5, <1>6, PlanKeeps

LEMMA UnprojectKeeps ==
    ASSUME Inv, destroy_public_projection, doubts' = doubts
    PROVE  Inv'
<1>1. /\ Idle /\ user /\ hsm' = hsm /\ user' = user /\ moved' = moved /\ host' = host /\ fresh' = fresh
      /\ host.known.seq # 0 /\ published' = published \ {host.known.seq} /\ accepted' = accepted
      /\ CurrentOf(host).public
  BY BeginFacts, Unfold DEF destroy_public_projection
<1>2. replace_pkcs11_metadata_record("unproject", [CurrentOf(host) EXCEPT !.public = FALSE])
  BY Unfold DEF destroy_public_projection
<1>3. /\ CurrentOf(host) \in Record /\ CurrentOf(host).kind = "canonical"
      /\ CurrentOf(host).target = hsm.seq
  BY <1>1, IdleFacts, CurrentFacts
<1> DEFINE new == [CurrentOf(host) EXCEPT !.public = FALSE]
<1>4. new \in Record /\ new.kind = "canonical" /\ new.target = hsm.seq
  BY <1>3 DEF Record
<1> HIDE DEF new
<1>5. "unproject" \in AttrOps /\ replace_pkcs11_metadata_record("unproject", new)
  BY <1>2 DEF AttrOps, new
<1>6. host.known.seq = hsm.seq
  BY <1>1, IdleFacts, CurrentPublic
<1>7. \A s \in published' : HasStored(hsm, s)
  BY <1>1, <1>6, IdleFacts DEF ShownIn
<1> QED BY <1>1, <1>4, <1>5, <1>7, PlanKeeps

LEMMA NameKeeps ==
    ASSUME Inv, name_generated_key, doubts' = doubts
    PROVE  Inv'
<1>1. /\ run.pc = "name" /\ hsm' = hsm /\ user' = user /\ moved' = moved /\ host' = host /\ fresh' = fresh
      /\ published' = published /\ accepted' = accepted
  BY DEF name_generated_key, Promised
<1>2. PICK label \in Labels \cup {NativeLabel} :
          replace_pkcs11_metadata_record("set", [CurrentOf(host) EXCEPT !.label = label])
  BY Unfold DEF name_generated_key
<1>3. user /\ SyncedOK(hsm, host) /\ doubts = {} /\ run.op = "generate"
  BY <1>1, NoRunFacts, Types DEF Inv, SlotFits, Shape, Call, AttrOps
<1>4. hsm.live /\ Companion(hsm) = {}
  BY <1>3 DEF Inv, Shape
<1>5. /\ hsm \in Device /\ host \in Cache /\ StoreOK(hsm, host, doubts)
  BY <1>3, Types DEF Inv, StoreFits, SlotFits
<1>6. host.known.seq # 0
  BY <1>3, <1>4, <1>5 DEF SyncedOK, Inv, StoreFits, DeviceOK
<1>7. /\ CurrentOf(host) \in Record /\ CurrentOf(host).kind = "canonical"
      /\ CurrentOf(host).target = hsm.seq
  BY <1>5, <1>6, CurrentFacts
<1> DEFINE new == [CurrentOf(host) EXCEPT !.label = label]
<1>8. new \in Record /\ new.kind = "canonical" /\ new.target = hsm.seq
  BY <1>7 DEF Record
<1> HIDE DEF new
<1>9. "set" \in AttrOps /\ replace_pkcs11_metadata_record("set", new)
  BY <1>2 DEF AttrOps, new
<1>10. \A s \in published : HasStored(hsm, s)
  BY <1>3, <1>4 DEF Inv, PublicFits, PublicOK, Companion
<1> QED BY <1>1, <1>3, <1>6, <1>8, <1>9, <1>10, PlanKeeps

(* Calls that begin with the device and the caches as they are.            *)
LEMMA StartKeeps ==
    ASSUME Inv, Begin, doubts' = doubts, run' \in Call, run'.op \in {"create", "discard", "refresh"},
           ~run'.failed, run'.ids = {}, accepted' = accepted, published' \subseteq published,
           run'.op = "create" => run'.pc = "put" /\ run'.new = Stored(hsm.seq) /\ hsm.live /\ run'.todo = {},
           run'.op = "discard" => run'.pc = "delete"
               /\ \A r \in run'.todo : r.kind = "stored" /\ r.target \notin published',
           run'.op = "refresh" => run'.pc = "refresh"
    PROVE  Inv'
<1>1. /\ Idle /\ user /\ hsm' = hsm /\ user' = user /\ moved' = moved /\ host' = host /\ fresh' = fresh
  BY BeginFacts
<1>2. /\ published \subseteq Sequence /\ \A s \in published : ShownIn(hsm, s)
      /\ hsm.live => KeptOK(hsm, accepted) /\ CertainOK(hsm, accepted)
  BY <1>1, IdleFacts
<1>3. run' # NoRun
  BY NoRunFacts
<1>4. HsmObjectsTypeOK'
  BY <1>1, <1>2, Types DEF Inv
<1>5. StoreFits' /\ SlotFits'
  BY <1>1, <1>3 DEF Inv, StoreFits, SlotFits, Idle
<1>6. Shape'
  BY <1>1, <1>3 DEF Shape, AttrOps
<1>7. Replacing' /\ Creating' /\ Destroying'
  BY DEF Replacing, Creating, Destroying, AttrOps
<1>8. Promises' /\ PublicFits'
  BY <1>1, <1>2 DEF Promises, Allowed, PublicFits, PublicOK, ShownIn, AttrOps
<1>9. Discarding'
  BY DEF Discarding
<1> QED BY <1>4, <1>5, <1>6, <1>7, <1>8, <1>9 DEF Inv

LEMMA CreateKeeps ==
    ASSUME Inv, store_backed_object, doubts' = doubts
    PROVE  Inv'
<1>1. Begin /\ hsm.live /\ accepted' = accepted /\ published' = published
        /\ run' = [NoRun EXCEPT !.op = "create", !.pc = "put", !.new = Stored(hsm.seq)]
  BY DEF store_backed_object, Promised
<1>2. Stored(hsm.seq) \in Record
  BY <1>1, BeginFacts, IdleFacts, RecordFacts
<1>3. /\ run' \in Call /\ run'.op = "create" /\ run'.pc = "put" /\ run'.new = Stored(hsm.seq)
      /\ run'.todo = {} /\ run'.ids = {} /\ ~run'.failed
  BY <1>1, <1>2 DEF NoRun, Call
<1> QED BY <1>1, <1>3, StartKeeps

LEMMA DiscardKeeps ==
    ASSUME Inv, destroy_backed_object, doubts' = doubts
    PROVE  Inv'
<1>1. Begin /\ accepted' = accepted
  BY DEF destroy_backed_object
<1>2. PICK s \in 1..MaxSequence :
        /\ run' = [NoRun EXCEPT !.op = "discard", !.pc = "delete", !.todo = {Stored(s)}]
        /\ published' = published \ {s}
  BY DEF destroy_backed_object
<1>3. Stored(s) \in Record /\ Stored(s).kind = "stored" /\ Stored(s).target = s
  BY RecordFacts DEF Sequence, Stored
<1>4. /\ run' \in Call /\ run'.op = "discard" /\ run'.pc = "delete"
      /\ run'.todo = {Stored(s)} /\ run'.ids = {} /\ ~run'.failed
  <2>1. {Stored(s)} \in SUBSET Record
    BY <1>3
  <2> HIDE DEF Stored
  <2> QED BY <1>2, <2>1 DEF NoRun, Call
<1> QED BY <1>1, <1>2, <1>3, <1>4, StartKeeps

LEMMA RefreshBeginKeeps ==
    ASSUME Inv, PKCS11RS_RefreshTokenObjects, doubts' = doubts
    PROVE  Inv'
<1>1. Begin /\ accepted' = accepted /\ published' = published
        /\ run' = [NoRun EXCEPT !.op = "refresh", !.pc = "refresh"]
  BY DEF PKCS11RS_RefreshTokenObjects, Promised
<1>2. run' \in Call /\ run'.op = "refresh" /\ run'.pc = "refresh" /\ run'.ids = {} /\ ~run'.failed
  BY <1>1 DEF NoRun, Call
<1> QED BY <1>1, <1>2, StartKeeps

LEMMA DestroyKeeps ==
    ASSUME Inv, destroy_native_object, doubts' = doubts
    PROVE  Inv'
<1>1. /\ Idle /\ user /\ hsm' = hsm /\ user' = user /\ moved' = moved /\ host' = host /\ fresh' = fresh
      /\ host.known.seq # 0 /\ Risked
      /\ run' = [NoRun EXCEPT !.op = "destroy", !.ids = Obsolete,
                              !.pc = IF CurrentOf(host).public THEN "list" ELSE "native"]
  BY BeginFacts, Unfold DEF destroy_native_object
<1>2. /\ hsm \in Device /\ host \in Cache /\ ~moved /\ StoreOK(hsm, host, doubts)
      /\ published \subseteq Sequence
      /\ hsm.live => KeptOK(hsm, accepted) /\ CertainOK(hsm, accepted)
  BY <1>1, IdleFacts
<1>3. hsm.live
  BY <1>1, <1>2, CurrentFacts
<1>4. Obsolete \in SUBSET OpaqueIds /\ \A id \in Obsolete : id \in Of(hsm, "canonical")
  BY <1>2, FormatFacts DEF Obsolete
<1>5. /\ run' \in Call /\ run'.op = "destroy" /\ run'.ids = Obsolete /\ run'.link = NoObject
      /\ run'.pc = (IF CurrentOf(host).public THEN "list" ELSE "native") /\ run'.failed = FALSE
  <2> HIDE DEF Obsolete
  <2> QED BY <1>1, <1>4 DEF NoRun, Call
<1>6. run' # NoRun
  BY <1>5, NoRunFacts
<1>7. /\ accepted' = accepted /\ published' \subseteq published
      /\ \A s \in published' : HasStored(hsm, s) \/ (s = hsm.seq /\ doubts = {} /\ hsm.live
             /\ CurrentOf(host).public /\ \E id \in Of(hsm, "canonical") : On(hsm, id).public)
  BY <1>1, RiskedFacts
<1>8. HsmObjectsTypeOK'
  BY <1>1, <1>2, <1>5, <1>7, Types DEF Inv
<1>9. StoreFits' /\ SlotFits'
  BY <1>1, <1>5, <1>6 DEF Inv, StoreFits, SlotFits, Idle
<1>10. Shape'
  BY <1>1, <1>5, <1>6 DEF Shape, AttrOps
<1>11. Replacing' /\ Promises' /\ Discarding' /\ Creating'
  BY <1>5 DEF Replacing, Promises, Discarding, Creating, AttrOps
<1>12. PublicFits'
  BY <1>1, <1>5, <1>7 DEF PublicFits, PublicOK, AttrOps
<1>13. Destroying'
  BY <1>1, <1>2, <1>3, <1>4, <1>5, <1>7 DEF Destroying, Of
<1> QED BY <1>8, <1>9, <1>10, <1>11, <1>12, <1>13 DEF Inv

-----------------------------------------------------------------------------
(* Generation, listings, login, and other clients.                         *)

LEMMA GenerateKeeps ==
    ASSUME Inv, generate_key, doubts' = doubts
    PROVE  Inv'
<1> DEFINE e == GeneratedIn(hsm)
<1>1. /\ Idle /\ user /\ ~hsm.live /\ hsm.seq < MaxSequence /\ host' = host /\ published' = published
      /\ fresh' = FALSE /\ accepted' = {Metadata(hsm'.seq, NativeLabel, FALSE)}
  BY DEF generate_key, Changed
<1>2. /\ hsm \in Device /\ host \in Cache /\ ~moved /\ StoreOK(hsm, host, doubts)
      /\ published \subseteq Sequence /\ DeviceOK(hsm) /\ run \in Call
      /\ user \in BOOLEAN /\ moved \in BOOLEAN /\ doubts \subseteq {"change", "hidden"}
  BY <1>1, IdleFacts, Types DEF Inv, StoreFits
<1>3. \A s \in published : HasStored(hsm, s)
  BY <1>1, IdleFacts DEF ShownIn
<1>4. /\ e \in Device /\ DeviceOK(e) /\ e.live /\ e.opaque = hsm.opaque
      /\ Of(e, "canonical") = {} /\ Of(e, "legacy") = {} /\ AttributesOf(e) = Native(e)
      /\ StoreOK(e, host, doubts)
  BY <1>1, <1>2, GeneratedKeeps
<1> HIDE DEF e
<1>5. \A s \in published : HasStored(e, s)
  BY <1>3, <1>4 DEF HasStored, On
<1>6. \A id \in OpaqueIds : On(e, id) = On(hsm, id)
  BY <1>4 DEF On
<1>7. hsm' \in {hsm, e} =>
        /\ accepted' = {Native(hsm')} /\ accepted' \subseteq Record \cup {NoObject}
        /\ hsm' \in Device /\ DeviceOK(hsm') /\ \A s \in published : HasStored(hsm', s)
        /\ hsm'.live => KeptOK(hsm', accepted') /\ CertainOK(hsm', accepted')
  BY <1>1, <1>2, <1>3, <1>4, <1>5, AttributesType DEF Native, KeptOK, CertainOK
<1>8. CASE /\ hsm' = e /\ user' = user /\ moved' = moved
           /\ run' = [NoRun EXCEPT !.op = "generate", !.pc = "refresh"]
  <2>1. run' \in Call /\ run'.op = "generate" /\ run'.pc = "refresh" /\ ~run'.failed /\ run'.ids = {}
    BY <1>8 DEF NoRun, Call
  <2>2. run' # NoRun
    BY <2>1, NoRunFacts
  <2>3. HsmObjectsTypeOK'
    BY <1>1, <1>2, <1>7, <1>8, <2>1, Types
  <2>4. StoreFits' /\ SlotFits'
    BY <1>1, <1>2, <1>4, <1>8, <2>1, <2>2 DEF StoreFits, SlotFits, Idle
  <2>5. Shape'
    BY <1>1, <1>4, <1>8, <2>1, <2>2 DEF Shape, Companion, AttrOps
  <2>6. Replacing' /\ Discarding' /\ Creating' /\ Destroying'
    BY <2>1 DEF Replacing, Discarding, Creating, Destroying, AttrOps
  <2>7. Promises' /\ PublicFits'
    BY <1>1, <1>7, <1>8, <2>1 DEF Promises, Allowed, PublicFits, PublicOK, AttrOps
  <2> QED BY <2>3, <2>4, <2>5, <2>6, <2>7 DEF Inv
<1>9. CASE Failed(GeneratedIn(hsm)) /\ run' = run
  <2>1. \/ hsm' = hsm /\ user' = user /\ moved' = moved
        \/ hsm' \in {hsm, e} /\ user' = FALSE /\ moved' = TRUE
    BY <1>9, FailedCases DEF e
  <2>2. hsm' \in {hsm, e} /\ run' = NoRun
    BY <1>1, <1>9, <2>1 DEF Idle
  <2>3. user' \in BOOLEAN /\ moved' \in BOOLEAN /\ (user' => ~moved') /\ (user' => hsm' = hsm)
    <3>1. CASE user' = user /\ moved' = moved /\ hsm' = hsm
      BY <1>2, <3>1
    <3>2. CASE user' = FALSE /\ moved' = TRUE
      BY <3>2, Zenon
    <3> QED BY <2>1, <3>1, <3>2
  <2>4. HsmObjectsTypeOK'
    BY <1>1, <1>2, <1>7, <2>2, <2>3, NoRunFacts, Types
  <2>5. StoreFits'
    BY <1>1, <1>7, <2>1, <2>2, StoreFailed
  <2>6. fresh' \/ (user' /\ "change" \notin doubts') => SyncedOK(hsm', host')
    BY <1>1, <2>3 DEF Inv, SlotFits
  <2>7. user' /\ doubts' = {} => Single(hsm')
    BY <1>1, <2>3 DEF Inv, SlotFits
  <2> QED BY <1>1, <1>7, <2>2, <2>3, <2>4, <2>5, <2>6, <2>7, IdleInv
<1> QED BY <1>8, <1>9 DEF generate_key, GeneratedIn, e

LEMMA LogoutKeeps ==
    ASSUME Inv, logout_user, doubts' = doubts
    PROVE  Inv'
<1>1. /\ Idle /\ user /\ user' = FALSE /\ host' = Cleared(host) /\ fresh' = FALSE /\ accepted' = accepted
      /\ published' = published /\ hsm' = hsm /\ moved' = moved /\ run' = NoRun
  BY DEF logout_user, Promised, Idle
<1>2. /\ hsm \in Device /\ host \in Cache /\ ~moved /\ StoreOK(hsm, host, doubts)
      /\ published \subseteq Sequence /\ \A s \in published : ShownIn(hsm, s)
      /\ hsm.live => KeptOK(hsm, accepted) /\ CertainOK(hsm, accepted)
  BY <1>1, IdleFacts
<1>3. host' \in Cache /\ StoreOK(hsm, host', doubts)
  BY <1>1, <1>2, ClearedKeeps
<1>4. HsmObjectsTypeOK'
  <2>1. user' \in BOOLEAN /\ fresh' \in BOOLEAN
    BY <1>1
  <2> QED BY <1>1, <1>3, <2>1, NoRunFacts, Types DEF Inv
<1>5. StoreFits'
  BY <1>1, <1>3 DEF Inv, StoreFits
<1> QED BY <1>1, <1>2, <1>4, <1>5, IdleInv DEF ShownIn

LEMMA LoginKeeps ==
    ASSUME Inv, login_user
    PROVE  Inv'
<1>1. /\ Idle /\ ~user /\ user' = TRUE /\ host' = Synchronized(Cleared(host)) /\ moved' = FALSE
      /\ doubts' = (IF moved THEN {} ELSE doubts) /\ accepted' = accepted /\ published' = published
      /\ hsm' = hsm /\ fresh' = fresh
      /\ run' = [NoRun EXCEPT !.op = "login", !.pc = "refresh"]
  BY DEF login_user, Promised
<1>2. /\ hsm \in Device /\ host \in Cache /\ run = NoRun /\ moved \in BOOLEAN /\ fresh \in BOOLEAN
      /\ DeviceOK(hsm) /\ (~moved => StoreOK(hsm, host, doubts)) /\ ~fresh
      /\ doubts \subseteq {"change", "hidden"}
  BY <1>1, Types DEF Inv, Idle, StoreFits, SlotFits
<1>3. Cleared(host) \in Cache /\ (~moved => StoreOK(hsm, Cleared(host), doubts))
  BY <1>2, ClearedKeeps
<1>4. host' \in Cache /\ StoreOK(hsm, host', doubts')
  BY <1>1, <1>2, <1>3, SynchronizedKeeps
<1>5. run' \in Call /\ run'.op = "login" /\ run'.pc = "refresh" /\ ~run'.failed
  BY <1>1 DEF NoRun, Call
<1>6. run' # NoRun
  BY <1>5, NoRunFacts
<1>7. HsmObjectsTypeOK'
  <2>1. user' \in BOOLEAN /\ moved' \in BOOLEAN /\ doubts' \subseteq {"change", "hidden"}
    BY <1>1, <1>2
  <2> QED BY <1>1, <1>4, <1>5, <2>1, Types DEF Inv
<1>8. StoreFits' /\ SlotFits'
  BY <1>1, <1>2, <1>4, <1>5, <1>6 DEF StoreFits, SlotFits, Idle
<1>9. Shape'
  BY <1>1, <1>5, <1>6 DEF Shape, AttrOps
<1>10. Replacing' /\ Discarding' /\ Creating' /\ Destroying'
  BY <1>5 DEF Replacing, Discarding, Creating, Destroying, AttrOps
<1>11. Promises' /\ PublicFits'
  <2>1. Promises'
    BY <1>1, <1>2, <1>5, NoRunFacts DEF Inv, Promises, Allowed, AttrOps
  <2>2. PublicFits'
    BY <1>1, <1>2, <1>5, NoRunFacts DEF Inv, PublicFits, PublicOK, AttrOps
  <2> QED BY <2>1, <2>2
<1> QED BY <1>7, <1>8, <1>9, <1>10, <1>11 DEF Inv

LEMMA OtherKeeps ==
    ASSUME Inv, OtherReplaces
    PROVE  Inv'
<1>1. /\ Idle /\ hsm.replaces /\ accepted' = Held' \cup {Attributes'}
      /\ published' = {s \in published : Published(s)'} /\ fresh' = FALSE
      /\ doubts' = doubts \cup {"change"} /\ host' = host /\ user' = user /\ moved' = moved /\ run' = NoRun
  BY DEF OtherReplaces, Idle
<1>2. PICK id \in Of(hsm, "canonical"), label \in Labels :
          hsm' = PutIn(hsm, id, [On(hsm, id) EXCEPT !.label = label])
  BY Unfold DEF OtherReplaces, Put, PutIn, On
<1>3. /\ hsm \in Device /\ host \in Cache /\ user \in BOOLEAN /\ moved \in BOOLEAN /\ DeviceOK(hsm)
      /\ doubts \subseteq {"change", "hidden"} /\ (user => ~moved)
      /\ (~moved => StoreOK(hsm, host, doubts)) /\ published \subseteq Sequence
  BY Types DEF Inv, StoreFits, SlotFits
<1> DEFINE r == [On(hsm, id) EXCEPT !.label = label]
<1>4. id \in OpaqueIds /\ On(hsm, id) \in Record /\ On(hsm, id).kind = "canonical" /\ On(hsm, id) # NoObject
  BY <1>3 DEF Of, Device, Opaque, On
<1>5. r \in Record /\ Alike(On(hsm, id), r) /\ r.target = On(hsm, id).target /\ r.kind = "canonical"
  BY <1>4 DEF Record, Alike
<1> HIDE DEF r
<1>6. hsm' = PutIn(hsm, id, r)
  BY <1>2 DEF r
<1>7. OnlyAt(hsm, hsm', id) /\ On(hsm', id) = r
  BY <1>3, <1>4, <1>5, <1>6, PutFacts
<1>8. hsm' \in Device /\ DeviceOK(hsm')
  <2>1. hsm' \in Device /\ hsm'.seq = hsm.seq
    BY <1>7 DEF OnlyAt
  <2>2. r.target \in 1..hsm'.seq
    BY <1>3, <1>4, <1>5, <2>1 DEF DeviceOK
  <2> QED BY <1>3, <1>4, <1>5, <1>7, <2>1, <2>2, DeviceKept
<1>9. StoreFits'
  <2>1. ASSUME ~moved PROVE StoreOK(hsm', host, doubts')
    BY <1>1, <1>3, <1>5, <1>6, <2>1, ReplacedKeeps
  <2> QED BY <1>1, <1>8, <2>1 DEF StoreFits
<1>10. /\ accepted' \subseteq Record \cup {NoObject} /\ published' \subseteq Sequence
       /\ KeptOK(hsm', accepted') /\ CertainOK(hsm', accepted')
       /\ \A s \in published' : ShownIn(hsm', s)
  BY <1>1, <1>3, <1>8, ResetKeeps
<1>11. HsmObjectsTypeOK'
  <2>1. user' \in BOOLEAN /\ moved' \in BOOLEAN /\ fresh' \in BOOLEAN
    BY <1>1, <1>3
  <2> QED BY <1>1, <1>3, <1>8, <1>10, <2>1, NoRunFacts, Types
<1>12. (user' => ~moved') /\ ~fresh'
  BY <1>1, <1>3
<1> QED BY <1>1, <1>9, <1>10, <1>11, <1>12, IdleInv DEF ShownIn

(* What a call promises that returns from its listing.                     *)
LEMMA RefreshReturns ==
    ASSUME Inv, run.pc = "refresh", NEW ok \in BOOLEAN, Return(ok), hsm' = hsm, ok => ~run.failed /\ user
    PROVE  /\ run' = NoRun
           /\ accepted' \subseteq Record \cup {NoObject} /\ published' \subseteq Sequence
           /\ hsm'.live => KeptOK(hsm', accepted') /\ CertainOK(hsm', accepted')
           /\ \A s \in published' : ShownIn(hsm', s)
<1>1. /\ hsm \in Device /\ run \in Call /\ hsm.seq \in Sequence
      /\ accepted \subseteq Record \cup {NoObject} /\ published \subseteq Sequence /\ run' = NoRun
  BY Types DEF Inv, Device, Return
<1>2. CASE run.op \in AttrOps
  <2>1. /\ accepted' = (IF ok /\ doubts = {} THEN {run.new} ELSE accepted \cup {run.new, NoObject})
        /\ published' = (IF ok /\ doubts = {} /\ run.op = "project"
                         THEN published \cup {run.new.target} ELSE published)
    BY <1>2 DEF Return, AttrOps
  <2>2. /\ hsm.live /\ run.new \in Record /\ run.new.kind = "canonical" /\ run.new.target = hsm.seq
        /\ run.op = "project" => run.new.public
        /\ KeptOK(hsm, accepted \cup {run.new}) /\ run.new # NoObject
    BY <1>2, RecordFacts DEF Inv, Shape, Promises, Allowed, AttrOps
  <2>3. \A s \in published : ShownIn(hsm, s)
    BY <1>2 DEF Inv, PublicFits, PublicOK, ShownIn, AttrOps
  <2>4. CASE ok /\ doubts = {}
    <3>1. SureOK(hsm, host, run)
      BY <1>2, <2>4 DEF Inv, Replacing
    <3>2. /\ \A id \in Of(hsm, "canonical") : On(hsm, id) = run.new
          /\ \A i, j \in Of(hsm, "canonical") : i = j
          /\ Bare(hsm, run) \/ \E id \in OpaqueIds : On(hsm, id) = run.new
      BY <3>1 DEF SureOK
    <3>3. \A id \in OpaqueIds : On(hsm, id) = run.new => id \in Of(hsm, "canonical")
      BY <2>2 DEF Of
    <3>4. AttributesOf(hsm) = run.new
      <4>1. CASE Of(hsm, "canonical") = {}
        <5>1. is_empty(run.new) /\ Of(hsm, "legacy") = {}
          BY <3>2, <3>3, <4>1 DEF Bare
        <5>2. AttributesOf(hsm) = Native(hsm)
          BY <1>1, <4>1, <5>1, AttributesNone
        <5> QED BY <1>1, <2>2, <5>1, <5>2, IsNative
      <4>2. CASE Of(hsm, "canonical") # {}
        <5>1. PICK id \in Of(hsm, "canonical") : TRUE
          BY <4>2
        <5>2. Of(hsm, "canonical") = {id} /\ id \in OpaqueIds
          BY <3>2, <5>1 DEF Of
        <5> QED BY <1>1, <3>2, <5>2, AttributesOne
      <4> QED BY <4>1, <4>2
    <3>5. KeptOK(hsm, accepted') /\ CertainOK(hsm, accepted')
      BY <2>1, <2>4, <3>2, <3>4 DEF KeptOK, CertainOK
    <3>6. run.op = "project" => ShownIn(hsm, run.new.target)
      BY <2>2, <3>2, <3>3 DEF ShownIn, Bare, is_empty
    <3> QED BY <1>1, <2>1, <2>2, <2>3, <2>4, <3>5, <3>6
  <2>5. CASE ~(ok /\ doubts = {})
    <3>1. accepted' = accepted \cup {run.new, NoObject} /\ published' = published
      BY <2>1, <2>5
    <3> QED BY <1>1, <2>2, <2>3, <3>1, KeptMore DEF CertainOK
  <2> QED BY <2>4, <2>5
<1>3. CASE run.op = "destroy"
  <2>1. ~hsm.live /\ \A s \in published : HasStored(hsm, s)
    BY <1>3 DEF Inv, Destroying, PublicFits, PublicOK
  <2>2. CASE ~ok /\ ~user'
    <3>1. accepted' = Held' \cup {Attributes'} /\ published' = {s \in published : Published(s)'}
      BY <1>3, <2>2, Zenon DEF Return
    <3> QED BY <1>1, <3>1, ResetKeeps
  <2>3. CASE ~(~ok /\ ~user')
    <3>1. accepted' = accepted /\ published' = published
      BY <1>3, <2>3 DEF Return
    <3> QED BY <1>1, <2>1, <3>1 DEF ShownIn
  <2> QED BY <2>2, <2>3
<1>4. CASE run.op \notin AttrOps \cup {"destroy"}
  <2>1. hsm.live => KeptOK(hsm, accepted) /\ CertainOK(hsm, accepted)
    BY <1>4 DEF Inv, Promises, Allowed
  <2>2. \A s \in published : ShownIn(hsm, s)
    BY <1>4 DEF Inv, PublicFits, PublicOK, ShownIn
  <2>3. CASE run.op = "create"
    <3>1. HasStored(hsm, hsm.seq) /\ run.new = Stored(hsm.seq)
      BY <2>3 DEF Inv, Creating, Shape
    <3>2. accepted' = accepted /\ published' \subseteq published \cup {hsm.seq}
      BY <2>3, <3>1 DEF Return, Stored
    <3> QED BY <1>1, <2>1, <2>2, <3>1, <3>2 DEF ShownIn
  <2>4. CASE run.op # "create"
    <3>1. accepted' = accepted /\ published' = published
      BY <1>4, <2>4 DEF Return, AttrOps
    <3> QED BY <1>1, <2>1, <2>2, <3>1
  <2> QED BY <2>3, <2>4
<1> QED BY <1>2, <1>3, <1>4

LEMMA RefreshKeeps ==
    ASSUME Inv, refresh
    PROVE  Inv'
<1>0. run.pc = "refresh"
  BY DEF refresh
<1>1. /\ hsm \in Device /\ host \in Cache /\ run \in Call /\ user \in BOOLEAN /\ moved \in BOOLEAN
      /\ fresh \in BOOLEAN /\ DeviceOK(hsm) /\ (user => ~moved) /\ (~moved => StoreOK(hsm, host, doubts))
      /\ doubts \subseteq {"change", "hidden"} /\ run.failed \in BOOLEAN
  BY Types DEF Inv, StoreFits, SlotFits, Call
<1>2. ASSUME Done(hsm), host' = backend_token_objects(host), fresh' = TRUE,
             doubts' = IF Cardinality(Companions("canonical")) > 1 THEN {"hidden"} ELSE {},
             IF run.op = "generate" THEN Goto("name") /\ Promised ELSE Return(~run.failed)
      PROVE  Inv'
  <2>1. user /\ hsm' = hsm /\ user' = user /\ moved' = moved
    BY <1>2 DEF Done
  <2>2. host' \in Cache /\ StoreOK(hsm, host', {}) /\ SyncedOK(hsm, host')
    BY <1>1, <1>2, <2>1, BackendFacts
  <2>3. /\ doubts' \subseteq {"change", "hidden"} /\ (doubts' = {} => Single(hsm))
        /\ Of(hsm, "canonical") = {} => doubts' = {}
    <3>1. Of(hsm, "canonical") \in SUBSET OpaqueIds /\ Companions("canonical") = Of(hsm, "canonical")
      BY Unfold DEF Of
    <3> QED BY <1>2, <3>1, CardinalityOne DEF Single
  <2>4. StoreFits'
    BY <1>1, <2>1, <2>2, StaleKeeps DEF StoreFits
  <2>5. /\ user' \in BOOLEAN /\ moved' \in BOOLEAN /\ fresh' \in BOOLEAN /\ user' /\ ~moved' /\ fresh'
    BY <1>1, <1>2, <2>1
  <2>6. CASE run.op = "generate"
    <3>1. /\ run' = [run EXCEPT !.pc = "name"] /\ accepted' = accepted /\ published' = published
      BY <1>2, <2>6 DEF Goto, Promised
    <3>2. run' \in Call /\ run'.pc = "name" /\ run'.op = "generate" /\ run'.failed = run.failed
      BY <1>1, <2>6, <3>1, RunFields
    <3>3. run' # NoRun
      BY <3>2, NoRunFacts
    <3>4. hsm.live /\ Companion(hsm) = {} /\ ~run.failed /\ doubts' = {}
      BY <2>3, <2>6 DEF Inv, Shape, Companion
    <3>5. HsmObjectsTypeOK'
      BY <2>1, <2>2, <2>3, <2>5, <3>1, <3>2, Types DEF Inv
    <3>6. SlotFits'
      BY <2>1, <2>2, <2>5, <3>2, <3>3, <3>4 DEF SlotFits, Idle
    <3>7. Shape'
      BY <2>1, <2>5, <3>2, <3>3, <3>4 DEF Shape, AttrOps
    <3>8. Replacing' /\ Discarding' /\ Creating' /\ Destroying'
      BY <3>2 DEF Replacing, Discarding, Creating, Destroying, AttrOps
    <3>9. Promises'
      BY <2>1, <2>6, <3>1, <3>2 DEF Inv, Promises, Allowed, AttrOps
    <3>10. PublicFits'
      BY <2>1, <2>6, <3>1, <3>2 DEF Inv, PublicFits, PublicOK, AttrOps
    <3> QED BY <2>4, <3>5, <3>6, <3>7, <3>8, <3>9, <3>10 DEF Inv
  <2>7. CASE run.op # "generate"
    <3>1. /\ run' = NoRun
          /\ accepted' \subseteq Record \cup {NoObject} /\ published' \subseteq Sequence
          /\ hsm'.live => KeptOK(hsm', accepted') /\ CertainOK(hsm', accepted')
          /\ \A s \in published' : ShownIn(hsm', s)
      <4> DEFINE ok == ~run.failed
      <4>1. ok \in BOOLEAN /\ Return(ok) /\ (ok => ~run.failed /\ user)
        BY <1>2, <2>1, <2>7
      <4> HIDE DEF ok
      <4> QED BY <1>0, <2>1, <4>1, RefreshReturns
    <3>2. HsmObjectsTypeOK'
      BY <1>1, <2>1, <2>2, <2>3, <2>5, <3>1, NoRunFacts, Types
    <3> QED BY <2>1, <2>2, <2>3, <2>4, <2>5, <3>1, <3>2, IdleInv DEF ShownIn
  <2> QED BY <2>6, <2>7
<1>3. ASSUME ListingFailed, doubts' = doubts \cup {"change"} PROVE Inv'
  <2>0. user /\ Failed(hsm) /\ Return(FALSE) /\ fresh' = FALSE
    BY <1>3 DEF ListingFailed, Changed
  <2>1. PICK ids \in SUBSET OpaqueIds, at \in OpaqueIds :
            host' = [Listed(host, ids) EXCEPT !.cached[at] =
                IF Present(at) /\ @.seq # hsm.opaque[at].seq THEN Entry(0, NoObject) ELSE @]
    BY <1>3 DEF ListingFailed
  <2>2. host' \in Cache /\ StoreOK(hsm, host', doubts)
    BY <1>1, <2>0, <2>1, ListingKeeps
  <2>3. hsm' = hsm
    BY <2>0, FailedCases
  <2>4. user' \in BOOLEAN /\ moved' \in BOOLEAN /\ (user' => ~moved')
    <3>1. CASE user' = user /\ moved' = moved
      BY <1>1, <3>1
    <3>2. CASE user' = FALSE /\ moved' = TRUE
      BY <3>2, Zenon
    <3> QED BY <2>0, <3>1, <3>2, FailedCases
  <2>5. StoreFits'
    BY <1>1, <1>3, <2>2, <2>3, StaleKeeps DEF StoreFits
  <2>6. /\ run' = NoRun
        /\ accepted' \subseteq Record \cup {NoObject} /\ published' \subseteq Sequence
        /\ hsm'.live => KeptOK(hsm', accepted') /\ CertainOK(hsm', accepted')
        /\ \A s \in published' : ShownIn(hsm', s)
    BY <1>0, <2>0, <2>3, RefreshReturns
  <2>7. HsmObjectsTypeOK'
    <3>1. fresh' \in BOOLEAN
      BY <2>0
    <3> QED BY <1>1, <1>3, <2>2, <2>3, <2>4, <2>6, <3>1, NoRunFacts, Types
  <2> QED BY <1>3, <2>0, <2>3, <2>4, <2>5, <2>6, <2>7, IdleInv DEF ShownIn
<1>4. ASSUME ~user, host' = Synchronized(host), moved' = FALSE, doubts' = IF moved THEN {} ELSE doubts,
             Return(~run.failed), Changed, UNCHANGED <<hsm, user, spent>>
      PROVE  Inv'
  <2>1. run.failed /\ hsm' = hsm /\ user' = user /\ fresh' = FALSE
    BY <1>0, <1>4 DEF Inv, Shape, Changed
  <2>2. host' \in Cache /\ StoreOK(hsm, host', doubts')
    BY <1>1, <1>4, SynchronizedKeeps
  <2>3. StoreFits'
    BY <1>1, <2>1, <2>2 DEF StoreFits
  <2>4. /\ run' = NoRun
        /\ accepted' \subseteq Record \cup {NoObject} /\ published' \subseteq Sequence
        /\ hsm'.live => KeptOK(hsm', accepted') /\ CertainOK(hsm', accepted')
        /\ \A s \in published' : ShownIn(hsm', s)
    <3> DEFINE ok == ~run.failed
    <3>1. ok \in BOOLEAN /\ Return(ok) /\ (ok => ~run.failed /\ user)
      BY <1>4, <2>1
    <3> HIDE DEF ok
    <3> QED BY <1>0, <2>1, <3>1, RefreshReturns
  <2>5. user' \in BOOLEAN /\ moved' \in BOOLEAN /\ fresh' \in BOOLEAN /\ ~user' /\ ~fresh'
          /\ doubts' \subseteq {"change", "hidden"}
    <3>1. user' \in BOOLEAN /\ ~user'
      <4>1. user = FALSE
        BY <1>1, <1>4
      <4>2. user' = FALSE
        BY <2>1, <4>1
      <4> QED BY <4>2, Zenon
    <3>2. moved' \in BOOLEAN
      BY <1>4
    <3>3. fresh' \in BOOLEAN /\ ~fresh'
      BY <2>1, Zenon
    <3>4. doubts' \subseteq {"change", "hidden"}
      BY <1>1, <1>4
    <3> QED BY <3>1, <3>2, <3>3, <3>4, Zenon
  <2>6. HsmObjectsTypeOK'
    BY <1>1, <2>1, <2>2, <2>4, <2>5, NoRunFacts, Types
  <2> QED BY <2>3, <2>4, <2>5, <2>6, IdleInv DEF ShownIn
<1> QED BY <1>2, <1>3, <1>4, Zenon DEF refresh

-----------------------------------------------------------------------------
(* The invariant of the specification, and the theorems.                   *)

LEMMA LegacyOnly ==
    ASSUME NEW d \in Device, d.seq = 1, NEW old \in Record, old.kind = "legacy", old.target = 1,
           ~old.public, \A id \in OpaqueIds : On(d, id) \in {old, NoObject}
    PROVE  DeviceOK(d) /\ Of(d, "canonical") = {}
  BY DEF DeviceOK, Of

LEMMA DeviceFields ==
    ASSUME NEW replaces \in BOOLEAN, NEW f \in Opaque, NEW d,
           d = [live |-> TRUE, seq |-> 1, replaces |-> replaces, opaque |-> f]
    PROVE  d.seq = 1 /\ d.opaque = f /\ d \in Device
  BY RecordFacts, Zenon DEF Device

LEMMA FirstDevice ==
    ASSUME NEW replaces \in BOOLEAN, NEW first \in OpaqueIds, NEW legacy \in Labels \cup {NativeLabel},
           NEW d,
           d = [live |-> TRUE, seq |-> 1, replaces |-> replaces,
                opaque |-> [id \in OpaqueIds |->
                   IF id = first /\ legacy # NativeLabel
                   THEN Entry(1, [Metadata(1, legacy, FALSE) EXCEPT !.kind = "legacy"])
                   ELSE Entry(0, NoObject)]]
    PROVE  d \in Device /\ DeviceOK(d) /\ Of(d, "canonical") = {}
<1> DEFINE old == [Metadata(1, legacy, FALSE) EXCEPT !.kind = "legacy"]
<1>1. old \in Record /\ old.kind = "legacy" /\ old.target = 1 /\ old.public = FALSE
  BY RecordFacts DEF Metadata, Record
<1> HIDE DEF old
<1> DEFINE f == [id \in OpaqueIds |-> IF id = first /\ legacy # NativeLabel
                                      THEN Entry(1, old) ELSE Entry(0, NoObject)]
<1>2. d = [live |-> TRUE, seq |-> 1, replaces |-> replaces, opaque |-> f]
  BY DEF old
<1>3. f \in Opaque /\ \A id \in OpaqueIds : f[id].record \in {old, NoObject}
  <2>1. Entry(1, old) \in [seq : Nat, record : Record \cup {NoObject}] /\ Entry(1, old).record = old
    BY <1>1 DEF Entry
  <2>2. Entry(0, NoObject) \in [seq : Nat, record : Record \cup {NoObject}]
          /\ Entry(0, NoObject).record = NoObject
    BY DEF Entry
  <2> QED BY <2>1, <2>2 DEF Opaque
<1> HIDE DEF f
<1>4. d.seq = 1 /\ d.opaque = f /\ d \in Device
  BY <1>2, <1>3, DeviceFields
<1>5. \A id \in OpaqueIds : On(d, id) \in {old, NoObject}
  BY <1>3, <1>4, Zenon DEF On
<1>6. ~old.public
  BY <1>1, Zenon
<1> QED BY <1>1, <1>4, <1>5, <1>6, LegacyOnly

LEMMA InitInv ==
    ASSUME HsmObjectsInit
    PROVE  Inv
<1>1. hsm \in Device /\ DeviceOK(hsm) /\ Of(hsm, "canonical") = {}
  BY FirstDevice DEF HsmObjectsInit
<1>2. /\ host = EmptyCache /\ user = FALSE /\ moved = FALSE /\ run = NoRun
      /\ accepted = {AttributesOf(hsm)} /\ published = {} /\ fresh = FALSE /\ doubts = {}
  BY Unfold DEF HsmObjectsInit
<1>3. host \in Cache /\ StoreOK(hsm, host, doubts)
  BY <1>1, <1>2, EmptyKeeps
<1>4. user \in BOOLEAN /\ moved \in BOOLEAN /\ fresh \in BOOLEAN /\ ~user /\ ~fresh /\ ~moved
  BY <1>2, Zenon
<1>5. HsmObjectsTypeOK
  BY <1>1, <1>2, <1>3, <1>4, NoRunFacts, AttributesType, Types
<1>6. StoreFits
  BY <1>1, <1>3 DEF StoreFits
<1>7. SlotFits /\ Shape
  BY <1>2, <1>4, NoRunFacts DEF SlotFits, Shape, AttrOps, Idle
<1>8. Replacing /\ Discarding /\ Creating /\ Destroying
  BY <1>2, NoRunFacts DEF Replacing, Discarding, Creating, Destroying, AttrOps
<1>9. Promises /\ PublicFits
  BY <1>1, <1>2, NoRunFacts DEF Promises, PublicFits, KeptOK, CertainOK, Allowed, AttrOps
<1> QED BY <1>5, <1>6, <1>7, <1>8, <1>9 DEF Inv

LEMMA StutterKeeps ==
    ASSUME Inv, UNCHANGED hsmObjectVars
    PROVE  Inv'
<1>1. /\ hsm' = hsm /\ host' = host /\ user' = user /\ moved' = moved /\ run' = run
      /\ accepted' = accepted /\ published' = published /\ fresh' = fresh /\ doubts' = doubts
  BY DEF hsmObjectVars
<1>2. HsmObjectsTypeOK'
  BY <1>1, Types DEF Inv
<1>3. StoreFits' /\ SlotFits'
  BY <1>1 DEF Inv, StoreFits, SlotFits, Idle
<1>4. Shape'
  BY <1>1 DEF Inv, Shape
<1>5. Replacing' /\ Discarding' /\ Creating' /\ Destroying'
  BY <1>1 DEF Inv, Replacing, Discarding, Creating, Destroying
<1>6. Promises' /\ PublicFits'
  BY <1>1 DEF Inv, Promises, PublicFits, Allowed
<1> QED BY <1>2, <1>3, <1>4, <1>5, <1>6 DEF Inv

LEMMA ActsKeep ==
    ASSUME Inv, Acts, doubts' = IF ~Idle /\ Idle' THEN doubts \cup {"change"} ELSE doubts
    PROVE  Inv'
<1>1. CASE Idle
  <2>1. doubts' = doubts /\ run.pc = "none"
    BY <1>1, NoRunFacts DEF Idle
  <2>2. \/ yubihsm_set_attributes \/ persist_public_projection \/ destroy_public_projection
        \/ store_backed_object \/ destroy_backed_object \/ destroy_native_object
        \/ generate_key \/ logout_user \/ PKCS11RS_RefreshTokenObjects
    BY <2>1 DEF Acts, try_update_storage_object, put, delete, delete_metadata_objects, list, unlink,
                write_standalone_storage_object, delete_native, undo, restore, name_generated_key
  <2> QED BY <2>1, <2>2, SetKeeps, ProjectKeeps, UnprojectKeeps, CreateKeeps, DiscardKeeps,
             DestroyKeeps, GenerateKeeps, LogoutKeeps, RefreshBeginKeeps, Zenon
<1>2. CASE ~Idle
  <2>1. doubts' = IF run' = NoRun THEN doubts \cup {"change"} ELSE doubts
    BY <1>2 DEF Idle
  <2>2. \/ try_update_storage_object \/ put \/ delete \/ delete_metadata_objects
        \/ list \/ unlink \/ write_standalone_storage_object
        \/ delete_native \/ undo \/ restore \/ name_generated_key
    BY <1>2 DEF Acts, Begin, yubihsm_set_attributes, persist_public_projection, destroy_public_projection,
                store_backed_object, destroy_backed_object, destroy_native_object, generate_key,
                logout_user, PKCS11RS_RefreshTokenObjects
  <2>3. ASSUME name_generated_key PROVE doubts' = doubts
    <3>1. PICK label \in Labels \cup {NativeLabel} :
              replace_pkcs11_metadata_record("set", [Current EXCEPT !.label = label])
      BY <2>3 DEF name_generated_key
    <3>2. run'.op = "set"
      BY <3>1 DEF replace_pkcs11_metadata_record, NoRun
    <3> QED BY <2>1, <3>2, NoRunFacts
  <2> QED BY <2>1, <2>2, <2>3, UpdateKeeps, PutKeeps, DeleteKeeps, EraseKeeps, EraseDestroyKeeps,
             ListKeeps, UnlinkKeeps, StandaloneKeeps, NativeKeeps, UndoKeeps, RestoreKeeps, NameKeeps,
             Zenon
<1> QED BY <1>1, <1>2

LEMMA NextKeeps ==
    ASSUME Inv, [HsmObjectsNext]_hsmObjectVars
    PROVE  Inv'
  BY ActsKeep, RefreshKeeps, LoginKeeps, OtherKeeps, StutterKeeps, Zenon DEF HsmObjectsNext

LEMMA InvImplies ==
    ASSUME Inv
    PROVE  UpdateStored /\ AttributesKept /\ PublicOutlivesKey
<1>1. hsm \in Device /\ run \in Call /\ NoObject \notin Record /\ AttributesOf(hsm) \in Record
  BY Types, RecordFacts, AttributesType DEF Inv
<1>2. Idle => run.op = "none" /\ run.pc = "none"
  BY NoRunFacts DEF Idle
<1>3. UpdateStored
  <2> SUFFICES ASSUME Idle, hsm.live
               PROVE  /\ \A a \in accepted : accepted = {a} => Attributes = a
                      /\ user /\ fresh => host.known.seq = hsm.seq /\ Current = Attributes
    BY DEF UpdateStored
  <2>1. KeptOK(hsm, accepted) /\ CertainOK(hsm, accepted)
    BY <1>2 DEF Inv, Promises, Allowed, AttrOps
  <2>2. ASSUME NEW a \in accepted, accepted = {a} PROVE Attributes = a
    <3>1. a # NoObject
      <4>1. CASE Of(hsm, "canonical") = {}
        BY <1>1, <2>1, <2>2, <4>1 DEF KeptOK
      <4>2. CASE Of(hsm, "canonical") # {}
        <5>1. PICK id \in Of(hsm, "canonical") : On(hsm, id) # NoObject
          BY <4>2 DEF Of
        <5> QED BY <2>1, <2>2, <5>1 DEF KeptOK
      <4> QED BY <4>1, <4>2
    <3> QED BY <2>1, <2>2, <3>1, Unfold DEF CertainOK
  <2>3. ASSUME user, fresh PROVE host.known.seq = hsm.seq /\ Current = Attributes
    BY <2>3, Unfold DEF Inv, SlotFits, SyncedOK
  <2> QED BY <2>2, <2>3
<1>4. AttributesKept
  <2> SUFFICES ASSUME hsm.live, run.op # "destroy" PROVE Held \cap (accepted \cup {run.new}) # {}
    BY DEF AttributesKept
  <2>1. KeptOK(hsm, accepted \cup {run.new})
    BY KeptMore DEF Inv, Promises, Allowed
  <2>2. Held = {On(hsm, id) : id \in Of(hsm, "canonical")}
                   \cup (IF Of(hsm, "canonical") = {} THEN {AttributesOf(hsm)} ELSE {})
    BY Unfold DEF Held, On
  <2> QED BY <2>1, <2>2 DEF KeptOK
<1>5. PublicOutlivesKey
  BY <1>2, PublishedNow DEF Inv, PublicFits, PublicOK, ShownIn, PublicOutlivesKey
<1> QED BY <1>3, <1>4, <1>5

\* The inductive invariant: what the caches of a slot say of its YubiHSM is there,
\* a replacement deletes companions only when another one has the new attributes,
\* and a destruction can write back what it took away (src/backend/yubihsm.rs).
THEOREM HsmObjectsInvariance == HsmObjectsSpec => []Inv
<1>1. HsmObjectsInit => Inv
  BY InitInv
<1>2. Inv /\ [HsmObjectsNext]_hsmObjectVars => Inv'
  BY NextKeeps
<1> QED BY <1>1, <1>2, PTL DEF HsmObjectsSpec

\* An update of the attributes that returned success is on the device for every
\* client, and a listing shows what the device holds, whatever was refused, lost or
\* changed by others (replace_pkcs11_metadata_record, refresh_slot_token_objects).
THEOREM UpdatesAreStored == HsmObjectsSpec => []UpdateStored
  BY HsmObjectsInvariance, InvImplies, PTL

\* Replacement creates before it deletes: at every moment of a change the key has
\* attributes it had or is getting (try_update_storage_object, delete_metadata_objects).
THEOREM AttributesAreKept == HsmObjectsSpec => []AttributesKept
  BY HsmObjectsInvariance, InvImplies, PTL

\* A public key that was created stays until it is destroyed, also when the private
\* key goes, or when its destruction is refused and undone (destroy_native_object).
THEOREM PublicKeysOutlive == HsmObjectsSpec => []PublicOutlivesKey
  BY HsmObjectsInvariance, InvImplies, PTL
=============================================================================
