---------------------------- MODULE SoftwareStore ----------------------------
(***************************************************************************)
(* The encrypted store of a software slot: a directory of immutable header *)
(* files, one per generation, which wrap the master keys of the two realms *)
(* under the PINs, and a directory of immutable records encrypted under    *)
(* the private master key.                                                 *)
(*                                                                         *)
(* The operations are split at their file operations.  A process dies      *)
(* between any two of them, any of them fails, and a power loss takes back *)
(* the last directory changes that no directory sync has covered yet (the  *)
(* file system keeps their order in its journal).  File contents are       *)
(* flushed before a file gets its name, so a name stands for complete      *)
(* contents; temporary files are never read and are left out.  Keys and    *)
(* records are numbered in the order they are made.                        *)
(***************************************************************************)
EXTENDS Integers, FiniteSets

CONSTANTS
    Processes,       \* processes that use the store
    Pins,            \* PINs of both roles
    MaxGeneration,   \* bound on the header generations
    MaxRecords,      \* bound on the records ever written
    MaxKeys,         \* bound on the master keys ever made
    MaxStoreFaults,  \* bound on the failed operations, crashes and power losses
    UpdateSyncFails, \* the directory sync inside an attribute update may fail
    NoPin            \* no user PIN has been set

ASSUME StoreAssumption ==
    /\ MaxGeneration \in Nat \ {0} /\ MaxRecords \in Nat
    /\ MaxKeys \in Nat /\ MaxStoreFaults \in Nat
    /\ UpdateSyncFails \in BOOLEAN
    /\ NoPin \notin Pins

VARIABLES
    headers,     \* header files by generation
    records,     \* record files
    disk,        \* the contents of both directories a power loss may leave
    proc,        \* SoftwareSlot of every process, and the operation it runs
    keys,        \* master keys made so far
    written,     \* records written so far
    storeFaults, \* failures so far
    acceptable,  \* the headers that may be current after what was acknowledged
    kept,        \* objects acknowledged as stored and not destroyed since
    gone         \* objects acknowledged as destroyed

storeVars == <<headers, records, disk, proc, keys, written, storeFaults,
               acceptable, kept, gone>>
filesVars == <<headers, records, disk>>
ghostVars == <<storeFaults, acceptable, kept, gone>>

Generations == 1..MaxGeneration
NoUser == [pin |-> NoPin, public |-> 0, private |-> 0]
NoHeader == [label |-> 0, so |-> [pin |-> NoPin, public |-> 0], user |-> NoUser]
NoRecord == [id |-> 0, object |-> 0, key |-> 0]
NoJob == [kind |-> "none", header |-> NoHeader, generation |-> 0,
          new |-> NoRecord, old |-> NoRecord, pin |-> NoPin, newPin |-> NoPin]

\* clear_sensitive_state, and a process that has just started.
Cleared == [login |-> "none", public |-> 0, private |-> 0, loaded |-> {},
            pc |-> "idle", job |-> NoJob]

StoreInit ==
    /\ headers = [g \in Generations |-> NoHeader]
    /\ records = {}
    /\ disk = {[headers |-> headers, records |-> records]}
    /\ proc = [p \in Processes |-> Cleared]
    /\ keys = 0 /\ written = 0 /\ storeFaults = 0
    /\ acceptable = {NoHeader} /\ kept = {} /\ gone = {}

\* A directory changes, and a directory sync makes all changes so far durable.
Changes == disk' = disk \cup {[headers |-> headers', records |-> records']}
Syncs == disk' = {[headers |-> headers', records |-> records']}

(***************************************************************************)
(* Reading                                                                 *)
(***************************************************************************)
Present(dir) == {g \in Generations : dir[g] # NoHeader}

\* current_header_path: the highest generation wins.
CurrentGeneration(dir) ==
    IF Present(dir) = {} THEN 0 ELSE CHOOSE g \in Present(dir) : \A h \in Present(dir) : h <= g

\* read_current_header.
Current(dir) == IF Present(dir) = {} THEN NoHeader ELSE dir[CurrentGeneration(dir)]

\* load_objects: every record has to decrypt under the private master key.
Decodable(key) == \A r \in records : r.key = key

Steps(p, pc) == proc[p].pc = pc
Becomes(p, state) == proc' = [proc EXCEPT ![p] = state]
Goes(p, pc) == Becomes(p, [proc[p] EXCEPT !.pc = pc])
Returns(p) == Becomes(p, [proc[p] EXCEPT !.pc = "idle", !.job = NoJob])
Starts(p, pc, job) == Becomes(p, [proc[p] EXCEPT !.pc = pc, !.job = job])

(***************************************************************************)
(* Login                                                                   *)
(***************************************************************************)
Login(p, pin) ==
    LET user == Current(headers).user IN
    /\ Steps(p, "idle") /\ proc[p].login = "none"
    /\ IF user.pin = pin /\ Decodable(user.private)
       THEN Becomes(p, [Cleared EXCEPT !.login = "User", !.public = user.public,
                                       !.private = user.private, !.loaded = records])
       ELSE Becomes(p, Cleared)
    /\ UNCHANGED <<filesVars, keys, written, ghostVars>>

LoginSo(p, pin) ==
    LET so == Current(headers).so IN
    /\ Steps(p, "idle") /\ proc[p].login = "none"
    /\ IF so.pin = pin
       THEN Becomes(p, [Cleared EXCEPT !.login = "So", !.public = so.public])
       ELSE Becomes(p, Cleared)
    /\ UNCHANGED <<filesVars, keys, written, ghostVars>>

Logout(p) ==
    /\ Steps(p, "idle") /\ proc[p].login # "none"
    /\ Becomes(p, Cleared)
    /\ UNCHANGED <<filesVars, keys, written, ghostVars>>

(***************************************************************************)
(* Headers: initialisation and PIN changes                                 *)
(***************************************************************************)
\* SoftwareSlot::init_token; C_InitToken needs a slot without sessions.  An
\* initialised token asks for its SO PIN.
InitToken(p, pin) ==
    /\ Steps(p, "idle") /\ proc[p].login = "none"
    /\ Present(headers) # {} => Current(headers).so.pin = pin
    /\ CurrentGeneration(headers) < MaxGeneration
    /\ Starts(p, "delete", [NoJob EXCEPT !.kind = "init", !.pin = pin,
                                         !.generation = CurrentGeneration(headers) + 1])
    /\ kept' = {}
    /\ UNCHANGED <<filesVars, keys, written, storeFaults, acceptable, gone>>

\* One record is deleted; delete syncs the directory.
DeleteRecord(p) ==
    /\ Steps(p, "delete")
    /\ \E r \in records : records' = records \ {r}
    /\ UNCHANGED <<headers, proc, keys, written, ghostVars>>
    /\ Syncs

\* Mutant of FreshHeader: the header is prepared before the records are deleted.
FreshHeaderEarly(p) ==
    /\ Steps(p, "delete")
    /\ keys < MaxKeys /\ keys' = keys + 1
    /\ Becomes(p, [proc[p] EXCEPT
           !.pc = "link",
           !.job.header = [label |-> keys', so |-> [pin |-> proc[p].job.pin, public |-> keys'],
                           user |-> NoUser]])
    /\ UNCHANGED <<filesVars, written, ghostVars>>

\* All records are gone: a new public master key, and no user.
FreshHeader(p) ==
    /\ Steps(p, "delete") /\ records = {}
    /\ keys < MaxKeys /\ keys' = keys + 1
    /\ Becomes(p, [proc[p] EXCEPT
           !.pc = "link",
           !.job.header = [label |-> keys', so |-> [pin |-> proc[p].job.pin, public |-> keys'],
                           user |-> NoUser]])
    /\ UNCHANGED <<filesVars, written, ghostVars>>

\* change_pin: the keys are unwrapped from one reading of the header.
ChangePin(p, pin, newPin) ==
    LET user == Current(headers).user IN
    /\ Steps(p, "idle") /\ proc[p].login # "So"
    /\ user.pin = pin
    /\ Starts(p, "reread", [NoJob EXCEPT !.kind = "user",
                  !.header.user = [user EXCEPT !.pin = newPin]])
    /\ UNCHANGED <<filesVars, keys, written, ghostVars>>

ChangeSoPin(p, pin, newPin) ==
    LET so == Current(headers).so IN
    /\ Steps(p, "idle") /\ proc[p].login = "So"
    /\ so.pin = pin
    /\ Starts(p, "reread", [NoJob EXCEPT !.kind = "so", !.header.so = [so EXCEPT !.pin = newPin]])
    /\ UNCHANGED <<filesVars, keys, written, ghostVars>>

\* init_user_pin: the public key is the one the SO login unwrapped.
InitUserPin(p, newPin) ==
    /\ Steps(p, "idle") /\ proc[p].login = "So"
    /\ Current(headers).user = NoUser
    /\ keys < MaxKeys /\ keys' = keys + 1
    /\ Starts(p, "reread", [NoJob EXCEPT !.kind = "user", !.header.user =
                  [pin |-> newPin, public |-> proc[p].public, private |-> keys']])
    /\ UNCHANGED <<filesVars, written, ghostVars>>

\* The new wrappers replace those of a second reading.
ReplacementHeader(p) ==
    LET job == proc[p].job
        now == Current(headers) IN
    /\ Steps(p, "reread")
    /\ Present(headers) # {} /\ CurrentGeneration(headers) < MaxGeneration
    /\ Becomes(p, [proc[p] EXCEPT
           !.pc = "link",
           !.job.generation = CurrentGeneration(headers) + 1,
           !.job.header = IF job.kind = "so" THEN [now EXCEPT !.so = job.header.so]
                                             ELSE [now EXCEPT !.user = job.header.user]])
    /\ UNCHANGED <<filesVars, keys, written, ghostVars>>

\* publish_header: the link does not replace a file of that generation.
LinkHeader(p) ==
    LET job == proc[p].job IN
    /\ Steps(p, "link")
    /\ IF headers[job.generation] = NoHeader
       THEN /\ headers' = [headers EXCEPT ![job.generation] = job.header]
            /\ acceptable' = acceptable \cup {job.header}
            /\ Goes(p, "sync")
       ELSE Returns(p) /\ UNCHANGED <<headers, acceptable>>
    /\ UNCHANGED <<records, keys, written, storeFaults, kept, gone>>
    /\ Changes

SyncHeader(p) ==
    /\ Steps(p, "sync")
    /\ Goes(p, "sweep")
    /\ UNCHANGED <<headers, records, keys, written, ghostVars>>
    /\ Syncs

\* Mutant of SweepHeader: the header just published counts as an old one.
SweepHeaderToo(p) ==
    /\ Steps(p, "sweep")
    /\ \E g \in Present(headers) :
           /\ g <= proc[p].job.generation
           /\ headers' = [headers EXCEPT ![g] = NoHeader]
    /\ UNCHANGED <<records, proc, keys, written, ghostVars>>
    /\ Changes

\* remove_old_headers, one file at a time.
SweepHeader(p) ==
    /\ Steps(p, "sweep")
    /\ \E g \in Present(headers) :
           /\ g < proc[p].job.generation
           /\ headers' = [headers EXCEPT ![g] = NoHeader]
    /\ UNCHANGED <<records, proc, keys, written, ghostVars>>
    /\ Changes

\* The last sync; the change is acknowledged.
SweptHeaders(p) ==
    /\ Steps(p, "sweep")
    /\ \A g \in Present(headers) : g >= proc[p].job.generation
    /\ acceptable' = {proc[p].job.header}
    /\ Returns(p)
    /\ UNCHANGED <<headers, records, keys, written, storeFaults, kept, gone>>
    /\ Syncs

(***************************************************************************)
(* Objects                                                                 *)
(***************************************************************************)
NewRecord(p, object) == [id |-> written + 1, object |-> object, key |-> proc[p].private]

UserReady(p) == Steps(p, "idle") /\ proc[p].login = "User"

CreateObject(p) ==
    /\ UserReady(p) /\ written < MaxRecords
    /\ Starts(p, "put", [NoJob EXCEPT !.kind = "create", !.new = NewRecord(p, written + 1)])
    /\ written' = written + 1
    /\ UNCHANGED <<filesVars, keys, ghostVars>>

\* C_SetAttributeValue of a private data object or certificate: a replacement
\* is stored, then the original is destroyed.
UpdateObject(p, r) ==
    /\ UserReady(p) /\ written < MaxRecords
    /\ Starts(p, "put", [NoJob EXCEPT !.kind = "update", !.old = r,
                                      !.new = NewRecord(p, r.object)])
    /\ written' = written + 1
    /\ UNCHANGED <<filesVars, keys, ghostVars>>

DestroyObject(p, r) ==
    /\ UserReady(p)
    /\ Starts(p, "unlink", [NoJob EXCEPT !.kind = "destroy", !.old = r])
    /\ kept' = kept \ {r.object}
    /\ UNCHANGED <<filesVars, keys, written, storeFaults, acceptable, gone>>

\* LocalStorageProvider::put: the hard link, then the directory sync.
PutRecord(p) ==
    /\ Steps(p, "put")
    /\ records' = records \cup {proc[p].job.new}
    /\ Goes(p, "putSync")
    /\ UNCHANGED <<headers, keys, written, ghostVars>>
    /\ Changes

\* Mutant of SyncRecord: the object is acknowledged before its name is durable.
SyncRecordSkipped(p) ==
    LET job == proc[p].job IN
    /\ Steps(p, "putSync")
    /\ Becomes(p, [proc[p] EXCEPT !.loaded = @ \cup {job.new},
                                  !.pc = IF job.kind = "create" THEN "refresh" ELSE "unlink"])
    /\ UNCHANGED <<filesVars, keys, written, ghostVars>>

SyncRecord(p) ==
    LET job == proc[p].job IN
    /\ Steps(p, "putSync")
    /\ Becomes(p, [proc[p] EXCEPT !.loaded = @ \cup {job.new},
                                  !.pc = IF job.kind = "create" THEN "refresh" ELSE "unlink"])
    /\ UNCHANGED <<headers, records, keys, written, ghostVars>>
    /\ Syncs

\* refresh_slot_token_objects succeeded and the handle is returned.
Created(p) ==
    /\ Steps(p, "refresh")
    /\ kept' = kept \cup {proc[p].job.new.object}
    /\ Returns(p)
    /\ UNCHANGED <<filesVars, keys, written, storeFaults, acceptable, gone>>

\* LocalStorageProvider::delete: a file that is not there is an error of delete_object.
UnlinkRecord(p) ==
    LET job == proc[p].job IN
    /\ Steps(p, "unlink")
    /\ IF job.old \in records
       THEN records' = records \ {job.old} /\ Goes(p, "unlinkSync")
       ELSE /\ IF job.kind = "update" THEN Goes(p, "rollback") ELSE Returns(p)
            /\ UNCHANGED records
    /\ UNCHANGED <<headers, keys, written, ghostVars>>
    /\ Changes

\* A destroyed object is gone, unless a failed update has left a copy of it on disk or
\* in the slot's list, where a copy stays whose own destruction failed.
Unlinked(p) ==
    LET job == proc[p].job
        copies == (records \cup proc[p].loaded) \ {job.old} IN
    /\ Steps(p, "unlinkSync")
    /\ Becomes(p, [proc[p] EXCEPT !.loaded = @ \ {job.old}, !.pc = "idle", !.job = NoJob])
    /\ gone' = IF job.kind = "destroy" /\ \A r \in copies : r.object # job.old.object
               THEN gone \cup {job.old.object} ELSE gone
    /\ UNCHANGED <<headers, records, keys, written, storeFaults, acceptable, kept>>
    /\ Syncs

\* The replacement or the new object is destroyed again; the error of that is ignored.
Rollback(p) ==
    /\ Steps(p, "rollback")
    /\ records' = records \ {proc[p].job.new}
    /\ Goes(p, "rollbackSync")
    /\ UNCHANGED <<headers, keys, written, ghostVars>>
    /\ Changes

RolledBack(p) ==
    /\ Steps(p, "rollbackSync")
    /\ Becomes(p, [proc[p] EXCEPT !.loaded = @ \ {proc[p].job.new}, !.pc = "idle", !.job = NoJob])
    /\ UNCHANGED <<headers, records, keys, written, ghostVars>>
    /\ Syncs

(***************************************************************************)
(* Failures                                                                *)
(***************************************************************************)
Fault ==
    /\ storeFaults < MaxStoreFaults
    /\ storeFaults' = storeFaults + 1
    /\ UNCHANGED <<keys, written, acceptable, kept, gone>>

\* The file operation the process is at fails; the call returns the error,
\* after the rollback where there is one.
IoError(p) ==
    LET pc == proc[p].pc
        update == proc[p].job.kind = "update" IN
    /\ pc # "idle"
    /\ pc = "unlinkSync" /\ update => UpdateSyncFails
    /\ IF pc = "refresh" \/ (pc \in {"unlink", "unlinkSync"} /\ update)
       THEN Goes(p, "rollback") ELSE Returns(p)
    /\ Fault /\ UNCHANGED filesVars

Crash(p) ==
    /\ proc[p] # Cleared
    /\ Becomes(p, Cleared)
    /\ Fault /\ UNCHANGED filesVars

PowerLoss ==
    /\ \E left \in disk : headers' = left.headers /\ records' = left.records
    /\ Syncs
    /\ proc' = [p \in Processes |-> Cleared]
    /\ Fault

StoreStep(p) ==
    \/ \E pin \in Pins : Login(p, pin) \/ LoginSo(p, pin) \/ InitToken(p, pin)
    \/ Logout(p)
    \/ DeleteRecord(p) \/ FreshHeader(p)
    \/ \E pin, newPin \in Pins : ChangePin(p, pin, newPin) \/ ChangeSoPin(p, pin, newPin)
    \/ \E newPin \in Pins : InitUserPin(p, newPin)
    \/ ReplacementHeader(p) \/ LinkHeader(p) \/ SyncHeader(p) \/ SweepHeader(p)
    \/ SweptHeaders(p)
    \/ CreateObject(p)
    \/ \E r \in proc[p].loaded : UpdateObject(p, r) \/ DestroyObject(p, r)
    \/ PutRecord(p) \/ SyncRecord(p) \/ Created(p) \/ UnlinkRecord(p) \/ Unlinked(p)
    \/ Rollback(p) \/ RolledBack(p)
    \/ IoError(p) \/ Crash(p)

StoreNext == PowerLoss \/ \E p \in Processes : StoreStep(p)

StoreSpec == StoreInit /\ [][StoreNext]_storeVars

(***************************************************************************)
(* Properties                                                              *)
(***************************************************************************)
\* Whenever the power fails, the header found afterwards is the one last
\* acknowledged or one whose publication was under way since: never none once the
\* token is initialised, never one that a completed PIN change replaced.
EitherHeaderWins == \A left \in disk : Current(left.headers) \in acceptable

\* Whenever the power fails, the user's PIN still opens the token: every record
\* left decrypts under the private master key that the current header wraps.
LoginOpens ==
    \A left \in disk : \A r \in left.records : r.key = Current(left.headers).user.private

\* Whenever the power fails, an object that was stored and never destroyed is
\* there, also while its attributes are being replaced, and one that was destroyed
\* is not.
ObjectsSurvive ==
    \A left \in disk :
        LET objects == {r.object : r \in left.records} IN
        kept \subseteq objects /\ gone \cap objects = {}
=============================================================================
