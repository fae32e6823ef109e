----------------------------- MODULE MCObjects -----------------------------
(***************************************************************************)
(* The objects and handles of a PIV slot, and the objects of a YubiHSM     *)
(* slot.  They share no state, so one of them moves in a behaviour.        *)
(* Of the two PIV key slots, one shares its CKA_ID with a stored public    *)
(* key.                                                                    *)
(***************************************************************************)
EXTENDS TokenObjects, HsmObjects

CONSTANTS
    Parts,                 \* the parts to explore
    s1, s2,                \* the members of Sessions
    k1, k2,                \* the members of KeySlots
    projection, other,     \* the members of Contents
    none                   \* no CKA_ID

VARIABLE moving            \* the part of this behaviour

objectVars == <<moving, vars, hsmObjectVars>>

MCSymmetry == Permutations(Sessions) \cup Permutations(Keys)

MCTemplates == {{}, {k1}}

MCIdOf == projection :> k1 @@ other :> none

MCInit ==
    /\ moving \in Parts
    /\ Init /\ HsmObjectsInit
    \* A part that stands still has one initial state.
    /\ moving # "tokens" => keys = [k \in KeySlots |-> NoKey]
    /\ moving # "hsm" =>
           hsm.replaces /\ \A id \in OpaqueIds : hsm.opaque[id] = Entry(0, NoObject)

TokenObjectsMove ==
    /\ moving = "tokens" /\ Next
    /\ UNCHANGED hsmObjectVars
HsmObjectsMove ==
    /\ moving = "hsm" /\ HsmObjectsNext
    /\ UNCHANGED vars
MCNext ==
    /\ TokenObjectsMove \/ HsmObjectsMove
    /\ UNCHANGED moving

MCSpec == MCInit /\ [][MCNext]_objectVars
=============================================================================
