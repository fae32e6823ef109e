---------------------------- MODULE MCEndpoints ----------------------------
(***************************************************************************)
(* The protocols of pkcs11rs with something that can fail on its own: a    *)
(* YubiHSM, the files of the software store, a FIDO authenticator and the  *)
(* devices of the connector daemon.  They share no state, so one of them   *)
(* moves in a behaviour and the others stand still.                        *)
(***************************************************************************)
EXTENDS YubiHsmSession, SoftwareStore, CtapHid, ConnectorRegistry, TLC

CONSTANTS
    Endpoints,   \* the protocols to explore
    s1, s2       \* the members of Serials

VARIABLE moving  \* the protocol of this behaviour

endpointVars == <<moving, hsmVars, storeVars, hidVars, regVars>>

MCConfigurations ==
    {[serials |-> {s1, s2}, legacy |-> NoSerial], [serials |-> {s2}, legacy |-> s1]}

MCSymmetry == Permutations(CommandIds) \cup Permutations(UsbIds)

MCInit ==
    /\ moving \in Endpoints
    /\ HsmInit /\ StoreInit /\ HidInit /\ RegInit
    \* A protocol that stands still has one initial state.
    /\ moving # "registry" =>
           plugs = <<>> /\ settings = [serials |-> {s1, s2}, legacy |-> NoSerial]

HsmMoves ==
    /\ moving = "hsm" /\ HsmNext
    /\ UNCHANGED <<storeVars, hidVars, regVars>>
StoreMoves ==
    /\ moving = "store" /\ StoreNext
    /\ UNCHANGED <<hsmVars, hidVars, regVars>>
HidMoves ==
    /\ moving = "hid" /\ HidNext
    /\ UNCHANGED <<hsmVars, storeVars, regVars>>
RegMoves ==
    /\ moving = "registry" /\ RegNext
    /\ UNCHANGED <<hsmVars, storeVars, hidVars>>
MCNext ==
    /\ HsmMoves \/ StoreMoves \/ HidMoves \/ RegMoves
    /\ UNCHANGED moving

MCSpec == MCInit /\ [][MCNext]_endpointVars
=============================================================================
