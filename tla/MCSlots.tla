------------------------------ MODULE MCSlots ------------------------------
(***************************************************************************)
(* What the module keeps about its slots and the devices behind them: the  *)
(* applet guard of cards that come and go, the secure channels of a card's *)
(* applets, the slot registry that discovery fills, and the operations of  *)
(* a session.  They are independent, so one of them moves in a behaviour   *)
(* and the others stand still.                                             *)
(***************************************************************************)
EXTENDS CcidApplets, CcidChannel, Discovery, CryptOperations

VARIABLE moving  \* the part of this behaviour

slotsVars == <<moving, vars, channelVars, discoveryVars, cryptVars>>

MCInit ==
    /\ moving \in {"applets", "channel", "discovery", "crypt"}
    /\ Init /\ ChannelInit /\ DiscoveryInit /\ CryptInit
    \* A part that stands still has one initial state.
    /\ moving # "channel" => policy = [recreate |-> TRUE, configured |-> TRUE]
    /\ moving # "discovery" => plugged = {}

AppletsMove ==
    /\ moving = "applets" /\ Next
    /\ UNCHANGED <<channelVars, discoveryVars, cryptVars>>
ChannelMoves ==
    /\ moving = "channel" /\ ChannelNext
    /\ UNCHANGED <<vars, discoveryVars, cryptVars>>
DiscoveryMoves ==
    /\ moving = "discovery" /\ DiscoveryNext
    /\ UNCHANGED <<vars, channelVars, cryptVars>>
OperationsMove ==
    /\ moving = "crypt" /\ CryptNext
    /\ UNCHANGED <<vars, channelVars, discoveryVars>>

MCNext ==
    /\ AppletsMove \/ ChannelMoves \/ DiscoveryMoves \/ OperationsMove
    /\ UNCHANGED moving

MCSpec == MCInit /\ [][MCNext]_slotsVars
=============================================================================
