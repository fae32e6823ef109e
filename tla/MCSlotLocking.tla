--------------------------- MODULE MCSlotLocking ---------------------------
(* Instances of SlotLocking: which slots are applets of which card, and     *)
(* where their logins look for credentials.                                 *)
EXTENDS SlotLocking, TLC

CONSTANTS a1, b1, a2, b2, h1, h2, d1, d2

\* Two YubiHSM slots, h1 and h2, that look for credentials in each other, and
\* two cards.  h1 and a1 also look on cards (b1 is on a1's own); no chain of
\* cards comes back, and only a1 keeps its source session.
LayeredDevices == (a1 :> d1 @@ b1 :> d1 @@ a2 :> d2 @@ h1 :> NoDevice @@ h2 :> NoDevice)
LayeredSources ==
    (a1 :> {a1, b1, a2} @@ b1 :> {} @@ a2 :> {} @@ h1 :> {a1, h1, h2} @@ h2 :> {h1})

\* Two cards with two applets each; a login on one card looks at the other.
CrossedDevices == (a1 :> d1 @@ b1 :> d1 @@ a2 :> d2 @@ b2 :> d2)
CrossedSources == (a1 :> {b2} @@ b1 :> {} @@ a2 :> {b1} @@ b2 :> {})
=============================================================================
