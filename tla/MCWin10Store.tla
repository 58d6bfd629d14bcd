--------------------------- MODULE MCWin10Store ---------------------------
(* A small instance of Win10Store for TLC. *)
EXTENDS Win10Store, TLC

CONSTANTS r1, p1, m1

Moniker(number, place) == [number |-> number, x64 |-> TRUE, ok |-> TRUE, text |-> place]

\* A release that the account lists as well, a preview of the same version
\* under its other name, and a bundle of the release, whose name the pattern
\* of convertVersion refuses.
ThreeUpdates == {r1, p1, m1}
ChannelsOfThree == r1 :> {"release", "beta"} @@ p1 :> {"preview"} @@ m1 :> {"release"}
MonikerOfThree == r1 :> Moniker(<<1, 20, 3001>>, 1) @@ p1 :> Moniker(<<1, 20, 3001>>, 2)
                  @@ m1 :> [number |-> <<1, 20, 3001>>, x64 |-> FALSE, ok |-> FALSE, text |-> 0]
============================================================================
