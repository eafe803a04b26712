------------------------------- MODULE MCTrade -------------------------------
EXTENDS Trade, TLC

CONSTANTS ann, bob, ring, band, gem

\* Two rings of a kind of which a player may have one, one of them still tradable in the
\* raid, and a gem; or three of a kind of which he may have two.
MCPair == {{ring, band}}
MCOne == {ring, band} :> 1
MCHolder == ring :> ann @@ band :> Gone @@ gem :> bob
MCBind == ring :> "raid" @@ band :> "free" @@ gem :> "free"
MCMoney == [p \in Players |-> 1]

MCTriple == {{ring, band, gem}}
MCTwo == {ring, band, gem} :> 2
MCTwoAndOne == ring :> ann @@ band :> ann @@ gem :> bob
MCFree == [i \in Items |-> "free"]
=============================================================================
