----------------------------- MODULE MCAuctionHouse -----------------------------
EXTENDS AuctionHouse

CONSTANTS ann, bob, cid, ore

MCBag == [p \in Players |-> IF p = ann THEN Items ELSE {}]
MCPurse == [p \in Players |-> IF p = cid THEN 2 ELSE 1]

\* What happens after an old mail was changed behind the back of a player is not followed.
Uncrossed == ~crossed
=============================================================================
