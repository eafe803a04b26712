------------------------------ MODULE AuctionHouse ------------------------------
(****************************************************************************)
(* Auctions, whose proceeds travel by mail: the handlers of                 *)
(* AuctionHouseHandler.cpp, the expiry of auctions and the tables, together *)
(* with the mails and the players of module Mail.                           *)
(****************************************************************************)
EXTENDS Mail

CONSTANTS
  AuctionIds,  \* bound: auctions there are at any time
  Deposit,     \* AuctionHouseMgr::GetAuctionDeposit
  cutPercent,  \* of the entry of the auction house
  Prices,      \* bound: what clients ask for and bid
  NoAuction

ASSUME AuctionAssumption ==
  /\ IsFiniteSet(AuctionIds)
  /\ \A i \in Items : \E p \in Players : \A q \in Players : i \in InitBag[q] <=> q = p
  /\ Deposit \in Nat /\ cutPercent \in 0..100 /\ Prices \subseteq 1..MAX_MONEY_AMOUNT

Auctions == [owner : Players, item : Items, startbid : Nat, buyout : Nat, deposit : Nat,
             bid : Nat, bidder : Players \cup {None}]

ASSUME AuctionNames == NoAuction \notin Auctions

VARIABLES
  auction,    \* _auctionsMap
  dbAuction   \* table auctionhouse

vars == <<mailVars, auction, dbAuction>>

Init ==
  /\ MailInit
  /\ auction = [a \in AuctionIds |-> NoAuction] /\ dbAuction = auction

-----------------------------------------------------------------------------

Live == {a \in AuctionIds : auction[a] # NoAuction}

\* AuctionEntry::GetAuctionCut and CalculateAuctionOutBid
AuctionCut(x) == (x.bid * cutPercent) \div 100
AuctionOutBid(x) == IF (x.bid * 5) \div 100 > 0 THEN (x.bid * 5) \div 100 ELSE 1

Profit(x) == x.bid + x.deposit - AuctionCut(x)

FromAuction(to, coins, things) == Draft(None, to, coins, 0, things, "auction")

OutbiddedMail(x) == FromAuction(x.bidder, x.bid, {})
SuccessfulMail(x) == FromAuction(x.owner, Profit(x), {})
WonMail(x) == FromAuction(x.bidder, 0, {x.item})
ExpiredMail(x) == FromAuction(x.owner, 0, {x.item})

\* What AuctionHouseObject::Update sends when an auction has expired.
Outcome(x) == IF x.bidder = None THEN <<ExpiredMail(x)>>
              ELSE <<SuccessfulMail(x), WonMail(x)>>

\* One transaction writes the mails; all the receivers that are connected get them.
Post(drafts) ==
  LET new == New(drafts) IN
  /\ Room(drafts)
  /\ mail' = Inserted(mail, new) /\ box' = Delivered(box, new, Connected)

-----------------------------------------------------------------------------
(****************************************************************************)
(* Selling.                                                                 *)
(****************************************************************************)

NewAuction(p, i, start, price) ==
  [owner |-> p, item |-> i, startbid |-> start, buyout |-> price, deposit |-> Deposit,
   bid |-> 0, bidder |-> None]

Free == AuctionIds \ Live

\* A whole stack is moved to the auction house.
HandleAuctionSellItem(p, i, start, price) ==
  LET a == CHOOSE x \in Free : TRUE
      paid == Debit(purse[p], Deposit)
  IN  /\ p \in InWorld /\ i \in bag[p] /\ purse[p] >= Deposit /\ Free # {}
      /\ purse' = [purse EXCEPT ![p] = paid]
      /\ bag' = [bag EXCEPT ![p] = @ \ {i}]
      /\ auction' = [auction EXCEPT ![a] = NewAuction(p, i, start, price)]
      /\ dbAuction' = [dbAuction EXCEPT ![a] = NewAuction(p, i, start, price)]
      /\ SaveInventoryAndGold(p, bag[p] \ {i}, paid)
      /\ UNCHANGED <<where, box, deleted, mail, seen, sunk, wasted, crossed>>

-----------------------------------------------------------------------------
(****************************************************************************)
(* Bidding and buying, cancelling, and the end of an auction.               *)
(****************************************************************************)

\* What p has to pay for a bid or a buyout: his own earlier bid counts.
Due(p, x, price) == IF x.bidder = p THEN price - x.bid ELSE price

CanBid(p, x, price) ==
  /\ x.owner # p /\ price > x.bid /\ price >= x.startbid /\ purse[p] >= price

\* Mutant: the bid is entered before the earlier bidder is written to.
OutbidTooLate(p, x) == <<[OutbiddedMail(x) EXCEPT !.receiver = p]>>
\* The earlier bidder, if he is another, gets his money back.
Outbid(p, x) == IF x.bidder \notin {None, p} THEN <<OutbiddedMail(x)>> ELSE << >>

\* The purse and the inventory of the one who acts are saved with the rest.
Pays(p, amount) ==
  /\ purse' = [purse EXCEPT ![p] = Debit(@, amount)]
  /\ SaveInventoryAndGold(p, bag[p], Debit(purse[p], amount))

Close(done) ==
  /\ auction' = [a \in AuctionIds |-> IF a \in done THEN NoAuction ELSE auction[a]]
  /\ dbAuction' = [a \in AuctionIds |-> IF a \in done THEN NoAuction ELSE dbAuction[a]]

PlaceBid(p, a, price) ==
  LET x == auction[a]
      raised == [x EXCEPT !.bidder = p, !.bid = price]
  IN  /\ p \in InWorld /\ CanBid(p, x, price)
      /\ price < x.buyout \/ x.buyout = 0
      /\ price >= x.bid + AuctionOutBid(x)
      /\ Post(Outbid(p, x)) /\ Pays(p, Due(p, x, price))
      /\ auction' = [auction EXCEPT ![a] = raised]
      /\ dbAuction' = [dbAuction EXCEPT ![a] = raised]
      /\ UNCHANGED <<where, bag, deleted, seen, sunk, wasted, crossed>>

Buyout(p, a, price) ==
  LET x == auction[a]
      sold == [x EXCEPT !.bidder = p, !.bid = x.buyout]
  IN  /\ p \in InWorld /\ CanBid(p, x, price) /\ x.buyout # 0 /\ price >= x.buyout
      /\ Post(Outbid(p, x) \o Outcome(sold)) /\ Pays(p, Due(p, x, x.buyout))
      /\ Close({a}) /\ sunk' = sunk + AuctionCut(sold)
      /\ UNCHANGED <<where, bag, deleted, seen, wasted, crossed>>

\* The owner cancels: a bidder gets his money back, and the owner pays the cut for him.
HandleAuctionRemoveItem(p, a) ==
  LET x == auction[a]
      due == IF x.bidder = None THEN 0 ELSE AuctionCut(x)
  IN  /\ p \in InWorld /\ x.owner = p /\ purse[p] >= due
      /\ Post((IF x.bidder = None THEN << >> ELSE <<OutbiddedMail(x)>>) \o <<ExpiredMail(x)>>)
      /\ Pays(p, due) /\ Close({a}) /\ sunk' = sunk + due + x.deposit
      /\ UNCHANGED <<where, bag, deleted, seen, wasted, crossed>>

Outcomes(done) ==
  [x \in UNION {{a} \X DOMAIN Outcome(auction[a]) : a \in done} |-> Outcome(auction[x[1]])[x[2]]]

\* What an auction leaves to the house.
HouseShare(x) == IF x.bidder = None THEN x.deposit ELSE AuctionCut(x)

\* AuctionHouseObject::Update: the auctions whose time has come end in one transaction.
Update(done) ==
  /\ Post(Outcomes(done)) /\ Close(done)
  /\ sunk' = sunk + SumFunction([a \in done |-> HouseShare(auction[a])])
  /\ UNCHANGED <<where, memory, deleted, seen, tables, wasted, crossed>>

Crash == MailCrash /\ auction' = dbAuction /\ UNCHANGED dbAuction

-----------------------------------------------------------------------------

Sell(p) ==
  \E i \in Items, start \in Prices, price \in Prices \cup {0} :
    HandleAuctionSellItem(p, i, start, price)

Bid(p) == \E a \in Live, price \in Prices : PlaceBid(p, a, price) \/ Buyout(p, a, price)
Cancel(p) == \E a \in Live : HandleAuctionRemoveItem(p, a)

\* What a player does himself.
Acts(p) ==
  \/ MailHandler(p) /\ UNCHANGED <<auction, dbAuction>>
  \/ Sell(p) \/ Bid(p) \/ Cancel(p)

Next ==
  \/ \E p \in Players : Acts(p) \/ (Moves(p) /\ UNCHANGED <<auction, dbAuction>>)
  \/ Time /\ UNCHANGED <<auction, dbAuction>>
  \/ \E done \in (SUBSET Live) \ {{}} : Update(done)
  \/ Crash

Spec == Init /\ [][Next]_vars

-----------------------------------------------------------------------------
(****************************************************************************)
(* Properties.                                                              *)
(****************************************************************************)

\* Type invariant of the auctions, the mails and what the players have.
TypeOK ==
  /\ MailTypeOK
  /\ auction \in [AuctionIds -> Auctions \cup {NoAuction}]
  /\ dbAuction \in [AuctionIds -> Auctions \cup {NoAuction}]

\* What has been paid for the auctions that are running, and what is in the mails.
Paid(xs) == [a \in AuctionIds |-> IF xs[a] = NoAuction THEN 0 ELSE xs[a].bid + xs[a].deposit]
Sent(rows) == [id \in MailIds |-> IF rows[id] = NoMail THEN 0 ELSE rows[id].money]

Balance(coins, xs) ==
  SumFunction(coins) + SumFunction(Paid(xs)) + SumFunction(Sent(mail)) + sunk

\* No coin is made or lost by bids, purchases, cancellations, mails and cash on delivery,
\* in memory and in what a crash would restore, as long as no old mail was changed behind
\* the back of a player.
MoneyConserved ==
  ~crossed => LET all == SumFunction(InitPurse) IN
              Balance(purse, auction) = all /\ Balance(dbPurse, dbAuction) = all

\* The places an item is in.
Spots(things, xs, i) ==
  {<<"bag", p>> : p \in {q \in Players : i \in things[q]}}
  \cup {<<"auction", a>> : a \in {b \in AuctionIds : xs[b] # NoAuction /\ xs[b].item = i}}
  \cup {<<"mail", id>> : id \in {k \in MailIds : mail[k] # NoMail /\ i \in mail[k].items}}

InOnePlace(things, xs, i) ==
  IF i \in wasted THEN Spots(things, xs, i) = {} ELSE \E s \in Spots(things, xs, i) : Spots(things, xs, i) = {s}

\* An item is in one place, in memory and in what a crash would restore: it is neither
\* doubled nor lost by sales, bids, mails and their expiry, unless it was in a mail that
\* was deleted, or a mail was changed behind the back of a player.
OnePlace ==
  ~crossed => \A i \in Items : InOnePlace(bag, auction, i) /\ InOnePlace(dbBag, dbAuction, i)

\* A comment of ReturnOrDeleteOldMails: the mails of a logged in player are not modified.
\* The code finds only the players in the world.
LoggedInUnmodified ==
  \A p \in Connected, id \in MailIds : box[p][id] # NoMail => mail[id] = box[p][id]

\* A player in the game sees in his mailbox what the database has for him, so that he can
\* take from it only what is there: up to an old mail that is processed while he is between
\* two maps, or by rows that are out of date, nothing comes between the two.
MailboxTrue == ~crossed => LoggedInUnmodified

\* What is owed to a player or in his hands: his coins, the bids that stand, his mails.
Wealth(p) ==
  purse[p]
  + SumFunction([a \in {b \in Live : auction[b].bidder = p} |-> auction[a].bid])
  + SumFunction([id \in {k \in MailIds : mail[k] # NoMail /\ mail[k].receiver = p} |->
                   mail[id].money])

\* Whose an item is: until it is paid for, what is sold is the seller's.
Owns(p, i) ==
  \/ i \in bag[p]
  \/ \E a \in Live : auction[a].owner = p /\ auction[a].item = i
  \/ \E id \in MailIds : /\ mail[id] # NoMail /\ i \in mail[id].items
                         /\ p = IF mail[id].cod > 0 THEN mail[id].sender ELSE mail[id].receiver

\* The mails p has let expire.
Overdue(p) == {id \in MailIds : mail[id] # NoMail /\ mail[id].old /\ mail[id].receiver = p}

\* What p had bid on the items he wins.
Won(p) == {a \in Live : auction[a].bidder = p /\ \E i \in Items : i = auction[a].item /\ Owns(p, i)'}
Spent(p) == SumFunction([a \in Won(p) |-> auction[a].bid])

\* Nobody grows poorer by what others do, except by his bids on what he wins, unless money
\* of his was in an expired mail, or a mail was changed behind the back of a player.
OnlyOwnLoss ==
  [][\A p \in Players : Wealth(p)' + Spent(p) < Wealth(p) =>
       \/ crossed'
       \/ Acts(p) \/ Moves(p)
       \/ (Time \/ Crash) /\ \E id \in Overdue(p) : mail[id].money > 0]_vars

\* Nobody loses an item by what others do, unless he is paid for it or it was in an expired
\* mail to him; who sends an item for cash on delivery gets the cash or the item: as long as
\* no mail was changed behind the back of a player.
PaidFor ==
  [][\A p \in Players, i \in Items : Owns(p, i) /\ ~Owns(p, i)' =>
       \/ crossed'
       \/ Acts(p) \/ Moves(p)
       \/ (Time \/ Crash) /\ \E id \in Overdue(p) : mail[id].cod = 0 /\ i \in mail[id].items
       \/ \E a \in Live : /\ auction[a].owner = p /\ auction[a].item = i
                          /\ Wealth(p)' + Spent(p) >= Wealth(p) + auction[a].deposit + auction[a].bid
                                                      - AuctionCut(auction[a])
       \/ \E id \in MailIds : /\ mail[id] # NoMail /\ i \in mail[id].items
                              /\ mail[id].sender = p /\ mail[id].cod > 0
                              /\ Wealth(p)' = Wealth(p) + mail[id].cod]_vars
=============================================================================
