--------------------------------- MODULE Trade ---------------------------------
(****************************************************************************)
(* Trades between players: the two TradeData a trade consists of, one for   *)
(* each side, the handlers that change them, and the exchange that the      *)
(* second acceptance carries out.  All the handlers are PROCESS_THREAD-     *)
(* UNSAFE, so each runs alone in the world thread; what the players do      *)
(* between two of them (use up, sell, find or bind an item, spend money,    *)
(* log out) goes on while a trade is open, and the program may              *)
(* crash, which leaves of everything what the last transactions saved.      *)
(*                                                                          *)
(* An item stands for one inventory slot: stacks are not merged or split.   *)
(* Of a limited kind (an item with a MaxCount, a limit category) a player   *)
(* may have so many.  Items that are equipped or in the bank are left out.  *)
(****************************************************************************)
EXTENDS Integers, FiniteSets, Functions

CONSTANTS
  Players, Items,
  Limited,      \* the limited kinds, each a set of items
  MaxCount,     \* how many of each a player may have
  Enchantable,  \* items the spell of a trade can be cast on
  Raiders,      \* allowedGUIDs of every item bound on pickup but still tradable
  InitHolder, InitBind, InitMoney,
  TRADE_SLOT_TRADED_COUNT, MAX_MONEY_AMOUNT,
  Capacity,     \* inventory slots of a player
  Binding,      \* the items that are still to be bound, by putting them on or by time
  MaxElsewhere, \* bound: how often an item is lost, found or bound, or a coin spent
  NoTrade, None, Gone,
  Lost          \* of an item that is in no inventory, but in the database still

TRADE_SLOT_NONTRADED == TRADE_SLOT_TRADED_COUNT + 1
Slots == 1..TRADE_SLOT_NONTRADED
Traded == 1..TRADE_SLOT_TRADED_COUNT
Money == 0..MAX_MONEY_AMOUNT
Bindings == {"free", "raid", "soul"}
Holders == Players \cup {Gone, Lost}

\* The items can be in one inventory together.
Carriable(is) ==
  Cardinality(is) <= Capacity /\ \A u \in Limited : Cardinality(u \cap is) <= MaxCount[u]

ASSUME TradeAssumption ==
  /\ IsFiniteSet(Players) /\ IsFiniteSet(Items)
  /\ TRADE_SLOT_TRADED_COUNT \in Nat /\ MAX_MONEY_AMOUNT \in Nat \ {0}
  /\ Capacity \in Nat /\ MaxElsewhere \in Nat
  /\ Limited \subseteq SUBSET Items /\ MaxCount \in [Limited -> Nat \ {0}]
  /\ Enchantable \subseteq Items
  /\ Raiders \subseteq Players /\ Binding \subseteq Items
  /\ InitHolder \in [Items -> Holders] /\ InitBind \in [Items -> Bindings]
  /\ InitMoney \in [Players -> 0..(MAX_MONEY_AMOUNT - 1)]
  /\ None \notin Items /\ Gone \notin Players /\ Lost \notin Players \cup {Gone}
  /\ \A p \in Players : Carriable({i \in Items : InitHolder[i] = p})

\* TradeData
Trades == [trader : Players, items : [Slots -> Items \cup {None}],
           money : Money, spell : BOOLEAN, accepted : BOOLEAN]

ASSUME TradeNames == NoTrade \notin Trades

VARIABLES
  online,
  trade,      \* m_trade of each player
  money,      \* PLAYER_FIELD_COINAGE
  holder,     \* whose inventory an item is in
  bind,       \* whether it is bound
  enchanted,  \* the items a trade's spell was cast on
  spent,      \* auxiliary: what each player has spent outside trades
  saved,      \* the characters database: money, spent, holder
  agreed,     \* auxiliary: what was on the table when a player pressed accept
  elsewhere   \* how often MaxElsewhere has been used

tradeVars == <<trade, agreed>>
itemVars == <<holder, bind, enchanted>>
moneyVars == <<money, spent>>
vars == <<online, tradeVars, itemVars, moneyVars, saved, elsewhere>>

Init ==
  /\ online = Players
  /\ trade = [p \in Players |-> NoTrade] /\ agreed = [p \in Players |-> None]
  /\ elsewhere = 0
  /\ holder = InitHolder /\ bind = InitBind /\ enchanted = {}
  /\ money = InitMoney /\ spent = [p \in Players |-> 0]
  /\ saved = [money |-> InitMoney, spent |-> spent, holder |-> InitHolder]

-----------------------------------------------------------------------------
(****************************************************************************)
(* One side of a trade.                                                     *)
(****************************************************************************)

Trading(p) == trade[p] # NoTrade
Trader(p) == trade[p].trader

\* The inventory of p.
Held(p) == {i \in Items : holder[i] = p}

\* TradeData::GetItem: an item that has left the inventory is not found.
GetItem(p, s) ==
  LET i == trade[p].items[s] IN IF i # None /\ holder[i] = p THEN i ELSE None

HasItem(p, i) == \E s \in Slots : trade[p].items[s] = i

\* Item::IsBindedNotWith
IsBindedNotWith(i, p) ==
  bind[i] # "free" /\ holder[i] # p /\ ~(bind[i] = "raid" /\ p \in Raiders)

\* Item::CanBeTraded(false, true)
CanBeTraded(i) == bind[i] # "soul"

\* What is on the table: all of the two TradeData but the acceptances.
Offer(p) == <<trade[p].items, trade[p].money, trade[p].spell>>
Table(p) == <<Offer(p), Offer(Trader(p))>>

-----------------------------------------------------------------------------
(****************************************************************************)
(* Beginning, changing and cancelling a trade.                              *)
(****************************************************************************)

EmptyTrade(q) ==
  [trader |-> q, items |-> [s \in Slots |-> None], money |-> 0, spell |-> FALSE,
   accepted |-> FALSE]

HandleInitiateTrade(p, q) ==
  /\ p \in online /\ q \in online \ {p} /\ ~Trading(p) /\ ~Trading(q)
  /\ trade' = [trade EXCEPT ![p] = EmptyTrade(q), ![q] = EmptyTrade(p)]
  /\ UNCHANGED <<online, agreed, itemVars, moneyVars, saved, elsewhere>>

\* The two sides become `mine' and `his'; both acceptances are undone.
Change(p, mine, his) ==
  /\ trade' = [trade EXCEPT ![p] = [mine EXCEPT !.accepted = FALSE],
                            ![Trader(p)] = [his EXCEPT !.accepted = FALSE]]
  /\ agreed' = [agreed EXCEPT ![p] = None, ![Trader(p)] = None]
  /\ UNCHANGED <<online, itemVars, moneyVars, saved, elsewhere>>

\* TradeData::SetMoney
HandleSetTradeGold(p, m) ==
  /\ Trading(p) /\ m # trade[p].money /\ m <= money[p]
  /\ Change(p, [trade[p] EXCEPT !.money = m], trade[Trader(p)])

\* TradeData::SetItem: a spell prepared for the item that changes is dropped.
SetItem(p, s, i) ==
  /\ i # trade[p].items[s]
  /\ Change(p, [trade[p] EXCEPT !.items[s] = i, !.spell = FALSE],
            [trade[Trader(p)] EXCEPT !.spell = @ /\ s # TRADE_SLOT_NONTRADED])

HandleSetTradeItem(p, s, i) ==
  /\ Trading(p) /\ holder[i] = p /\ ~HasItem(p, i)
  /\ s = TRADE_SLOT_NONTRADED \/ (CanBeTraded(i) /\ ~IsBindedNotWith(i, Trader(p)))
  /\ SetItem(p, s, i)

HandleClearTradeItem(p, s) == Trading(p) /\ SetItem(p, s, None)

\* Mutant: adding a spell undoes no acceptance.
SetSpellQuiet(p) ==
  /\ Trading(p) /\ ~trade[p].spell
  /\ GetItem(Trader(p), TRADE_SLOT_NONTRADED) \in Enchantable
  /\ trade' = [trade EXCEPT ![p].spell = TRUE]
  /\ UNCHANGED <<online, agreed, itemVars, moneyVars, saved, elsewhere>>

\* Spell::CheckCast and the end of the cast: a spell on the item in the
\* partner's last slot is remembered, and cast when the trade is completed.
SetSpell(p) ==
  /\ Trading(p) /\ ~trade[p].spell
  /\ GetItem(Trader(p), TRADE_SLOT_NONTRADED) \in Enchantable
  /\ Change(p, [trade[p] EXCEPT !.spell = TRUE], trade[Trader(p)])

HandleUnacceptTrade(p) ==
  /\ Trading(p)
  /\ trade' = [trade EXCEPT ![p].accepted = FALSE]
  /\ agreed' = [agreed EXCEPT ![p] = None]
  /\ UNCHANGED <<online, itemVars, moneyVars, saved, elsewhere>>

\* Mutant: the trader's side is forgotten.
CloseOwn(p) ==
  /\ trade' = [trade EXCEPT ![p] = NoTrade]
  /\ agreed' = [agreed EXCEPT ![p] = None]

\* Both TradeData are deleted.
Close(p) ==
  LET both == IF Trading(p) THEN {p, Trader(p)} ELSE {} IN
  /\ trade' = [q \in Players |-> IF q \in both THEN NoTrade ELSE trade[q]]
  /\ agreed' = [q \in Players |-> IF q \in both THEN None ELSE agreed[q]]

\* Cancel, Busy and Ignore; also a flight and the loss of the connection.
TradeCancel(p) ==
  /\ Trading(p) /\ Close(p)
  /\ UNCHANGED <<online, itemVars, moneyVars, saved, elsewhere>>

-----------------------------------------------------------------------------
(****************************************************************************)
(* Saving: one transaction writes the money and the inventories of `ps'.    *)
(* A lost item is in no update queue: its row stays as it is.               *)
(****************************************************************************)

Saved(ps, coins, gone, holders) ==
  [money |-> [p \in Players |-> IF p \in ps THEN coins[p] ELSE saved.money[p]],
   spent |-> [p \in Players |-> IF p \in ps THEN gone[p] ELSE saved.spent[p]],
   holder |-> [i \in Items |->
      IF holders[i] \in ps \/ (holders[i] = Gone /\ saved.holder[i] \in ps)
      THEN holders[i] ELSE saved.holder[i]]]

-----------------------------------------------------------------------------
(****************************************************************************)
(* HandleAcceptTradeOpcode: p accepts the trade with q.                     *)
(****************************************************************************)

HasEnoughMoney(p) == trade[p].money <= money[p]
\* p can hold what q puts down
BelowCap(p, q) == money[p] < MAX_MONEY_AMOUNT - trade[q].money

\* The items in the traded slots of p that are still there.
Given(p) == {GetItem(p, s) : s \in Traded} \ {None}

Blocked(p, q) ==
  \/ \E i \in Given(p) \cup Given(q) : ~CanBeTraded(i)
  \/ \E i \in Given(p) : IsBindedNotWith(i, q)

\* The acceptances of p and q after a press that completes nothing.
Pressed(p, mine, his) ==
  LET q == Trader(p) IN
  /\ trade' = [trade EXCEPT ![p].accepted = mine, ![q].accepted = his]
  /\ agreed' = [agreed EXCEPT ![p] = IF mine THEN Table(p) ELSE None,
                              ![q] = IF his THEN @ ELSE None]
  /\ UNCHANGED <<online, itemVars, moneyVars, saved, elsewhere>>

\* The distance between the two is free to be too large at any time.
AcceptTooFar(p) == Trading(p) /\ Pressed(p, FALSE, trade[Trader(p)].accepted)

\* Too little money or too much undoes the acceptance of the one it concerns.
AcceptPoor(p) ==
  LET q == Trader(p) IN
  /\ Trading(p)
  /\ \/ ~HasEnoughMoney(p)
     \/ HasEnoughMoney(q) /\ ~BelowCap(p, q)
  /\ Pressed(p, FALSE, trade[q].accepted)

AcceptPartnerPoor(p) ==
  LET q == Trader(p) IN
  /\ Trading(p) /\ HasEnoughMoney(p)
  /\ \/ ~HasEnoughMoney(q)
     \/ BelowCap(p, q) /\ ~BelowCap(q, p)
  /\ Pressed(p, TRUE, FALSE)

\* Mutant: how much the two can hold is not looked at.
MoneyFineNoCap(p) == HasEnoughMoney(p) /\ HasEnoughMoney(Trader(p))

MoneyFine(p) ==
  LET q == Trader(p) IN
  HasEnoughMoney(p) /\ HasEnoughMoney(q) /\ BelowCap(p, q) /\ BelowCap(q, p)

\* The trade cannot go through, and neither acceptance is undone.
AcceptBlocked(p) ==
  /\ Trading(p) /\ MoneyFine(p) /\ Blocked(p, Trader(p))
  /\ Pressed(p, TRUE, trade[Trader(p)].accepted)

AcceptFirst(p) ==
  /\ Trading(p) /\ MoneyFine(p) /\ ~Blocked(p, Trader(p)) /\ ~trade[Trader(p)].accepted
  /\ Pressed(p, TRUE, FALSE)

\* Mutant: the partner's acceptance is not looked at.
SecondAlone(p) == Trading(p) /\ MoneyFine(p) /\ ~Blocked(p, Trader(p))

\* All checks passed, and the partner has accepted already.
Second(p) ==
  /\ Trading(p) /\ MoneyFine(p) /\ ~Blocked(p, Trader(p)) /\ trade[Trader(p)].accepted

\* The spell of x has an item to be cast on.
SpellHasItem(x) ==
  trade[x].spell => GetItem(Trader(x), TRADE_SLOT_NONTRADED) \in Enchantable

\* A spell that cannot be cast now is dropped (SetSpell(0)): mine first.  One that
\* has its item may fail for other reasons.
AcceptNoSpell(p) ==
  /\ Second(p)
  /\ \/ /\ trade[p].spell
        /\ Change(p, [trade[p] EXCEPT !.spell = FALSE], trade[Trader(p)])
     \/ /\ trade[Trader(p)].spell /\ SpellHasItem(p)
        /\ Change(p, trade[p], [trade[Trader(p)] EXCEPT !.spell = FALSE])

\* Player::CanTakeMoreSimilarItems, when the items are held as `h' says
CanTakeMore(h, p, i) ==
  \A u \in Limited : i \in u => Cardinality({j \in u \ {i} : h[j] = p}) < MaxCount[u]

\* Player::CanStoreItem
CanStoreItem(h, p, i) ==
  /\ Cardinality({j \in Items : h[j] = p}) < Capacity
  /\ CanTakeMore(h, p, i) /\ ~IsBindedNotWith(i, p)

\* Mutant: only the room is looked at.
CanStoreItemsRoom(p, q) ==
  Cardinality(Held(p) \ Given(p)) + Cardinality(Given(q)) <= Capacity

\* Player::CanStoreItems: what q gives fits into the inventory of p, where the items
\* p gives take no room but count as similar ones, and each of q's is tested alone.
CanStoreItems(p, q) ==
  /\ Cardinality(Held(p) \ Given(p)) + Cardinality(Given(q)) <= Capacity
  /\ \A i \in Given(q) : CanTakeMore(holder, p, i) /\ ~IsBindedNotWith(i, p)

AcceptNoRoom(p) ==
  LET q == Trader(p) IN
  /\ Second(p) /\ SpellHasItem(p) /\ SpellHasItem(q)
  /\ ~(CanStoreItems(q, p) /\ CanStoreItems(p, q))
  /\ Change(p, trade[p], trade[q])

Stored(h, p, i) == IF i = None THEN h ELSE [h EXCEPT ![i] = p]
Fits(h, p, i) == i = None \/ CanStoreItem(h, p, i)

\* One round of moveItems: the two items of a slot change sides, or else each goes
\* back to its owner, if it fits there; if not, nobody has it any more.
MoveSlot(h, p, mine, q, his) ==
  IF Fits(h, q, mine) /\ Fits(h, p, his) THEN Stored(Stored(h, q, mine), p, his)
  ELSE LET back == IF Fits(h, p, mine) THEN Stored(h, p, mine) ELSE h
       IN  IF Fits(back, q, his) THEN Stored(back, q, his) ELSE back

\* Who holds the items after "execute trade: 1. remove" and "2. store".
moveItems(p, q) ==
  LET after[s \in 0..TRADE_SLOT_TRADED_COUNT] ==
        IF s = 0
        THEN [i \in Items |-> IF i \in Given(p) \cup Given(q) THEN Lost ELSE holder[i]]
        ELSE MoveSlot(after[s - 1], p, GetItem(p, s), q, GetItem(q, s))
  IN  after[TRADE_SLOT_TRADED_COUNT]

\* Player::ModifyMoney: what the purse cannot hold is not added.
Debit(coins, amount) == IF coins > amount THEN coins - amount ELSE 0
Credit(coins, amount) == IF coins < MAX_MONEY_AMOUNT - amount THEN coins + amount ELSE coins

\* "update money"
Paid(p, q) ==
  [money EXCEPT ![p] = Credit(Debit(@, trade[p].money), trade[q].money),
                ![q] = Credit(Debit(@, trade[q].money), trade[p].money)]

\* Mutant: only the one who completes the trade is saved with it.
SavedOwn(p, q) == saved' = Saved({p}, money', spent, holder')

SavedBoth(p, q) == saved' = Saved({p, q}, money', spent, holder')

\* The items a spell of the trade is cast on.
SpellTargets(p) ==
  {GetItem(Trader(x), TRADE_SLOT_NONTRADED) : x \in {y \in {p, Trader(p)} : trade[y].spell}}

\* The row of an item that nobody has is overwritten (`over') by what is saved in its
\* place, now or later; else it stays until it is loaded.
Exchange(p, q) ==
  LET moved == moveItems(p, q) IN
  \E over \in SUBSET {i \in Given(p) \cup Given(q) : moved[i] = Lost} :
    holder' = [i \in Items |-> IF i \in over THEN Gone ELSE moved[i]]

AcceptSecond(p) ==
  LET q == Trader(p) IN
  /\ Second(p) /\ SpellHasItem(p) /\ SpellHasItem(q)
  /\ CanStoreItems(q, p) /\ CanStoreItems(p, q)
  /\ Exchange(p, q)
  /\ money' = Paid(p, q)
  /\ enchanted' = enchanted \cup SpellTargets(p)
  /\ Close(p)
  /\ SavedBoth(p, q)
  /\ UNCHANGED <<online, spent, bind, elsewhere>>

-----------------------------------------------------------------------------
(****************************************************************************)
(* What else happens to the players.                                        *)
(****************************************************************************)

Elsewhere == elsewhere < MaxElsewhere /\ elsewhere' = elsewhere + 1

\* p uses up, destroys, sells or mails an item.
Drop(p, i) ==
  /\ Elsewhere /\ p \in online /\ holder[i] = p
  /\ holder' = [holder EXCEPT ![i] = Gone]
  /\ UNCHANGED <<online, tradeVars, bind, enchanted, moneyVars, saved>>

\* p finds or buys an item, which is new.
Find(p, i) ==
  /\ Elsewhere /\ p \in online /\ holder[i] = Gone /\ saved.holder[i] = Gone
  /\ CanStoreItem(holder, p, i)
  /\ holder' = [holder EXCEPT ![i] = p]
  /\ UNCHANGED <<online, tradeVars, bind, enchanted, moneyVars, saved>>

\* p puts an item on, or the time in which the raid may trade it ends.
Bind(p, i) ==
  /\ Elsewhere /\ p \in online /\ holder[i] = p /\ bind[i] # "soul" /\ i \in Binding
  /\ bind' = [bind EXCEPT ![i] = "soul"]
  /\ UNCHANGED <<online, tradeVars, holder, enchanted, moneyVars, saved>>

\* p spends a coin.
Spend(p) ==
  /\ Elsewhere /\ p \in online /\ money[p] > 0
  /\ money' = [money EXCEPT ![p] = @ - 1] /\ spent' = [spent EXCEPT ![p] = @ + 1]
  /\ UNCHANGED <<online, tradeVars, itemVars, saved>>

SaveToDB(p) ==
  /\ p \in online
  /\ saved' = Saved({p}, money, spent, holder)
  /\ UNCHANGED <<online, tradeVars, itemVars, moneyVars, elsewhere>>

\* Logging out cancels the trade and saves.
Logout(p) ==
  /\ p \in online
  /\ online' = online \ {p}
  /\ Close(p)
  /\ saved' = Saved({p}, money, spent, holder)
  /\ UNCHANGED <<itemVars, moneyVars, elsewhere>>

\* Player::_LoadInventory: the rows are loaded in some order, and an item that does not
\* fit then is sent by mail.
LoadInventory(p) ==
  LET rows == {i \in Items : saved.holder[i] = p} IN
  \E is \in SUBSET rows :
    /\ Carriable(is) /\ \A i \in rows \ is : ~Carriable(is \cup {i})
    /\ holder' = [i \in Items |-> IF i \in is THEN p
                                  ELSE IF p \in {holder[i], saved.holder[i]} THEN Gone ELSE holder[i]]
    /\ saved' = [saved EXCEPT !.holder =
                    [i \in Items |-> IF i \in rows \ is THEN Gone ELSE saved.holder[i]]]

Login(p) ==
  /\ p \notin online
  /\ online' = online \cup {p}
  /\ LoadInventory(p)
  /\ UNCHANGED <<tradeVars, bind, enchanted, moneyVars, elsewhere>>

\* A crash and a restart: everything is what the database has.
Crash ==
  /\ online' = {}
  /\ trade' = [p \in Players |-> NoTrade] /\ agreed' = [p \in Players |-> None]
  /\ money' = saved.money /\ spent' = saved.spent /\ holder' = saved.holder
  /\ UNCHANGED <<bind, enchanted, saved, elsewhere>>

HandleAcceptTrade(p) ==
  \/ AcceptTooFar(p) \/ AcceptPoor(p) \/ AcceptPartnerPoor(p) \/ AcceptBlocked(p)
  \/ AcceptFirst(p) \/ AcceptNoSpell(p) \/ AcceptNoRoom(p) \/ AcceptSecond(p)

ChangeTrade(p) ==
  \/ \E q \in Players : HandleInitiateTrade(p, q)
  \/ \E m \in Money : HandleSetTradeGold(p, m)
  \/ \E s \in Slots, i \in Items : HandleSetTradeItem(p, s, i)
  \/ \E s \in Slots : HandleClearTradeItem(p, s)
  \/ SetSpell(p) \/ HandleUnacceptTrade(p) \/ TradeCancel(p)

OutsideTrade(p) ==
  \/ \E i \in Items : Drop(p, i) \/ Find(p, i) \/ Bind(p, i)
  \/ Spend(p) \/ SaveToDB(p) \/ Logout(p) \/ Login(p)

Next ==
  \/ \E p \in Players : ChangeTrade(p) \/ HandleAcceptTrade(p) \/ OutsideTrade(p)
  \/ Crash

Spec == Init /\ [][Next]_vars

-----------------------------------------------------------------------------
(****************************************************************************)
(* Properties.                                                              *)
(****************************************************************************)

\* Type invariant of both TradeData, the inventories, the purses and the database.
TypeOK ==
  /\ online \subseteq Players
  /\ trade \in [Players -> Trades \cup {NoTrade}]
  /\ money \in [Players -> Money] /\ spent \in [Players -> Nat]
  /\ holder \in [Items -> Holders] /\ bind \in [Items -> Bindings]
  /\ enchanted \subseteq Items /\ elsewhere \in 0..MaxElsewhere
  /\ saved \in [money : [Players -> Money], spent : [Players -> Nat],
                holder : [Items -> Holders]]

\* The two TradeData of a trade point at each other, and both players are there:
\* every handler follows GetTraderData() without a test.
Paired ==
  \A p \in Players : Trading(p) =>
    /\ Trader(p) # p /\ Trading(Trader(p)) /\ Trader(Trader(p)) = p
    /\ {p, Trader(p)} \subseteq online

\* A standing acceptance is for what is on the table now: whatever either side changed
\* since, items, money or spells, has undone it.
AgreedOffers == \A p \in Players : Trading(p) /\ trade[p].accepted => agreed[p] = Table(p)

\* Of one limited kind q gives two or more, together more than p may have.
Together(p, q) ==
  \E u \in Limited :
    /\ Cardinality(u \cap Given(q)) > 1
    /\ Cardinality(u \cap (Held(p) \ Given(p))) + Cardinality(u \cap Given(q)) > MaxCount[u]

\* All that lay on the table of p is the other side's.
Exchanged(p) ==
  /\ \A i \in Given(p) : holder'[i] = Trader(p)
  /\ \A i \in Given(Trader(p)) : holder'[i] = p

\* A completed trade has moved every item of the table to the other side: "we had to
\* check, if the trade will work before we actually do it", for the moves slot by slot
\* cannot be rolled back.
ExchangedWhole == [][\A p \in Players : Trading(p) /\ AcceptSecond(p) => Exchanged(p)]_vars

\* The check of CanStoreItems does that unless one side gives together too many of a
\* limited kind: it is asked before the first move, of inventories that every move changes.
NothingLost ==
  [][\A p \in Players :
       Trading(p) /\ AcceptSecond(p) /\ ~Together(p, Trader(p)) /\ ~Together(Trader(p), p)
         => Exchanged(p)]_vars

\* Only what the table showed changes hands, and only after the one who is not pressing
\* accepted that table; an item bound to its holder never does, and one that the raid may
\* still trade stays in the raid.
OnlyAgreedItems ==
  [][\A i \in Items, p \in Players : holder[i] = p /\ holder'[i] \in Players \ {p} =>
       /\ Trading(p) /\ i \in Given(p)
       /\ \E x \in {p, Trader(p)} : trade[x].accepted /\ agreed[x] = Table(x)
       /\ bind[i] # "soul" /\ (bind[i] = "raid" => holder'[i] \in Raiders)]_vars

\* A spell of a trade is cast only on the item that the partner of the caster showed when
\* the trade was accepted, and still has.
OnlyAgreedSpells ==
  [][\A i \in enchanted' \ enchanted : \E p \in Players :
       /\ Trading(p) /\ trade[p].spell /\ holder[i] = Trader(p)
       /\ trade[Trader(p)].items[TRADE_SLOT_NONTRADED] = i
       /\ \E x \in {p, Trader(p)} : trade[x].accepted /\ agreed[x] = Table(x)]_vars

\* Trades neither make nor burn money, in memory and in what a crash would restore, whoever
\* spends what he has put down while the trade is open.
Balance(coins, gone) == SumFunction([p \in Players |-> coins[p] + gone[p]]) = SumFunction(InitMoney)
MoneyConserved == Balance(money, spent) /\ Balance(saved.money, saved.spent)

\* No crash takes back one half of an exchange: what one player got from another is not
\* the other's in the database.
HandedOver ==
  \A i \in Items : holder[i] \in Players => saved.holder[i] \in {holder[i], Gone}
=============================================================================
