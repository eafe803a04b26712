----------------------------- MODULE Trade_proofs -----------------------------
(****************************************************************************)
(* Proofs about Trade, for any players, items, slots, purses and bounds.    *)
(*                                                                          *)
(* IInv is inductive: the types, the pairing of the two TradeData, what an  *)
(* acceptance stands for, and what the database has of exchanged items.     *)
(* MoneyInv and ItemsInv build on it: a player's coins and what he spent    *)
(* are the same in memory and in the database, no item lies in two slots,   *)
(* and nobody has more of a limited kind than he may.                       *)
(* The exchange itself, moveItems, is a loop over the slots.  LoopInduction *)
(* reasons about it by the first round that would do anything else; it      *)
(* shows what the loop may do to an item in any state (MovesBetween), and   *)
(* that it moves every item when the checks before it passed and no side    *)
(* gives together too much (AllMoved).                                      *)
(****************************************************************************)
EXTENDS Trade, CollectionLemmas

AgreedPerPlayer == agreed = [p \in Players |-> agreed[p]]

IInv == TypeOK /\ AgreedPerPlayer /\ Paired /\ AgreedOffers /\ HandedOver

-----------------------------------------------------------------------------
(****************************************************************************)
(* The loop over the slots.                                                 *)
(****************************************************************************)

Given2(p, q) == Given(p) \cup Given(q)
Removed(p, q) == [i \in Items |-> IF i \in Given2(p, q) THEN Lost ELSE holder[i]]
Round(p, q, s, h) == MoveSlot(h, p, GetItem(p, s), q, GetItem(q, s))
Rounds(p, q, n, f) ==
  /\ f[0] = Removed(p, q)
  /\ \A s \in 1..n : f[s] = Round(p, q, s, f[s - 1])

\* Who may hold an item after some rounds: one of the two, or nobody, if it was given;
\* else whoever held it.
Between(p, q, h) ==
  /\ h \in [Items -> Holders]
  /\ \A i \in Items : IF i \in Given2(p, q) THEN h[i] \in {p, q, Lost, Gone} ELSE h[i] = holder[i]

\* An item that GetItem finds in a traded slot is a given one.
LEMMA FoundIsGiven ==
  ASSUME NEW p \in Players, NEW s \in Traded, GetItem(p, s) # None
  PROVE  GetItem(p, s) \in Given(p)
BY DEF Given

\* A round keeps Between.
LEMMA RoundBetween ==
  ASSUME NEW p \in Players, NEW q \in Players, NEW s \in Traded, NEW h, Between(p, q, h)
  PROVE  Between(p, q, Round(p, q, s, h))
<1> DEFINE mine == GetItem(p, s)
           his == GetItem(q, s)
<1>1. mine = None \/ mine \in Given2(p, q)
  BY FoundIsGiven DEF Given2
<1>2. his = None \/ his \in Given2(p, q)
  BY FoundIsGiven DEF Given2
<1>3. ASSUME NEW i, NEW g \in [Items -> Holders], NEW x \in {p, q}, Between(p, q, g),
             i = None \/ i \in Given2(p, q)
      PROVE  Between(p, q, Stored(g, x, i))
  <2>1. CASE i = None
    BY <1>3, <2>1 DEF Stored
  <2>2. CASE i # None
    <3>1. Stored(g, x, i) = [g EXCEPT ![i] = x] /\ x \in Holders
      BY <2>2 DEF Stored, Holders
    <3>2. [g EXCEPT ![i] = x] \in [Items -> Holders]
      BY <3>1
    <3>3. ASSUME NEW k \in Items
          PROVE  IF k \in Given2(p, q) THEN [g EXCEPT ![i] = x][k] \in {p, q, Lost, Gone}
                 ELSE [g EXCEPT ![i] = x][k] = holder[k]
      BY <1>3, <2>2 DEF Between
    <3> QED BY <3>1, <3>2, <3>3 DEF Between
  <2> QED BY <2>1, <2>2
<1>4. \A g : Between(p, q, g) => g \in [Items -> Holders]
  BY DEF Between
<1> HIDE DEF mine, his
<1>5. Between(p, q, MoveSlot(h, p, mine, q, his))
  <2>1. Between(p, q, Stored(Stored(h, q, mine), p, his))
    BY <1>1, <1>2, <1>3, <1>4
  <2>2. Between(p, q, Stored(h, p, mine))
    BY <1>1, <1>3, <1>4
  <2>3. \A g : Between(p, q, g) => Between(p, q, Stored(g, q, his))
    BY <1>2, <1>3, <1>4
  <2> QED BY <2>1, <2>2, <2>3, Zenon DEF MoveSlot
<1> QED BY <1>5 DEF Round, mine, his

\* The loop has a result for every number of rounds.
LEMMA RoundsExist ==
  ASSUME TradeAssumption, NEW p \in Players, NEW q \in Players
  PROVE  \E f : DOMAIN f = 0..TRADE_SLOT_TRADED_COUNT /\ f = [s \in 0..TRADE_SLOT_TRADED_COUNT |-> f[s]]
                /\ Rounds(p, q, TRADE_SLOT_TRADED_COUNT, f)
<1> DEFINE N == TRADE_SLOT_TRADED_COUNT
           Ran(n) == \E f : DOMAIN f = 0..n /\ f = [s \in 0..n |-> f[s]] /\ Rounds(p, q, n, f)
           T == {n \in Nat : ~Ran(n)}
<1>1. N \in Nat BY DEF TradeAssumption
<1>2. Ran(0)
  <2> DEFINE f == [s \in 0..0 |-> Removed(p, q)]
  <2>1. DOMAIN f = 0..0 /\ f = [s \in 0..0 |-> f[s]] /\ f[0] = Removed(p, q) OBVIOUS
  <2>2. Rounds(p, q, 0, f) BY <2>1 DEF Rounds
  <2> QED BY <2>1, <2>2
<1>3. \A n \in Nat : Ran(n) => Ran(n + 1)
  <2> SUFFICES ASSUME NEW n \in Nat, NEW f, DOMAIN f = 0..n, Rounds(p, q, n, f)
               PROVE Ran(n + 1)
    BY Zenon
  <2> DEFINE g == [s \in 0..(n + 1) |-> IF s = n + 1 THEN Round(p, q, n + 1, f[n]) ELSE f[s]]
  <2>1. DOMAIN g = 0..(n + 1) /\ g = [s \in 0..(n + 1) |-> g[s]] OBVIOUS
  <2>2. g[0] = Removed(p, q) BY DEF Rounds
  <2>3. ASSUME NEW s \in 1..(n + 1) PROVE g[s] = Round(p, q, s, g[s - 1])
    <3>1. CASE s = n + 1
      <4>1. g[s] = Round(p, q, n + 1, f[n]) BY <3>1
      <4>2. s - 1 = n /\ g[n] = f[n] BY <3>1
      <4> QED BY <3>1, <4>1, <4>2
    <3>2. CASE s # n + 1
      <4>1. s \in 1..n /\ s - 1 \in 0..n /\ s - 1 # n + 1 BY <3>2
      <4>2. g[s] = f[s] /\ g[s - 1] = f[s - 1] BY <4>1, <3>2
      <4>3. f[s] = Round(p, q, s, f[s - 1]) BY <4>1 DEF Rounds
      <4> QED BY <4>2, <4>3
    <3> QED BY <3>1, <3>2
  <2> HIDE DEF g
  <2>4. Rounds(p, q, n + 1, g) BY <2>2, <2>3 DEF Rounds
  <2> QED BY <2>1, <2>4
<1> HIDE DEF Ran
<1>4. T = {}
  <2> SUFFICES ASSUME T # {} PROVE FALSE OBVIOUS
  <2>1. PICK n \in T : \A m \in T : n <= m BY LeastNatural
  <2>2. n # 0 /\ n \in Nat /\ ~Ran(n) BY <1>2, <2>1
  <2>3. n - 1 \in Nat /\ n - 1 \notin T BY <2>1, <2>2
  <2>4. Ran(n - 1) BY <2>3
  <2>5. Ran((n - 1) + 1) BY <1>3, <2>3, <2>4
  <2>6. (n - 1) + 1 = n BY <2>2
  <2> QED BY <2>2, <2>5, <2>6
<1>5. Ran(N) BY <1>1, <1>4
<1> QED BY <1>5 DEF Ran

\* moveItems is the last of these rounds.
LEMMA LoopRuns ==
  ASSUME TradeAssumption, NEW p \in Players, NEW q \in Players
  PROVE  \E f : /\ Rounds(p, q, TRADE_SLOT_TRADED_COUNT, f)
                /\ moveItems(p, q) = f[TRADE_SLOT_TRADED_COUNT]
<1> DEFINE N == TRADE_SLOT_TRADED_COUNT
           after[s \in 0..N] == IF s = 0 THEN Removed(p, q)
                                ELSE Round(p, q, s, after[s - 1])
<1>0. N \in Nat BY DEF TradeAssumption
<1>1. \A s \in 0..N : after[s] = IF s = 0 THEN Removed(p, q) ELSE Round(p, q, s, after[s - 1])
  <2>1. PICK f : f = [s \in 0..N |-> f[s]] /\ DOMAIN f = 0..N /\ Rounds(p, q, N, f)
    BY RoundsExist
  <2>2. f = [s \in 0..N |-> IF s = 0 THEN Removed(p, q) ELSE Round(p, q, s, f[s - 1])]
    <3>1. ASSUME NEW s \in 0..N
          PROVE  f[s] = IF s = 0 THEN Removed(p, q) ELSE Round(p, q, s, f[s - 1])
      <4>1. s = 0 \/ s \in 1..N BY <1>0
      <4>2. s \in 1..N => s # 0 BY <1>0
      <4> QED BY <2>1, <4>1, <4>2, Zenon DEF Rounds
    <3>2. f = [s \in 0..N |-> f[s]] BY <2>1
    <3> QED BY <3>1, <3>2, Zenon
  <2>3. after = [s \in 0..N |-> IF s = 0 THEN Removed(p, q) ELSE Round(p, q, s, after[s - 1])]
    BY <2>2, Zenon
  <2> HIDE DEF after
  <2> QED BY <2>3, Zenon
<1>2. moveItems(p, q) = after[N]
  BY Zenon DEF moveItems, Round, Removed, Given2
<1> HIDE DEF after
<1>3. 0 \in 0..N /\ \A s \in 1..N : s \in 0..N /\ s # 0
  BY <1>0
<1>4. Rounds(p, q, N, after)
  BY <1>1, <1>3 DEF Rounds
<1> QED BY <1>2, <1>4

\* What holds of the holders before the loop and is kept by every round holds after it: R
\* has, for every number of rounds, the assignments of holders that are possible.
LEMMA LoopInduction ==
  ASSUME TradeAssumption, NEW p \in Players, NEW q \in Players, NEW R,
         Removed(p, q) \in R[0],
         \A s \in Traded : \A h \in R[s - 1] : Round(p, q, s, h) \in R[s]
  PROVE  moveItems(p, q) \in R[TRADE_SLOT_TRADED_COUNT]
<1> DEFINE N == TRADE_SLOT_TRADED_COUNT
<1>0. N \in Nat BY DEF TradeAssumption
<1>1. PICK f : Rounds(p, q, N, f) /\ moveItems(p, q) = f[N]
  BY LoopRuns
<1> DEFINE T == {n \in Nat : n <= N /\ f[n] \notin R[n]}
<1>2. T = {}
  <2> SUFFICES ASSUME T # {} PROVE FALSE OBVIOUS
  <2>1. PICK n \in T : \A m \in T : n <= m BY LeastNatural
  <2>2. n # 0 BY <1>1, <2>1 DEF Rounds
  <2>3. n \in 1..N /\ n - 1 \in Nat /\ n - 1 <= N /\ ~(n <= n - 1) BY <1>0, <2>1, <2>2
  <2>4. f[n - 1] \in R[n - 1] BY <2>1, <2>3
  <2>5. f[n] = Round(p, q, n, f[n - 1]) /\ n \in Traded BY <1>1, <2>3 DEF Rounds, Traded
  <2>6. Round(p, q, n, f[n - 1]) \in R[n] BY <2>4, <2>5, Zenon
  <2> QED BY <2>1, <2>5, <2>6
<1> QED BY <1>0, <1>1, <1>2

\* What an exchange may do to the holders of the items.
LEMMA MovesBetween ==
  ASSUME TradeAssumption, NEW p \in Players, NEW q \in Players, holder \in [Items -> Holders]
  PROVE  Between(p, q, moveItems(p, q))
<1>1. PICK B : B = {h \in [Items -> Holders] : Between(p, q, h)}
  OBVIOUS
<1>2. PICK R : R = [s \in 0..TRADE_SLOT_TRADED_COUNT |-> B]
  OBVIOUS
<1>0. TRADE_SLOT_TRADED_COUNT \in Nat BY DEF TradeAssumption
<1>3. Removed(p, q) \in B
  BY <1>1 DEF Between, Removed, Holders
<1>4. \A s \in Traded, h \in B : Round(p, q, s, h) \in B
  BY <1>1, RoundBetween DEF Between
<1>5. \A s \in Traded : s - 1 \in 0..TRADE_SLOT_TRADED_COUNT /\ s \in 0..TRADE_SLOT_TRADED_COUNT
  BY <1>0 DEF Traded
<1>6. Removed(p, q) \in R[0] /\ \A s \in Traded : \A h \in R[s - 1] : Round(p, q, s, h) \in R[s]
  BY <1>0, <1>2, <1>3, <1>4, <1>5
<1>7. moveItems(p, q) \in R[TRADE_SLOT_TRADED_COUNT]
  BY <1>6, LoopInduction
<1> QED BY <1>0, <1>1, <1>2, <1>7

\* The exchange takes from that only rows that are overwritten.
LEMMA ExchangeOver ==
  ASSUME NEW p \in Players, NEW q \in Players, Exchange(p, q), NEW h, moveItems(p, q) = h
  PROVE  /\ holder' = [i \in Items |-> holder'[i]]
         /\ \A i \in Items : \/ holder'[i] = h[i]
                             \/ i \in Given(p) \cup Given(q) /\ h[i] = Lost /\ holder'[i] = Gone
<1>1. PICK over : /\ \A i \in over : i \in Given(p) \cup Given(q) /\ h[i] = Lost
                  /\ holder' = [i \in Items |-> IF i \in over THEN Gone ELSE h[i]]
  BY Zenon DEF Exchange
<1>2. \A i \in Items : holder'[i] = IF i \in over THEN Gone ELSE h[i]
  BY <1>1
<1> QED BY <1>1, <1>2

\* So it stays between the two.
LEMMA ExchangeBetween ==
  ASSUME TradeAssumption, NEW p \in Players, NEW q \in Players, holder \in [Items -> Holders],
         Exchange(p, q)
  PROVE  Between(p, q, holder')
<1>1. PICK h : h = moveItems(p, q)
  OBVIOUS
<1>2. Between(p, q, h)
  BY <1>1, MovesBetween
<1>3. /\ holder' = [i \in Items |-> holder'[i]]
      /\ \A i \in Items : \/ holder'[i] = h[i]
                          \/ i \in Given(p) \cup Given(q) /\ h[i] = Lost /\ holder'[i] = Gone
  BY <1>1, ExchangeOver
<1> QED BY <1>2, <1>3 DEF Between, Given2, Holders

-----------------------------------------------------------------------------
(****************************************************************************)
(* The classes of steps.                                                    *)
(****************************************************************************)

TradeTypeOK == trade \in [Players -> Trades \cup {NoTrade}]
ItemTypeOK ==
  /\ holder \in [Items -> Holders] /\ bind \in [Items -> Bindings]
  /\ enchanted \subseteq Items
PurseTypeOK == money \in [Players -> Money] /\ spent \in [Players -> Nat]
SavedTypeOK ==
  saved \in [money : [Players -> Money], spent : [Players -> Nat], holder : [Items -> Holders]]

\* The type invariant, by the part of the state.
LEMMA TypeParts ==
  TypeOK <=> /\ online \subseteq Players /\ TradeTypeOK /\ ItemTypeOK /\ PurseTypeOK
             /\ SavedTypeOK /\ elsewhere \in 0..MaxElsewhere
BY DEF TypeOK, TradeTypeOK, ItemTypeOK, PurseTypeOK, SavedTypeOK

\* The fields of one side of an open trade.
LEMMA TradeFields ==
  ASSUME TradeTypeOK, NEW p \in Players, Trading(p)
  PROVE  /\ trade[p] \in Trades /\ Trader(p) \in Players
         /\ trade[p].items \in [Slots -> Items \cup {None}]
         /\ trade[p].money \in Money /\ trade[p].spell \in BOOLEAN /\ trade[p].accepted \in BOOLEAN
<1>1. trade[p] \in Trades BY DEF TradeTypeOK, Trading
<1> QED BY <1>1 DEF Trades, Trader

\* What a step leaves alone when it only touches trades.
Apart == UNCHANGED <<itemVars, moneyVars, saved, elsewhere>>

\* A step that sets both sides of the trade of p, with the same traders, and keeps an
\* acceptance only when the table stays what it was agreed on.
LEMMA BothSides ==
  ASSUME TradeNames, IInv, NEW p \in Players, Trading(p), NEW mine \in Trades, NEW his \in Trades,
         mine.trader = Trader(p), his.trader = p,
         trade' = [trade EXCEPT ![p] = mine, ![Trader(p)] = his],
         \A x \in Players \ {p, Trader(p)} : agreed'[x] = agreed[x], AgreedPerPlayer',
         mine.accepted =>
           agreed'[p] = <<<<mine.items, mine.money, mine.spell>>, <<his.items, his.money, his.spell>>>>,
         his.accepted =>
           agreed'[Trader(p)] = <<<<his.items, his.money, his.spell>>, <<mine.items, mine.money, mine.spell>>>>,
         online' = online, Apart
  PROVE  IInv'
<1> DEFINE q == Trader(p)
<1>1. q \in Players /\ q # p /\ Trading(q) /\ Trader(q) = p /\ {p, q} \subseteq online
  BY TypeParts, TradeFields DEF IInv, Paired
<1>2. trade'[p] = mine /\ trade'[q] = his
  BY <1>1, TypeParts DEF IInv, TradeTypeOK
<1>3. \A x \in Players \ {p, q} : trade'[x] = trade[x]
  BY <1>1, TypeParts DEF IInv, TradeTypeOK
<1>4. TradeTypeOK'
  BY <1>1, TypeParts DEF IInv, TradeTypeOK
<1>5. TypeOK'
  BY <1>4, TypeParts DEF IInv, TypeOK, TradeTypeOK, Apart, itemVars, moneyVars
<1>6. mine # NoTrade /\ his # NoTrade BY DEF TradeNames
<1>7. Paired'
  <2> SUFFICES ASSUME NEW x \in Players, Trading(x)'
               PROVE (/\ Trader(x) # x /\ Trading(Trader(x)) /\ Trader(Trader(x)) = x
                      /\ {x, Trader(x)} \subseteq online)'
    BY DEF Paired
  <2>1. CASE x = p BY <2>1, <1>1, <1>2, <1>6 DEF Trader, Trading
  <2>2. CASE x = q BY <2>2, <1>1, <1>2, <1>6 DEF Trader, Trading
  <2>3. CASE x \notin {p, q}
    <3>1. Trading(x) /\ Trader(x)' = Trader(x) BY <2>3, <1>3 DEF Trading, Trader
    <3>2. Trader(x) # x /\ Trading(Trader(x)) /\ Trader(Trader(x)) = x
          /\ {x, Trader(x)} \subseteq online /\ Trader(x) \in Players
      BY <3>1, TypeParts, TradeFields DEF IInv, Paired
    <3>3. Trader(x) \notin {p, q} BY <2>3, <3>2, <1>1
    <3>4. trade'[Trader(x)] = trade[Trader(x)] BY <3>2, <3>3, <1>3
    <3> QED BY <3>1, <3>2, <3>4 DEF Trading, Trader
  <2> QED BY <2>1, <2>2, <2>3
<1>8. AgreedOffers'
  <2> SUFFICES ASSUME NEW x \in Players, Trading(x)', trade'[x].accepted
               PROVE agreed'[x] = Table(x)'
    BY DEF AgreedOffers
  <2>1. CASE x = p BY <2>1, <1>1, <1>2 DEF Table, Offer, Trader
  <2>2. CASE x = q BY <2>2, <1>1, <1>2 DEF Table, Offer, Trader
  <2>3. CASE x \notin {p, q}
    <3>1. Trading(x) /\ trade'[x] = trade[x] BY <2>3, <1>3 DEF Trading
    <3>2. Trader(Trader(x)) = x /\ Trader(x) \in Players
      BY <3>1, TypeParts, TradeFields DEF IInv, Paired
    <3>3. trade'[Trader(x)] = trade[Trader(x)] BY <2>3, <3>2, <1>1, <1>3
    <3>4. agreed[x] = Table(x) BY <3>1 DEF IInv, AgreedOffers
    <3>5. agreed'[x] = agreed[x] BY <2>3
    <3> QED BY <3>1, <3>3, <3>4, <3>5 DEF Table, Offer, Trader
  <2> QED BY <2>1, <2>2, <2>3
<1>9. HandedOver'
  BY DEF IInv, HandedOver, Apart, itemVars
<1> QED BY <1>5, <1>7, <1>8, <1>9 DEF IInv

\* Change keeps the invariant.
LEMMA ChangeKeeps ==
  ASSUME TradeNames, IInv, NEW p \in Players, Trading(p), NEW mine \in Trades, NEW his \in Trades,
         mine.trader = Trader(p), his.trader = p, Change(p, mine, his)
  PROVE  IInv'
<1> DEFINE m == [mine EXCEPT !.accepted = FALSE]
           h == [his EXCEPT !.accepted = FALSE]
<1>1. m \in Trades /\ h \in Trades /\ m.trader = Trader(p) /\ h.trader = p
      /\ m.accepted = FALSE /\ h.accepted = FALSE
  BY DEF Trades
<1>2. trade' = [trade EXCEPT ![p] = m, ![Trader(p)] = h] /\ online' = online /\ Apart
  BY DEF Change, Apart
<1>3. agreed' = [agreed EXCEPT ![p] = None, ![Trader(p)] = None]
  BY DEF Change
<1>4. (\A x \in Players \ {p, Trader(p)} : agreed'[x] = agreed[x]) /\ AgreedPerPlayer'
  BY <1>3 DEF IInv, AgreedPerPlayer
<1> HIDE DEF m, h
<1> QED BY <1>1, <1>2, <1>4, BothSides

\* Pressed keeps it, if an acceptance that stays was there.
LEMMA PressedKeeps ==
  ASSUME TradeNames, IInv, NEW p \in Players, Trading(p), NEW mine \in BOOLEAN, NEW his \in BOOLEAN,
         his => trade[Trader(p)].accepted, Pressed(p, mine, his)
  PROVE  IInv'
<1> DEFINE q == Trader(p)
           m == [trade[p] EXCEPT !.accepted = mine]
           h == [trade[q] EXCEPT !.accepted = his]
<1>1. q \in Players /\ q # p /\ Trading(q) /\ Trader(q) = p
  BY TypeParts, TradeFields DEF IInv, Paired
<1>2. trade[p] \in Trades /\ trade[q] \in Trades
  BY <1>1, TypeParts, TradeFields DEF IInv
<1>3. m \in Trades /\ h \in Trades /\ m.trader = q /\ h.trader = p
      /\ m.accepted = mine /\ h.accepted = his
  BY <1>1, <1>2 DEF Trades, Trader
<1>4. /\ m.items = trade[p].items /\ m.money = trade[p].money /\ m.spell = trade[p].spell
      /\ h.items = trade[q].items /\ h.money = trade[q].money /\ h.spell = trade[q].spell
  BY <1>2 DEF Trades
<1>5. trade' = [trade EXCEPT ![p] = m, ![q] = h]
  BY <1>1, TypeParts DEF Pressed, IInv, TradeTypeOK
<1>6. online' = online /\ Apart
  BY DEF Pressed, Apart
<1>7. agreed' = [agreed EXCEPT ![p] = IF mine THEN Table(p) ELSE None, ![q] = IF his THEN @ ELSE None]
  BY DEF Pressed
<1>8. /\ \A x \in Players \ {p, q} : agreed'[x] = agreed[x]
      /\ AgreedPerPlayer'
      /\ mine => agreed'[p] = Table(p)
      /\ his => agreed'[q] = agreed[q]
  BY <1>1, <1>7 DEF IInv, AgreedPerPlayer
<1>9. his => agreed[q] = Table(q)
  BY <1>1 DEF IInv, AgreedOffers
<1>10. mine => agreed'[p] = <<<<m.items, m.money, m.spell>>, <<h.items, h.money, h.spell>>>>
  BY <1>4, <1>8 DEF Table, Offer
<1>11. his => agreed'[q] = <<<<h.items, h.money, h.spell>>, <<m.items, m.money, m.spell>>>>
  BY <1>1, <1>4, <1>8, <1>9 DEF Table, Offer
<1> HIDE DEF m, h
<1> QED BY <1>3, <1>5, <1>6, <1>8, <1>10, <1>11, BothSides

\* The part of the invariant that is about trades.
TradePart == TradeTypeOK /\ AgreedPerPlayer /\ Paired /\ AgreedOffers

\* Closing a trade keeps it.
LEMMA CloseKeeps ==
  ASSUME TradeNames, IInv, NEW p \in Players, Close(p), online' \in SUBSET Players,
         online \ {p} \subseteq online', Trading(p) \/ p \notin online' \/ online' = online
  PROVE  TradePart'
<1> DEFINE both == IF Trading(p) THEN {p, Trader(p)} ELSE {}
<1>1. \A x \in Players : trade'[x] = IF x \in both THEN NoTrade ELSE trade[x]
  BY DEF Close
<1>2. \A x \in Players : agreed'[x] = IF x \in both THEN None ELSE agreed[x]
  BY DEF Close
<1>3. AgreedPerPlayer' BY DEF Close, AgreedPerPlayer
<1>4. TradeTypeOK' BY TypeParts DEF Close, TradeTypeOK, IInv
<1>5. \A x \in Players : Trading(x) =>
        /\ Trader(x) \in Players /\ Trader(x) # x /\ Trading(Trader(x)) /\ Trader(Trader(x)) = x
        /\ {x, Trader(x)} \subseteq online
  BY TypeParts, TradeFields DEF IInv, Paired
<1>6. ASSUME NEW x \in Players, Trading(x)'
      PROVE /\ Trading(x) /\ x \notin both /\ trade'[x] = trade[x] /\ agreed'[x] = agreed[x]
            /\ Trader(x) \notin both /\ trade'[Trader(x)] = trade[Trader(x)]
            /\ x # p /\ Trader(x) # p
  <2>1. Trading(x) /\ x \notin both /\ trade'[x] = trade[x] /\ agreed'[x] = agreed[x]
    BY <1>1, <1>2, <1>6 DEF Trading
  <2>2. Trader(x) \notin both BY <2>1, <1>5
  <2>3. trade'[Trader(x)] = trade[Trader(x)] BY <2>1, <2>2, <1>1, <1>5
  <2>4. x # p /\ Trader(x) # p BY <2>1, <2>2, <1>5
  <2> QED BY <2>1, <2>2, <2>3, <2>4
<1> HIDE DEF both
<1>7. Paired'
  <2> SUFFICES ASSUME NEW x \in Players, Trading(x)'
               PROVE (/\ Trader(x) # x /\ Trading(Trader(x)) /\ Trader(Trader(x)) = x
                      /\ {x, Trader(x)} \subseteq online)'
    BY DEF Paired
  <2>1. Trader(x)' = Trader(x) /\ Trading(Trader(x))' /\ Trader(Trader(x))' = x
    BY <1>5, <1>6 DEF Trader, Trading
  <2>2. {x, Trader(x)} \subseteq online'
    BY <1>5, <1>6
  <2> QED BY <1>5, <1>6, <2>1, <2>2
<1>8. AgreedOffers'
  <2> SUFFICES ASSUME NEW x \in Players, Trading(x)', trade'[x].accepted
               PROVE agreed'[x] = Table(x)'
    BY DEF AgreedOffers
  <2>1. agreed[x] = Table(x) BY <1>6 DEF IInv, AgreedOffers
  <2> QED BY <1>6, <2>1 DEF Table, Offer, Trader
<1> QED BY <1>3, <1>4, <1>7, <1>8 DEF TradePart

\* A transaction that saves `ps' keeps HandedOver, if what the others have was saved.
LEMMA SavingKeeps ==
  ASSUME SavedTypeOK, ItemTypeOK', PurseTypeOK', NEW ps \in SUBSET Players,
         saved' = Saved(ps, money', spent', holder'),
         \A i \in Items : holder'[i] \in Players \ ps => saved.holder[i] \in {holder'[i], Gone}
  PROVE  SavedTypeOK' /\ HandedOver'
<1> DEFINE coins == [p \in Players |-> IF p \in ps THEN money'[p] ELSE saved.money[p]]
           gone == [p \in Players |-> IF p \in ps THEN spent'[p] ELSE saved.spent[p]]
           held == [i \in Items |->
              IF holder'[i] \in ps \/ (holder'[i] = Gone /\ saved.holder[i] \in ps)
              THEN holder'[i] ELSE saved.holder[i]]
<1>1. coins \in [Players -> Money] /\ gone \in [Players -> Nat] /\ held \in [Items -> Holders]
  BY DEF SavedTypeOK, ItemTypeOK, PurseTypeOK
<1>2. \A i \in Items : holder'[i] \in Players => held[i] \in {holder'[i], Gone}
  <2> SUFFICES ASSUME NEW i \in Items, holder'[i] \in Players PROVE held[i] \in {holder'[i], Gone}
    OBVIOUS
  <2>1. CASE holder'[i] \in ps BY <2>1
  <2>2. CASE holder'[i] \notin ps
    <3>1. saved.holder[i] \in {holder'[i], Gone} BY <2>2
    <3>2. held[i] \in {holder'[i], saved.holder[i]} OBVIOUS
    <3> QED BY <3>1, <3>2
  <2> QED BY <2>1, <2>2
<1>3. saved' = [money |-> coins, spent |-> gone, holder |-> held]
  BY DEF Saved
<1> HIDE DEF coins, gone, held
<1>4. SavedTypeOK' BY <1>1, <1>3 DEF SavedTypeOK
<1>5. saved'.holder = held BY <1>3
<1>6. HandedOver' BY <1>2, <1>5 DEF HandedOver
<1> QED BY <1>4, <1>6

\* The purses stay within their bounds.
LEMMA PaidType ==
  ASSUME TradeAssumption, TradeTypeOK, PurseTypeOK, NEW p \in Players, Trading(p),
         Trading(Trader(p))
  PROVE  Paid(p, Trader(p)) \in [Players -> Money]
<1>1. \A coins \in Money, amount \in Money : Debit(coins, amount) \in Money
  BY DEF Debit, Money, TradeAssumption
<1>2. \A coins \in Money, amount \in Money : Credit(coins, amount) \in Money
  BY DEF Credit, Money, TradeAssumption
<1>3. Trader(p) \in Players /\ trade[p].money \in Money BY TradeFields
<1>4. trade[Trader(p)].money \in Money BY <1>3, TradeFields
<1> QED BY <1>1, <1>2, <1>3, <1>4 DEF Paid, PurseTypeOK

-----------------------------------------------------------------------------
(****************************************************************************)
(* The actions.                                                             *)
(****************************************************************************)

\* The initial states.
LEMMA InitKeeps == ASSUME TradeAssumption PROVE Init => IInv
<1> SUFFICES ASSUME Init PROVE IInv OBVIOUS
<1>1. \A x \in Players : ~Trading(x) BY DEF Init, Trading
<1>2. TypeOK
  <2>1. InitMoney \in [Players -> Money] BY DEF TradeAssumption, Money
  <2>2. [p \in Players |-> 0] \in [Players -> Nat] OBVIOUS
  <2> QED BY <2>1, <2>2 DEF Init, TypeOK, TradeAssumption
<1>3. AgreedPerPlayer BY DEF Init, AgreedPerPlayer
<1>4. HandedOver
  <2>1. saved.holder = holder BY DEF Init
  <2> QED BY <2>1 DEF HandedOver
<1> QED BY <1>1, <1>2, <1>3, <1>4 DEF IInv, Paired, AgreedOffers

\* Beginning a trade.
LEMMA InitiateKeeps ==
  ASSUME TradeAssumption, TradeNames, IInv, NEW p \in Players, NEW q \in Players,
         HandleInitiateTrade(p, q)
  PROVE  IInv'
<1>1. p \in online /\ q \in online /\ p # q /\ ~Trading(p) /\ ~Trading(q)
  BY DEF HandleInitiateTrade
<1>2. EmptyTrade(p) \in Trades /\ EmptyTrade(q) \in Trades
  BY DEF EmptyTrade, Trades, Money, TradeAssumption
<1>3. /\ trade'[p] = EmptyTrade(q) /\ trade'[q] = EmptyTrade(p)
      /\ \A x \in Players \ {p, q} : trade'[x] = trade[x]
      /\ TradeTypeOK'
  BY <1>1, <1>2, TypeParts DEF HandleInitiateTrade, IInv, TradeTypeOK
<1>4. TypeOK' /\ AgreedPerPlayer' /\ HandedOver' /\ agreed' = agreed /\ online' = online
  BY <1>3, TypeParts DEF HandleInitiateTrade, IInv, AgreedPerPlayer, HandedOver, itemVars,
     moneyVars, TypeOK, TradeTypeOK
<1>5. \A x \in Players \ {p, q} : Trading(x) =>
        /\ Trader(x) \in Players \ {p, q, x} /\ Trading(Trader(x)) /\ Trader(Trader(x)) = x
        /\ {x, Trader(x)} \subseteq online
  BY <1>1, TypeParts, TradeFields DEF IInv, Paired
<1>6. EmptyTrade(p) # NoTrade /\ EmptyTrade(q) # NoTrade BY <1>2 DEF TradeNames
<1>7. EmptyTrade(q).trader = q /\ EmptyTrade(p).trader = p
      /\ EmptyTrade(q).accepted = FALSE /\ EmptyTrade(p).accepted = FALSE
  BY DEF EmptyTrade
<1>8. Paired'
  <2> SUFFICES ASSUME NEW x \in Players, Trading(x)'
               PROVE (/\ Trader(x) # x /\ Trading(Trader(x)) /\ Trader(Trader(x)) = x
                      /\ {x, Trader(x)} \subseteq online)'
    BY DEF Paired
  <2>1. CASE x = p BY <2>1, <1>1, <1>3, <1>4, <1>6, <1>7 DEF Trader, Trading
  <2>2. CASE x = q BY <2>2, <1>1, <1>3, <1>4, <1>6, <1>7 DEF Trader, Trading
  <2>3. CASE x \notin {p, q} BY <2>3, <1>3, <1>4, <1>5 DEF Trader, Trading
  <2> QED BY <2>1, <2>2, <2>3
<1>9. AgreedOffers'
  <2> SUFFICES ASSUME NEW x \in Players, Trading(x)', trade'[x].accepted
               PROVE agreed'[x] = Table(x)'
    BY DEF AgreedOffers
  <2>1. x \notin {p, q} BY <1>3, <1>7
  <2>2. Trading(x) /\ trade'[x] = trade[x] /\ trade'[Trader(x)] = trade[Trader(x)]
    BY <2>1, <1>3, <1>5 DEF Trading
  <2>3. agreed[x] = Table(x) BY <2>2 DEF IInv, AgreedOffers
  <2> QED BY <2>2, <2>3, <1>4 DEF Table, Offer, Trader
<1> QED BY <1>4, <1>8, <1>9 DEF IInv

\* The two sides of the trade of p, for the lemmas above.
LEMMA Sides ==
  ASSUME IInv, NEW p \in Players, Trading(p)
  PROVE  /\ trade[p] \in Trades /\ trade[Trader(p)] \in Trades
         /\ trade[p].trader = Trader(p) /\ trade[Trader(p)].trader = p
         /\ Trader(p) \in Players /\ Trader(p) # p /\ Trading(Trader(p))
<1>1. Trader(p) \in Players /\ Trader(p) # p /\ Trading(Trader(p)) /\ Trader(Trader(p)) = p
  BY TypeParts, TradeFields DEF IInv, Paired
<1> QED BY <1>1, TypeParts, TradeFields DEF IInv, Trader

\* One field of one side set anew.
LEMMA WithField ==
  ASSUME NEW t \in Trades
  PROVE  /\ \A m \in Money : [t EXCEPT !.money = m] \in Trades /\ [t EXCEPT !.money = m].trader = t.trader
         /\ \A b \in BOOLEAN : [t EXCEPT !.spell = b] \in Trades /\ [t EXCEPT !.spell = b].trader = t.trader
         /\ \A x \in [Slots -> Items \cup {None}], b \in BOOLEAN :
              LET u == [t EXCEPT !.items = x, !.spell = b] IN u \in Trades /\ u.trader = t.trader
         /\ \A b \in BOOLEAN : LET u == [t EXCEPT !.accepted = b] IN
              /\ u \in Trades /\ u.trader = t.trader /\ u.accepted = b
              /\ u.items = t.items /\ u.money = t.money /\ u.spell = t.spell
BY DEF Trades

\* What SetItem makes of the two sides.
LEMMA SetItemKeeps ==
  ASSUME TradeNames, IInv, NEW p \in Players, Trading(p), NEW s \in Slots,
         NEW i \in Items \cup {None}, SetItem(p, s, i)
  PROVE  IInv'
<1> DEFINE mine == [trade[p] EXCEPT !.items[s] = i, !.spell = FALSE]
           his == [trade[Trader(p)] EXCEPT !.spell = @ /\ s # TRADE_SLOT_NONTRADED]
<1>1. mine \in Trades /\ his \in Trades /\ mine.trader = Trader(p) /\ his.trader = p
  <2>1. [trade[p].items EXCEPT ![s] = i] \in [Slots -> Items \cup {None}]
    BY Sides DEF Trades
  <2>2. (trade[Trader(p)].spell /\ s # TRADE_SLOT_NONTRADED) \in BOOLEAN OBVIOUS
  <2>3. trade[p] \in Trades /\ trade[Trader(p)] \in Trades /\ trade[p].trader = Trader(p)
        /\ trade[Trader(p)].trader = p
    BY Sides
  <2>4. mine = [trade[p] EXCEPT !.items = [trade[p].items EXCEPT ![s] = i], !.spell = FALSE]
    OBVIOUS
  <2>5. his \in Trades /\ his.trader = p
    BY <2>2, <2>3, WithField, Zenon
  <2>6. mine \in Trades /\ mine.trader = Trader(p)
    BY <2>1, <2>3, <2>4, WithField
  <2> QED BY <2>5, <2>6
<1>2. Change(p, mine, his) BY DEF SetItem
<1> HIDE DEF mine, his
<1> QED BY <1>1, <1>2, ChangeKeeps

\* Every change to a trade.
LEMMA ChangeTradeKeeps ==
  ASSUME TradeAssumption, TradeNames, IInv, NEW p \in Players, ChangeTrade(p)
  PROVE  IInv'
<1>1. ASSUME NEW q \in Players, HandleInitiateTrade(p, q) PROVE IInv'
  BY <1>1, InitiateKeeps
<1>2. ASSUME NEW m \in Money, HandleSetTradeGold(p, m) PROVE IInv'
  <2> DEFINE mine == [trade[p] EXCEPT !.money = m]
  <2>1. Trading(p) /\ Change(p, mine, trade[Trader(p)]) BY <1>2 DEF HandleSetTradeGold
  <2>2. trade[p] \in Trades /\ trade[p].trader = Trader(p) BY <2>1, Sides
  <2>3. mine \in Trades /\ mine.trader = trade[p].trader
    <3>1. \A k \in Money : [trade[p] EXCEPT !.money = k] \in Trades
                           /\ [trade[p] EXCEPT !.money = k].trader = trade[p].trader
      BY <2>2, WithField
    <3> QED BY <3>1
  <2> HIDE DEF mine
  <2> QED BY <2>1, <2>2, <2>3, Sides, ChangeKeeps
<1>3. ASSUME NEW s \in Slots, NEW i \in Items, HandleSetTradeItem(p, s, i) PROVE IInv'
  <2>1. Trading(p) /\ SetItem(p, s, i) BY <1>3 DEF HandleSetTradeItem
  <2> QED BY <2>1, SetItemKeeps
<1>4. ASSUME NEW s \in Slots, HandleClearTradeItem(p, s) PROVE IInv'
  <2>1. Trading(p) /\ SetItem(p, s, None) BY <1>4 DEF HandleClearTradeItem
  <2> QED BY <2>1, SetItemKeeps
<1>5. ASSUME SetSpell(p) PROVE IInv'
  <2> DEFINE mine == [trade[p] EXCEPT !.spell = TRUE]
  <2>1. Trading(p) /\ Change(p, mine, trade[Trader(p)]) BY <1>5 DEF SetSpell
  <2>2. trade[p] \in Trades /\ trade[p].trader = Trader(p) BY <2>1, Sides
  <2>3. mine \in Trades /\ mine.trader = Trader(p) BY <2>2, WithField
  <2> HIDE DEF mine
  <2> QED BY <2>1, <2>3, Sides, ChangeKeeps
<1>6. ASSUME HandleUnacceptTrade(p) PROVE IInv'
  <2> DEFINE q == Trader(p)
             mine == [trade[p] EXCEPT !.accepted = FALSE]
  <2>1. Trading(p) /\ online' = online /\ Apart BY <1>6 DEF HandleUnacceptTrade, Apart
  <2>2. mine \in Trades /\ mine.trader = q /\ mine.accepted = FALSE
        /\ mine.items = trade[p].items /\ mine.money = trade[p].money /\ mine.spell = trade[p].spell
    BY <2>1, Sides, WithField
  <2>3. trade' = [trade EXCEPT ![p] = mine, ![q] = trade[q]]
    BY <1>6, <2>1, Sides, TypeParts DEF HandleUnacceptTrade, IInv, TradeTypeOK
  <2>4. agreed' = [agreed EXCEPT ![p] = None] BY <1>6 DEF HandleUnacceptTrade
  <2>5. AgreedPerPlayer' /\ (\A x \in Players \ {p} : agreed'[x] = agreed[x])
    BY <2>4 DEF IInv, AgreedPerPlayer
  <2>6. trade[q].accepted => agreed'[q] = Table(q)
    BY <2>1, <2>5, Sides DEF IInv, AgreedOffers
  <2>7. trade[q].accepted =>
          agreed'[q] = <<<<trade[q].items, trade[q].money, trade[q].spell>>,
                         <<mine.items, mine.money, mine.spell>>>>
    BY <2>1, <2>2, <2>6, Sides DEF Table, Offer, Trader
  <2>8. trade[q] \in Trades /\ trade[q].trader = p BY <2>1, Sides
  <2>9. \A x \in Players \ {p, q} : agreed'[x] = agreed[x] BY <2>5
  <2> HIDE DEF mine
  <2> QED BY <2>1, <2>2, <2>3, <2>5, <2>7, <2>8, <2>9, BothSides
<1>7. ASSUME TradeCancel(p) PROVE IInv'
  <2>1. Close(p) /\ online' = online /\ Apart /\ Trading(p) BY <1>7 DEF TradeCancel, Apart
  <2>2. TradePart' BY <2>1, TypeParts, CloseKeeps DEF IInv
  <2> QED BY <2>1, <2>2, TypeParts
          DEF IInv, TradePart, Apart, itemVars, moneyVars, TypeOK, TradeTypeOK, HandedOver
<1> QED BY <1>1, <1>2, <1>3, <1>4, <1>5, <1>6, <1>7 DEF ChangeTrade

\* The exchange.
LEMMA AcceptSecondKeeps ==
  ASSUME TradeAssumption, TradeNames, IInv, NEW p \in Players, AcceptSecond(p)
  PROVE  IInv'
<1> DEFINE q == Trader(p)
<1>1. Trading(p) BY DEF AcceptSecond, Second
<1>2. q \in Players /\ q # p /\ Trading(q) BY <1>1, Sides
<1>3. ItemTypeOK /\ PurseTypeOK /\ TradeTypeOK /\ SavedTypeOK BY TypeParts DEF IInv
<1>4. Between(p, q, holder') BY <1>2, <1>3, ExchangeBetween DEF AcceptSecond, ItemTypeOK
<1>5. ItemTypeOK'
  <2>1. holder' \in [Items -> Holders] BY <1>4 DEF Between
  <2>2. \A x \in Players, s \in Slots : GetItem(x, s) # None /\ Trading(x) => GetItem(x, s) \in Items
    BY <1>3, TradeFields DEF GetItem
  <2>3. SpellHasItem(p) /\ SpellHasItem(q) BY DEF AcceptSecond
  <2>4. Trader(q) = p /\ Enchantable \subseteq Items BY <1>1, Sides DEF Trader, TradeAssumption
  <2>5. SpellTargets(p) \subseteq Items BY <2>3, <2>4 DEF SpellTargets, SpellHasItem
  <2> QED BY <2>1, <2>5, <1>3 DEF ItemTypeOK, AcceptSecond
<1>6. PurseTypeOK'
  <2>1. money' \in [Players -> Money]
    BY <1>1, <1>2, <1>3, PaidType DEF AcceptSecond
  <2> QED BY <2>1, <1>3 DEF PurseTypeOK, AcceptSecond
<1>7. SavedTypeOK' /\ HandedOver'
  <2>1. saved' = Saved({p, q}, money', spent', holder')
    BY DEF AcceptSecond, SavedBoth
  <2>2. \A i \in Items : holder'[i] \in Players \ {p, q} => saved.holder[i] \in {holder'[i], Gone}
    <3> SUFFICES ASSUME NEW i \in Items, holder'[i] \in Players \ {p, q}
                 PROVE saved.holder[i] \in {holder'[i], Gone}
      OBVIOUS
    <3>1. i \notin Given2(p, q) BY <1>4 DEF Between, TradeAssumption
    <3>2. holder'[i] = holder[i] BY <1>4, <3>1 DEF Between
    <3> QED BY <3>2 DEF IInv, HandedOver
  <2>3. {p, q} \in SUBSET Players BY <1>2
  <2> QED BY <1>3, <1>5, <1>6, <2>1, <2>2, <2>3, SavingKeeps
<1>8. TradePart'
  <2>1. Close(p) /\ online' = online BY DEF AcceptSecond
  <2>2. online' \in SUBSET Players BY <2>1, TypeParts DEF IInv
  <2> QED BY <1>1, <2>1, <2>2, CloseKeeps
<1>9. online' \subseteq Players /\ elsewhere' \in 0..MaxElsewhere
  BY TypeParts DEF IInv, AcceptSecond
<1>10. TypeOK'
  BY <1>5, <1>6, <1>7, <1>8, <1>9
     DEF TypeOK, ItemTypeOK, PurseTypeOK, SavedTypeOK, TradePart, TradeTypeOK
<1> QED BY <1>7, <1>8, <1>10 DEF IInv, TradePart

\* Every outcome of pressing accept.
LEMMA AcceptKeeps ==
  ASSUME TradeAssumption, TradeNames, IInv, NEW p \in Players, HandleAcceptTrade(p)
  PROVE  IInv'
<1> DEFINE q == Trader(p)
<1>1. ASSUME Trading(p), NEW mine \in BOOLEAN, Pressed(p, mine, trade[q].accepted) PROVE IInv'
  <2>1. trade[q].accepted \in BOOLEAN BY <1>1, Sides, TypeParts, TradeFields DEF IInv
  <2> QED BY <1>1, <2>1, PressedKeeps
<1>2. ASSUME Trading(p), NEW mine \in BOOLEAN, Pressed(p, mine, FALSE) PROVE IInv'
  <2>1. PICK b \in BOOLEAN : b = FALSE OBVIOUS
  <2>2. Pressed(p, mine, b) BY <1>2, <2>1
  <2>3. b => trade[q].accepted BY <2>1
  <2> QED BY <1>2, <2>2, <2>3, PressedKeeps
<1>3. CASE AcceptTooFar(p) BY <1>3, <1>1 DEF AcceptTooFar
<1>4. CASE AcceptPoor(p) BY <1>4, <1>1 DEF AcceptPoor
<1>5. CASE AcceptPartnerPoor(p) BY <1>5, <1>2 DEF AcceptPartnerPoor
<1>6. CASE AcceptBlocked(p) BY <1>6, <1>1 DEF AcceptBlocked
<1>7. CASE AcceptFirst(p) BY <1>7, <1>2 DEF AcceptFirst
<1>8. CASE AcceptNoSpell(p)
  <2>1. Trading(p) BY <1>8 DEF AcceptNoSpell, Second
  <2>2. /\ trade[p] \in Trades /\ trade[p].trader = q
        /\ trade[q] \in Trades /\ trade[q].trader = p
    BY <2>1, Sides
  <2>3. CASE Change(p, [trade[p] EXCEPT !.spell = FALSE], trade[q])
    <3>1. [trade[p] EXCEPT !.spell = FALSE] \in Trades
          /\ [trade[p] EXCEPT !.spell = FALSE].trader = q
      BY <2>2, WithField
    <3> QED BY <2>1, <2>2, <2>3, <3>1, ChangeKeeps
  <2>4. CASE Change(p, trade[p], [trade[q] EXCEPT !.spell = FALSE])
    <3>1. [trade[q] EXCEPT !.spell = FALSE] \in Trades
          /\ [trade[q] EXCEPT !.spell = FALSE].trader = p
      BY <2>2, WithField
    <3> QED BY <2>1, <2>2, <2>4, <3>1, ChangeKeeps
  <2> QED BY <1>8, <2>3, <2>4 DEF AcceptNoSpell
<1>9. CASE AcceptNoRoom(p)
  <2>1. Trading(p) /\ Change(p, trade[p], trade[q]) BY <1>9 DEF AcceptNoRoom, Second
  <2> QED BY <2>1, Sides, ChangeKeeps
<1>10. CASE AcceptSecond(p) BY <1>10, AcceptSecondKeeps
<1> QED BY <1>3, <1>4, <1>5, <1>6, <1>7, <1>8, <1>9, <1>10 DEF HandleAcceptTrade

\* Steps that leave the trades and who is there alone.
LEMMA TradesAlone ==
  ASSUME IInv, UNCHANGED <<online, tradeVars>>
  PROVE  TradePart'
BY TypeParts DEF IInv, TradePart, tradeVars, TradeTypeOK, AgreedPerPlayer, Paired, AgreedOffers,
   Trading, Trader, Table, Offer

\* What happens outside trades, saving and logging out included.
LEMMA OutsideKeeps ==
  ASSUME TradeAssumption, TradeNames, IInv, NEW p \in Players, OutsideTrade(p)
  PROVE  IInv'
<1>0. /\ online \subseteq Players /\ TradeTypeOK /\ ItemTypeOK /\ PurseTypeOK
      /\ SavedTypeOK /\ elsewhere \in 0..MaxElsewhere /\ HandedOver
  BY TypeParts DEF IInv
<1>1. ASSUME Elsewhere PROVE elsewhere' \in 0..MaxElsewhere
  BY <1>0, <1>1 DEF Elsewhere, TradeAssumption
<1>2. ASSUME TradePart', online' \subseteq Players, ItemTypeOK', PurseTypeOK', SavedTypeOK',
             HandedOver', elsewhere' \in 0..MaxElsewhere
      PROVE  IInv'
  BY <1>2 DEF IInv, TypeOK, TradePart, TradeTypeOK, ItemTypeOK, PurseTypeOK, SavedTypeOK
<1>3. ASSUME NEW i \in Items, Drop(p, i) PROVE IInv'
  <2>1. ItemTypeOK' BY <1>0, <1>3 DEF Drop, ItemTypeOK, Holders
  <2>2. HandedOver' BY <1>0, <1>3 DEF Drop, HandedOver, ItemTypeOK, TradeAssumption
  <2>3. TradePart' BY <1>3, TradesAlone DEF Drop
  <2> QED BY <1>0, <1>1, <1>2, <1>3, <2>1, <2>2, <2>3 DEF Drop, PurseTypeOK, SavedTypeOK, moneyVars
<1>4. ASSUME NEW i \in Items, Find(p, i) PROVE IInv'
  <2>1. ItemTypeOK' BY <1>0, <1>4 DEF Find, ItemTypeOK, Holders
  <2>2. HandedOver' BY <1>0, <1>4 DEF Find, HandedOver, ItemTypeOK, TradeAssumption
  <2>3. TradePart' BY <1>4, TradesAlone DEF Find
  <2> QED BY <1>0, <1>1, <1>2, <1>4, <2>1, <2>2, <2>3 DEF Find, PurseTypeOK, SavedTypeOK, moneyVars
<1>5. ASSUME NEW i \in Items, Bind(p, i) PROVE IInv'
  <2>1. ItemTypeOK' BY <1>0, <1>5 DEF Bind, ItemTypeOK, Bindings
  <2>2. HandedOver' BY <1>0, <1>5 DEF Bind, HandedOver
  <2>3. TradePart' BY <1>5, TradesAlone DEF Bind
  <2> QED BY <1>0, <1>1, <1>2, <1>5, <2>1, <2>2, <2>3 DEF Bind, PurseTypeOK, SavedTypeOK, moneyVars
<1>6. CASE Spend(p)
  <2>1. money[p] - 1 \in Money BY <1>0, <1>6 DEF Spend, PurseTypeOK, Money, TradeAssumption
  <2>2. PurseTypeOK' BY <1>0, <1>6, <2>1 DEF Spend, PurseTypeOK
  <2>3. TradePart' BY <1>6, TradesAlone DEF Spend
  <2> QED BY <1>0, <1>1, <1>2, <1>6, <2>2, <2>3 DEF Spend, ItemTypeOK, SavedTypeOK, itemVars, HandedOver
<1>7. CASE SaveToDB(p)
  <2>1. ItemTypeOK' /\ PurseTypeOK' BY <1>0, <1>7 DEF SaveToDB, ItemTypeOK, PurseTypeOK, itemVars, moneyVars
  <2>2. saved' = Saved({p}, money', spent', holder') /\ holder' = holder
    BY <1>7 DEF SaveToDB, itemVars, moneyVars
  <2>3. SavedTypeOK' /\ HandedOver'
    <3>1. \A i \in Items : holder'[i] \in Players \ {p} => saved.holder[i] \in {holder'[i], Gone}
      BY <1>0, <2>2 DEF HandedOver
    <3> QED BY <1>0, <2>1, <2>2, <3>1, SavingKeeps
  <2>4. TradePart' BY <1>7, TradesAlone DEF SaveToDB
  <2> QED BY <1>0, <1>2, <1>7, <2>1, <2>3, <2>4 DEF SaveToDB
<1>8. CASE Logout(p)
  <2>1. ItemTypeOK' /\ PurseTypeOK' BY <1>0, <1>8 DEF Logout, ItemTypeOK, PurseTypeOK, itemVars, moneyVars
  <2>2. saved' = Saved({p}, money', spent', holder') /\ holder' = holder
    BY <1>8 DEF Logout, itemVars, moneyVars
  <2>3. SavedTypeOK' /\ HandedOver'
    <3>1. \A i \in Items : holder'[i] \in Players \ {p} => saved.holder[i] \in {holder'[i], Gone}
      BY <1>0, <2>2 DEF HandedOver
    <3> QED BY <1>0, <2>1, <2>2, <3>1, SavingKeeps
  <2>4. Close(p) /\ online' = online \ {p} BY <1>8 DEF Logout
  <2>5. TradePart' BY <1>0, <2>4, CloseKeeps
  <2> QED BY <1>0, <1>2, <1>8, <2>1, <2>3, <2>4, <2>5 DEF Logout
<1>9. CASE Login(p)
  <2>1. online' = online \cup {p} /\ UNCHANGED tradeVars BY <1>9 DEF Login
  <2>2. TradePart'
    BY <1>0, <2>1 DEF IInv, TradePart, tradeVars, TradeTypeOK, AgreedPerPlayer, Paired, AgreedOffers,
       Trading, Trader, Table, Offer
  <2>3. PICK is \in SUBSET {i \in Items : saved.holder[i] = p} :
          /\ holder' = [i \in Items |-> IF i \in is THEN p
                                        ELSE IF p \in {holder[i], saved.holder[i]} THEN Gone ELSE holder[i]]
          /\ saved' = [saved EXCEPT !.holder =
                 [i \in Items |-> IF i \in {j \in Items : saved.holder[j] = p} \ is THEN Gone
                                  ELSE saved.holder[i]]]
    BY <1>9 DEF Login, LoadInventory
  <2>4. ItemTypeOK'
    BY <1>0, <1>9, <2>3 DEF Login, ItemTypeOK, Holders
  <2>5. PICK rows : rows = [i \in Items |-> IF i \in {j \in Items : saved.holder[j] = p} \ is THEN Gone
                                            ELSE saved.holder[i]]
    OBVIOUS
  <2>6. rows \in [Items -> Holders]
    BY <1>0, <2>5 DEF SavedTypeOK, Holders
  <2>7. SavedTypeOK' /\ saved'.holder = rows
    BY <1>0, <2>3, <2>5, <2>6 DEF SavedTypeOK
  <2>8. HandedOver'
    <3> SUFFICES ASSUME NEW i \in Items, holder'[i] \in Players PROVE rows[i] \in {holder'[i], Gone}
      BY <2>7 DEF HandedOver
    <3>1. CASE i \in is BY <2>3, <2>5, <3>1
    <3>2. CASE i \notin is
      <4>1. holder'[i] = holder[i] /\ saved.holder[i] # p
        BY <2>3, <3>2 DEF TradeAssumption
      <4>2. rows[i] = saved.holder[i]
        BY <2>5, <4>1
      <4> QED BY <1>0, <4>1, <4>2 DEF HandedOver
    <3> QED BY <3>1, <3>2
  <2> QED BY <1>0, <1>2, <1>9, <2>1, <2>2, <2>4, <2>7, <2>8 DEF Login, moneyVars, PurseTypeOK
<1> QED BY <1>3, <1>4, <1>5, <1>6, <1>7, <1>8, <1>9 DEF OutsideTrade

\* A crash.
LEMMA CrashKeeps == ASSUME TradeAssumption, TradeNames, IInv, Crash PROVE IInv'
<1>1. \A x \in Players : ~Trading(x)' BY DEF Crash, Trading
<1>2. TypeOK' BY DEF Crash, IInv, TypeOK
<1>3. AgreedPerPlayer' BY DEF Crash, AgreedPerPlayer
<1>4. HandedOver' BY DEF Crash, HandedOver
<1> QED BY <1>1, <1>2, <1>3, <1>4 DEF IInv, Paired, AgreedOffers

\* The invariant is inductive, and so holds in every reachable state.
LEMMA Inductive == ASSUME TradeAssumption, TradeNames, IInv, [Next]_vars PROVE IInv'
<1>1. CASE Next
  <2>1. ASSUME NEW p \in Players, ChangeTrade(p) \/ HandleAcceptTrade(p) \/ OutsideTrade(p) PROVE IInv'
    BY <2>1, ChangeTradeKeeps, AcceptKeeps, OutsideKeeps
  <2> QED BY <1>1, <2>1, CrashKeeps DEF Next
<1>2. CASE UNCHANGED vars
  <2>1. TradePart' BY <1>2, TradesAlone DEF vars
  <2> QED BY <1>2, <2>1 DEF IInv, TypeOK, TradePart, vars, itemVars, moneyVars, tradeVars, HandedOver
<1> QED BY <1>1, <1>2

\* See Inductive.
LEMMA InvariantHolds == ASSUME TradeAssumption, TradeNames PROVE Spec => []IInv
<1>1. Init => IInv BY InitKeeps
<1>2. IInv /\ [Next]_vars => IInv' BY Inductive
<1> QED BY <1>1, <1>2, PTL DEF Spec

-----------------------------------------------------------------------------
(****************************************************************************)
(* The theorems.                                                            *)
(****************************************************************************)

\* The state stays well typed; in particular no purse runs over or below zero.
THEOREM TradeTypeCorrect == ASSUME TradeAssumption, TradeNames PROVE Spec => []TypeOK
<1>1. IInv => TypeOK BY DEF IInv
<1> QED BY <1>1, InvariantHolds, PTL

\* Two TradeData always belong together, and to two players who are there.
THEOREM TradersPaired == ASSUME TradeAssumption, TradeNames PROVE Spec => []Paired
<1>1. IInv => Paired BY DEF IInv
<1> QED BY <1>1, InvariantHolds, PTL

\* An acceptance stands for the table it was given for.
THEOREM AcceptancesStand == ASSUME TradeAssumption, TradeNames PROVE Spec => []AgreedOffers
<1>1. IInv => AgreedOffers BY DEF IInv
<1> QED BY <1>1, InvariantHolds, PTL

\* After any number of crashes, an exchanged item is not its former holder's.
THEOREM ExchangesSurviveCrashes == ASSUME TradeAssumption, TradeNames PROVE Spec => []HandedOver
<1>1. IInv => HandedOver BY DEF IInv
<1> QED BY <1>1, InvariantHolds, PTL

\* What the trader who completes a trade knows of the table.
LEMMA SecondKnows ==
  ASSUME IInv, NEW x \in Players, AcceptSecond(x)
  PROVE  /\ Trading(x) /\ Trading(Trader(x)) /\ Trader(Trader(x)) = x /\ Trader(x) \in Players
         /\ Trader(x) # x /\ trade[Trader(x)].accepted /\ agreed[Trader(x)] = Table(Trader(x))
<1>1. Trading(x) /\ trade[Trader(x)].accepted BY DEF AcceptSecond, Second
<1>2. Trader(x) \in Players /\ Trader(x) # x /\ Trading(Trader(x)) /\ Trader(Trader(x)) = x
  BY <1>1, Sides DEF Trader
<1> QED BY <1>1, <1>2 DEF IInv, AgreedOffers

\* What an exchange does to one item.
LEMMA ItemExchanged ==
  ASSUME TradeAssumption, IInv, NEW x \in Players, AcceptSecond(x), NEW i \in Items, NEW p \in Players,
         holder[i] = p, holder'[i] \in Players \ {p}
  PROVE  /\ p \in {x, Trader(x)} /\ i \in Given(p) /\ holder'[i] \in {x, Trader(x)}
         /\ bind[i] # "soul" /\ (bind[i] = "raid" => holder'[i] \in Raiders)
<1> DEFINE y == Trader(x)
<1>1. y \in Players /\ y # x BY SecondKnows
<1>2. holder \in [Items -> Holders] BY DEF IInv, TypeOK
<1>3. Between(x, y, holder') BY <1>1, <1>2, ExchangeBetween DEF AcceptSecond
<1>4. i \in Given(x) \cup Given(y) /\ holder'[i] \in {x, y}
  BY <1>3 DEF Between, Given2, TradeAssumption
<1>5. \A z : i \in Given(z) => holder[i] = z
  BY DEF Given, GetItem
<1>6. p \in {x, y} /\ i \in Given(p) BY <1>4, <1>5
<1>7. CanBeTraded(i) BY <1>4 DEF AcceptSecond, Second, Blocked
<1>8. ~IsBindedNotWith(i, holder'[i])
  <2>1. CASE p = x
    <3>1. ~IsBindedNotWith(i, y) BY <2>1, <1>6 DEF AcceptSecond, Second, Blocked
    <3> QED BY <2>1, <3>1, <1>4
  <2>2. CASE p = y
    <3>1. CanStoreItems(x, y) BY DEF AcceptSecond
    <3>2. ~IsBindedNotWith(i, x) BY <2>2, <3>1, <1>6 DEF CanStoreItems
    <3> QED BY <2>2, <3>2, <1>4
  <2> QED BY <2>1, <2>2, <1>6
<1>9. bind[i] \in {"free", "raid"} BY <1>7 DEF CanBeTraded, IInv, TypeOK, Bindings
<1>10. bind[i] = "raid" => holder'[i] \in Raiders BY <1>8 DEF IsBindedNotWith
<1> QED BY <1>4, <1>6, <1>9, <1>10

\* Items change hands only as the table said that the partner accepted, and bound ones
\* never do.
THEOREM ItemsAsAgreed == ASSUME TradeAssumption, TradeNames PROVE Spec => OnlyAgreedItems
<1> DEFINE Fair(i, p) == holder[i] = p /\ holder'[i] \in Players \ {p} =>
       /\ Trading(p) /\ i \in Given(p)
       /\ \E x \in {p, Trader(p)} : trade[x].accepted /\ agreed[x] = Table(x)
       /\ bind[i] # "soul" /\ (bind[i] = "raid" => holder'[i] \in Raiders)
<1>1. ASSUME IInv, [Next]_vars, NEW i \in Items, NEW p \in Players PROVE Fair(i, p)
  <2> SUFFICES ASSUME holder[i] = p, holder'[i] \in Players \ {p}
               PROVE /\ Trading(p) /\ i \in Given(p)
                     /\ \E x \in {p, Trader(p)} : trade[x].accepted /\ agreed[x] = Table(x)
                     /\ bind[i] # "soul" /\ (bind[i] = "raid" => holder'[i] \in Raiders)
    OBVIOUS
  <2>0. holder' # holder OBVIOUS
  <2>1. ASSUME NEW x \in Players, AcceptSecond(x)
        PROVE /\ Trading(p) /\ i \in Given(p)
              /\ \E z \in {p, Trader(p)} : trade[z].accepted /\ agreed[z] = Table(z)
              /\ bind[i] # "soul" /\ (bind[i] = "raid" => holder'[i] \in Raiders)
    <3>1. p \in {x, Trader(x)} /\ i \in Given(p)
          /\ bind[i] # "soul" /\ (bind[i] = "raid" => holder'[i] \in Raiders)
      BY <1>1, <2>1, ItemExchanged
    <3>2. Trading(p) /\ Trader(x) \in {p, Trader(p)} BY <2>1, <3>1, SecondKnows, <1>1
    <3> QED BY <1>1, <2>1, <3>1, <3>2, SecondKnows
  <2>2. ~Crash
    <3>1. saved.holder[i] \in {p, Gone} BY <1>1 DEF IInv, HandedOver
    <3> QED BY <3>1 DEF Crash, TradeAssumption
  <2>3. PICK x \in Players : ChangeTrade(x) \/ HandleAcceptTrade(x) \/ OutsideTrade(x)
    BY <1>1, <2>0, <2>2 DEF Next, vars, itemVars
  <2>4. ~ChangeTrade(x)
    BY <2>0 DEF ChangeTrade, HandleInitiateTrade, HandleSetTradeGold, HandleSetTradeItem, SetItem,
       HandleClearTradeItem, SetSpell, Change, HandleUnacceptTrade, TradeCancel, itemVars
  <2>5. ~OutsideTrade(x)
    <3>1. ASSUME NEW j \in Items PROVE ~Drop(x, j) /\ ~Find(x, j) /\ ~Bind(x, j)
      <4>1. ~Drop(x, j)
        <5>1. holder \in [Items -> Holders] /\ Gone \notin Players
          BY <1>1 DEF IInv, TypeOK, TradeAssumption
        <5> QED BY <5>1, <2>0 DEF Drop
      <4>2. ~Find(x, j) BY <1>1 DEF Find, IInv, TypeOK, TradeAssumption
      <4>3. ~Bind(x, j) BY <2>0 DEF Bind
      <4> QED BY <4>1, <4>2, <4>3
    <3>2. ~Spend(x) /\ ~SaveToDB(x) /\ ~Logout(x)
      BY <2>0 DEF Spend, SaveToDB, Logout, itemVars
    <3>3. ~Login(x)
      <4> SUFFICES ASSUME Login(x) PROVE FALSE
        OBVIOUS
      <4>1. saved.holder[i] # x \/ x = p
        BY <1>1 DEF IInv, HandedOver, TradeAssumption
      <4>2. PICK is \in SUBSET {j \in Items : saved.holder[j] = x} :
              holder' = [j \in Items |-> IF j \in is THEN x
                                         ELSE IF x \in {holder[j], saved.holder[j]} THEN Gone ELSE holder[j]]
        BY DEF Login, LoadInventory
      <4> QED BY <4>1, <4>2 DEF TradeAssumption
    <3> QED BY <3>1, <3>2, <3>3 DEF OutsideTrade
  <2>6. AcceptSecond(x)
    BY <2>0, <2>3, <2>4, <2>5
       DEF HandleAcceptTrade, AcceptTooFar, AcceptPoor, AcceptPartnerPoor, AcceptBlocked, AcceptFirst,
           AcceptNoSpell, AcceptNoRoom, Pressed, Change, itemVars
  <2> QED BY <2>1, <2>6
<1>2. IInv /\ [Next]_vars => [\A i \in Items, p \in Players : Fair(i, p)]_vars
  BY <1>1
<1>3. Spec => []IInv BY InvariantHolds
<1> QED BY <1>2, <1>3, PTL DEF Spec, OnlyAgreedItems

\* A spell of a trade is cast on the item the table showed, which is still there.
THEOREM SpellsAsAgreed == ASSUME TradeAssumption, TradeNames PROVE Spec => OnlyAgreedSpells
<1> DEFINE Shown(i) == \E p \in Players :
       /\ Trading(p) /\ trade[p].spell /\ holder[i] = Trader(p)
       /\ trade[Trader(p)].items[TRADE_SLOT_NONTRADED] = i
       /\ \E x \in {p, Trader(p)} : trade[x].accepted /\ agreed[x] = Table(x)
<1>1. ASSUME IInv, [Next]_vars, NEW i \in enchanted' \ enchanted PROVE Shown(i)
  <2>1. PICK x \in Players : AcceptSecond(x)
    <3>1. enchanted' # enchanted BY <1>1
    <3>2. ~Crash BY <3>1 DEF Crash
    <3>3. PICK x \in Players : ChangeTrade(x) \/ HandleAcceptTrade(x) \/ OutsideTrade(x)
      BY <1>1, <3>1, <3>2 DEF Next, vars, itemVars
    <3>4. ~ChangeTrade(x)
      BY <3>1 DEF ChangeTrade, HandleInitiateTrade, HandleSetTradeGold, HandleSetTradeItem, SetItem,
         HandleClearTradeItem, SetSpell, Change, HandleUnacceptTrade, TradeCancel, itemVars
    <3>5. ~OutsideTrade(x)
      BY <3>1 DEF OutsideTrade, Drop, Find, Bind, Spend, SaveToDB, Logout, Login, itemVars
    <3> QED
      BY <3>1, <3>3, <3>4, <3>5
         DEF HandleAcceptTrade, AcceptTooFar, AcceptPoor, AcceptPartnerPoor, AcceptBlocked, AcceptFirst,
             AcceptNoSpell, AcceptNoRoom, Pressed, Change, itemVars
  <2>2. i \in SpellTargets(x) BY <1>1, <2>1 DEF AcceptSecond
  <2>3. PICK z \in {x, Trader(x)} :
          trade[z].spell /\ i = GetItem(Trader(z), TRADE_SLOT_NONTRADED)
    BY <2>2 DEF SpellTargets
  <2>4. /\ Trading(x) /\ Trading(Trader(x)) /\ Trader(Trader(x)) = x /\ Trader(x) \in Players
        /\ trade[Trader(x)].accepted /\ agreed[Trader(x)] = Table(Trader(x))
    BY <1>1, <2>1, SecondKnows
  <2>5. i \in Enchantable BY <2>1, <2>3 DEF AcceptSecond, SpellHasItem
  <2>6. i # None BY <2>5 DEF TradeAssumption
  <2>7. holder[i] = Trader(z) /\ trade[Trader(z)].items[TRADE_SLOT_NONTRADED] = i
    BY <2>3, <2>6 DEF GetItem
  <2>8. z \in Players /\ Trading(z) /\ Trader(x) \in {z, Trader(z)} BY <2>3, <2>4
  <2> QED BY <2>3, <2>4, <2>7, <2>8
<1>2. IInv /\ [Next]_vars => [\A i \in enchanted' \ enchanted : Shown(i)]_vars
  BY <1>1
<1>3. Spec => []IInv BY InvariantHolds
<1> QED BY <1>2, <1>3, PTL DEF Spec, OnlyAgreedSpells

-----------------------------------------------------------------------------
(****************************************************************************)
(* Money.                                                                   *)
(****************************************************************************)

\* What trades change in a purse is at once in the database.
Settled == \A p \in Players : money[p] + spent[p] = saved.money[p] + saved.spent[p]

MoneyInv == Settled /\ Balance(money, spent)

Worth == [p \in Players |-> money[p] + spent[p]]
SavedWorth == [p \in Players |-> saved.money[p] + saved.spent[p]]

\* Coins and what was spent are numbers.
LEMMA WorthType ==
  ASSUME PurseTypeOK, SavedTypeOK
  PROVE  \A p \in Players : /\ money[p] \in Int /\ spent[p] \in Int /\ Worth[p] \in Int
                            /\ saved.money[p] \in Int /\ saved.spent[p] \in Int /\ SavedWorth[p] \in Int
BY DEF PurseTypeOK, SavedTypeOK, Worth, SavedWorth, Money

\* A step that changes no player's worth.
LEMMA SameWorth ==
  ASSUME TradeAssumption, MoneyInv, \A p \in Players : Worth'[p] = Worth[p]
  PROVE  Balance(money, spent)'
<1>1. Worth' = Worth
  BY DEF Worth
<1> QED BY <1>1 DEF MoneyInv, Balance, Worth

\* The two purses are as good as the other's coins, which they can hold.
LEMMA PaidInFull ==
  ASSUME TradeAssumption, IInv, NEW p \in Players, AcceptSecond(p)
  PROVE  LET q == Trader(p) IN
         /\ money'[p] = money[p] - trade[p].money + trade[q].money
         /\ money'[q] = money[q] - trade[q].money + trade[p].money
         /\ \A x \in Players \ {p, q} : money'[x] = money[x]
         /\ trade[p].money \in Int /\ trade[q].money \in Int
<1> DEFINE q == Trader(p)
           m == trade[p].money
           n == trade[q].money
<1>1. Trading(p) /\ MoneyFine(p) /\ money' = Paid(p, q)
  BY DEF AcceptSecond, Second
<1>2. q \in Players /\ q # p /\ Trading(q)
  BY <1>1, Sides
<1>3. m \in Money /\ n \in Money /\ money \in [Players -> Money]
  BY <1>1, <1>2, TypeParts, TradeFields DEF IInv, PurseTypeOK
<1>4. m <= money[p] /\ n <= money[q] /\ money[p] < MAX_MONEY_AMOUNT - n /\ money[q] < MAX_MONEY_AMOUNT - m
  BY <1>1 DEF MoneyFine, HasEnoughMoney, BelowCap
<1>5. \A c \in Money, a \in Money, b \in Money :
        a <= c /\ c < MAX_MONEY_AMOUNT - b => Credit(Debit(c, a), b) = c - a + b
  BY DEF Credit, Debit, Money, TradeAssumption
<1>6. /\ money'[p] = Credit(Debit(money[p], m), n) /\ money'[q] = Credit(Debit(money[q], n), m)
      /\ \A x \in Players \ {p, q} : money'[x] = money[x]
  BY <1>1, <1>2, <1>3 DEF Paid
<1>7. m \in Int /\ n \in Int
  BY <1>3 DEF Money
<1> HIDE DEF m, n
<1>8. money[p] \in Money /\ money[q] \in Money
  BY <1>2, <1>3
<1>9. money'[p] = money[p] - m + n /\ money'[q] = money[q] - n + m
  BY <1>3, <1>4, <1>5, <1>6, <1>8
<1> QED BY <1>6, <1>7, <1>9 DEF m, n

\* Two purses change by the same amount in an exchange, and both are saved.
LEMMA ExchangeConserves ==
  ASSUME TradeAssumption, IInv, IInv', MoneyInv, NEW p \in Players, AcceptSecond(p)
  PROVE  MoneyInv'
<1>0. PICK q : q = Trader(p)
  OBVIOUS
<1>1. Trading(p) /\ spent' = spent /\ saved' = Saved({p, q}, money', spent', holder')
  BY <1>0 DEF AcceptSecond, Second, SavedBoth
<1>2. q \in Players /\ q # p
  BY <1>0, <1>1, Sides
<1>3. /\ money'[p] = money[p] - trade[p].money + trade[q].money
      /\ money'[q] = money[q] - trade[q].money + trade[p].money
      /\ \A x \in Players \ {p, q} : money'[x] = money[x]
      /\ trade[p].money \in Int /\ trade[q].money \in Int
  BY <1>0, PaidInFull
<1>4. PurseTypeOK /\ SavedTypeOK /\ PurseTypeOK' /\ SavedTypeOK'
  BY TypeParts DEF IInv, TypeOK, PurseTypeOK, SavedTypeOK
<1>5. \A x \in Players : money[x] \in Int /\ spent[x] \in Int /\ Worth[x] \in Int
  BY <1>4, WorthType
<1>6. PICK f : f = Worth
  OBVIOUS
<1>7. PICK g : g = Worth'
  OBVIOUS
<1>8. \A x \in Players : f[x] = money[x] + spent[x] /\ g[x] = money'[x] + spent[x]
  BY <1>1, <1>6, <1>7 DEF Worth
<1>9. \A x \in Players \ {p, q} : g[x] = f[x]
  BY <1>3, <1>8
<1>10. g[p] = f[p] - trade[p].money + trade[q].money /\ g[q] = f[q] - trade[q].money + trade[p].money
  BY <1>2, <1>3, <1>5, <1>8
<1>11. \A x \in Players : f[x] \in Int /\ g[x] \in Int
  BY <1>2, <1>3, <1>5, <1>6, <1>9, <1>10
<1>12. SumFunctionOnSet(g, Players) = SumFunctionOnSet(f, Players)
  <2>1. SumFunctionOnSet(g, Players) = SumFunctionOnSet(f, Players) - f[p] - f[q] + g[p] + g[q]
    BY <1>2, <1>9, <1>11, SumTwoChanged DEF TradeAssumption
  <2>2. SumFunctionOnSet(f, Players) \in Int
    BY <1>11, SumType DEF TradeAssumption
  <2> QED BY <1>2, <1>3, <1>10, <1>11, <2>1, <2>2
<1>13. SumFunction(g) = SumFunction(f)
  <2>1. DOMAIN f = Players /\ DOMAIN g = Players
    BY <1>6, <1>7 DEF Worth
  <2> QED BY <1>12, <2>1 DEF SumFunction
<1>14. Balance(money, spent)'
  BY <1>6, <1>7, <1>13 DEF MoneyInv, Balance, Worth
<1>15. Settled'
  <2>1. ASSUME NEW x \in Players PROVE (money[x] + spent[x] = saved.money[x] + saved.spent[x])'
    <3>1. CASE x \in {p, q}
      BY <1>1, <3>1 DEF Saved
    <3>2. CASE x \notin {p, q}
      <4>1. saved'.money[x] = saved.money[x] /\ saved'.spent[x] = saved.spent[x]
        BY <1>1, <3>2 DEF Saved
      <4>2. money'[x] = money[x] /\ spent'[x] = spent[x]
        BY <1>1, <1>3, <3>2
      <4> QED BY <4>1, <4>2 DEF MoneyInv, Settled
    <3> QED BY <3>1, <3>2
  <2> QED BY <2>1 DEF Settled
<1> QED BY <1>14, <1>15 DEF MoneyInv

\* Saving settles whoever is saved.
LEMMA SavingSettles ==
  ASSUME Settled, NEW ps \in SUBSET Players, saved' = Saved(ps, money, spent, holder),
         UNCHANGED moneyVars
  PROVE  Settled'
<1>1. ASSUME NEW x \in Players PROVE (money[x] + spent[x] = saved.money[x] + saved.spent[x])'
  <2>1. CASE x \in ps
    BY <2>1 DEF Saved, moneyVars
  <2>2. CASE x \notin ps
    BY <2>2 DEF Saved, moneyVars, Settled
  <2> QED BY <2>1, <2>2
<1> QED BY <1>1 DEF Settled

\* Outside trades a coin is at most spent.
LEMMA MoneyOutside ==
  ASSUME TradeAssumption, IInv, MoneyInv, NEW p \in Players, OutsideTrade(p)
  PROVE  MoneyInv'
<1>1. ASSUME UNCHANGED <<moneyVars, saved>> PROVE MoneyInv'
  BY <1>1 DEF MoneyInv, Settled, Balance, moneyVars
<1>2. ASSUME UNCHANGED moneyVars, saved' = Saved({p}, money, spent, holder) PROVE MoneyInv'
  BY <1>2, SavingSettles DEF MoneyInv, Balance, moneyVars
<1>3. CASE Spend(p)
  <2>1. PurseTypeOK /\ SavedTypeOK
    BY TypeParts DEF IInv
  <2>2. ASSUME NEW x \in Players PROVE money'[x] + spent'[x] = money[x] + spent[x]
    <3>1. money[x] \in Int /\ spent[x] \in Int
      BY <2>1, WorthType
    <3>2. CASE x = p
      <4>1. money'[x] = money[x] - 1 /\ spent'[x] = spent[x] + 1
        BY <1>3, <2>1, <3>2 DEF Spend, PurseTypeOK
      <4> QED BY <3>1, <4>1
    <3>3. CASE x # p
      BY <1>3, <2>1, <3>3 DEF Spend, PurseTypeOK
    <3> QED BY <3>2, <3>3
  <2>3. Balance(money, spent)'
    BY <2>2, SameWorth DEF Worth
  <2>4. Settled'
    BY <1>3, <2>2 DEF Spend, MoneyInv, Settled
  <2> QED BY <2>3, <2>4 DEF MoneyInv
<1>4. CASE SaveToDB(p) BY <1>2, <1>4 DEF SaveToDB
<1>5. CASE Logout(p) BY <1>2, <1>5 DEF Logout
<1>6. CASE Login(p)
  <2>1. UNCHANGED moneyVars /\ saved'.money = saved.money /\ saved'.spent = saved.spent
    <3>1. SavedTypeOK
      BY TypeParts DEF IInv
    <3>2. \A f : [saved EXCEPT !.holder = f].money = saved.money /\ [saved EXCEPT !.holder = f].spent = saved.spent
      BY <3>1 DEF SavedTypeOK
    <3> QED BY <1>6, <3>2 DEF Login, LoadInventory
  <2> QED BY <2>1 DEF MoneyInv, Settled, Balance, moneyVars
<1>7. CASE \E i \in Items : Drop(p, i) \/ Find(p, i) \/ Bind(p, i)
  BY <1>1, <1>7 DEF Drop, Find, Bind
<1> QED BY <1>3, <1>4, <1>5, <1>6, <1>7 DEF OutsideTrade

\* All the changes to a trade, and all the answers to an acceptance but the exchange.
LEMMA OnlyTrades ==
  ASSUME NEW p \in Players, ChangeTrade(p) \/ (HandleAcceptTrade(p) /\ ~AcceptSecond(p))
  PROVE  Apart /\ online' = online
<1>1. CASE ChangeTrade(p)
  BY <1>1 DEF ChangeTrade, HandleInitiateTrade, HandleSetTradeGold, HandleSetTradeItem, SetItem,
     HandleClearTradeItem, SetSpell, Change, HandleUnacceptTrade, TradeCancel, Apart
<1>2. CASE HandleAcceptTrade(p) /\ ~AcceptSecond(p)
  BY <1>2 DEF HandleAcceptTrade, AcceptTooFar, AcceptPoor, AcceptPartnerPoor, AcceptBlocked, AcceptFirst,
     AcceptNoSpell, AcceptNoRoom, Pressed, Change, Apart
<1> QED BY <1>1, <1>2

\* MoneyInv is inductive under IInv.
LEMMA MoneyInductive ==
  ASSUME TradeAssumption, TradeNames, IInv, IInv', MoneyInv, [Next]_vars
  PROVE  MoneyInv'
<1>1. ASSUME UNCHANGED <<moneyVars, saved>> PROVE MoneyInv'
  BY <1>1 DEF MoneyInv, Settled, Balance, moneyVars
<1>2. ASSUME NEW p \in Players, ChangeTrade(p) \/ HandleAcceptTrade(p) \/ OutsideTrade(p)
      PROVE  MoneyInv'
  <2>1. CASE AcceptSecond(p) BY <2>1, ExchangeConserves
  <2>2. CASE OutsideTrade(p) BY <2>2, MoneyOutside
  <2>3. CASE ~AcceptSecond(p) /\ ~OutsideTrade(p)
    BY <1>1, <1>2, <2>3, OnlyTrades DEF Apart
  <2> QED BY <2>1, <2>2, <2>3
<1>3. CASE Crash
  <2>1. PurseTypeOK /\ SavedTypeOK
    BY TypeParts DEF IInv
  <2>2. \A x \in Players : money'[x] + spent'[x] = money[x] + spent[x]
    BY <1>3 DEF Crash, MoneyInv, Settled
  <2>3. Balance(money, spent)'
    BY <2>2, SameWorth DEF Worth
  <2>4. Settled'
    BY <1>3 DEF Crash, Settled
  <2> QED BY <2>3, <2>4 DEF MoneyInv
<1>4. CASE UNCHANGED vars BY <1>1, <1>4 DEF vars
<1> QED BY <1>2, <1>3, <1>4 DEF Next

\* No trade, save or crash makes or burns a coin.
THEOREM TradesConserveMoney == ASSUME TradeAssumption, TradeNames PROVE Spec => []MoneyConserved
<1>1. ASSUME Init PROVE MoneyInv
  <2>1. Settled
    BY <1>1 DEF Init, Settled
  <2>2. [p \in Players |-> money[p] + spent[p]] = InitMoney
    <3>1. \A p \in Players : InitMoney[p] + 0 = InitMoney[p]
      BY DEF TradeAssumption
    <3>2. InitMoney = [p \in Players |-> InitMoney[p]]
      BY DEF TradeAssumption
    <3> QED BY <1>1, <3>1, <3>2 DEF Init
  <2> QED BY <2>1, <2>2 DEF MoneyInv, Balance
<1>2. IInv /\ IInv' /\ MoneyInv /\ [Next]_vars => MoneyInv'
  BY MoneyInductive
<1>3. MoneyInv => MoneyConserved
  <2> SUFFICES ASSUME MoneyInv PROVE MoneyConserved
    OBVIOUS
  <2>1. [p \in Players |-> saved.money[p] + saved.spent[p]] = [p \in Players |-> money[p] + spent[p]]
    BY DEF MoneyInv, Settled
  <2> QED BY <2>1 DEF MoneyInv, MoneyConserved, Balance
<1>4. Spec => []IInv
  BY InvariantHolds
<1> QED BY <1>1, <1>2, <1>3, <1>4, PTL DEF Spec

-----------------------------------------------------------------------------
(****************************************************************************)
(* What an inventory can hold.                                              *)
(****************************************************************************)

\* The inventory of p when the items are held as `h' says.
Of(h, p) == {i \in Items : h[i] = p}

\* A set of items, counted without one of those that are to come.
LEMMA CountWithout ==
  ASSUME NEW A, NEW B, NEW C, NEW i, IsFiniteSet(A), IsFiniteSet(B), i \in B, C \subseteq A \cup (B \ {i})
  PROVE  /\ IsFiniteSet(C) /\ Cardinality(C) \in Nat /\ Cardinality(A) \in Nat /\ Cardinality(B) \in Nat
         /\ Cardinality(C) < Cardinality(A) + Cardinality(B)
<1>1. PICK R : R = B \ {i}
  OBVIOUS
<1>2. PICK D : D = A \cup R
  OBVIOUS
<1>3. IsFiniteSet(R) /\ Cardinality(R) = Cardinality(B) - 1
  BY <1>1, FS_RemoveElement
<1>4. IsFiniteSet(D) /\ Cardinality(D) = Cardinality(A) + Cardinality(R) - Cardinality(A \cap R)
  BY <1>2, <1>3, FS_Union
<1>5. IsFiniteSet(A \cap R)
  BY FS_Subset
<1>6. IsFiniteSet(C) /\ Cardinality(C) <= Cardinality(D)
  BY <1>1, <1>2, <1>4, FS_Subset
<1>7. /\ Cardinality(A) \in Nat /\ Cardinality(B) \in Nat /\ Cardinality(C) \in Nat
      /\ Cardinality(D) \in Nat /\ Cardinality(A \cap R) \in Nat
  BY <1>4, <1>5, <1>6, FS_CardinalityType
<1> QED BY <1>3, <1>4, <1>6, <1>7

\* What is less than can be carried can be carried.
LEMMA LessIsCarriable ==
  ASSUME TradeAssumption, NEW B \in SUBSET Items, Carriable(B), NEW A \in SUBSET B
  PROVE  Carriable(A)
<1>1. IsFiniteSet(B) /\ IsFiniteSet(A)
  BY FS_Subset DEF TradeAssumption
<1>2. Cardinality(A) <= Capacity
  <2>1. Cardinality(A) <= Cardinality(B)
    BY <1>1, FS_Subset
  <2>2. Cardinality(A) \in Nat /\ Cardinality(B) \in Nat /\ Capacity \in Nat
    BY <1>1, FS_CardinalityType DEF TradeAssumption
  <2> QED BY <2>1, <2>2 DEF Carriable
<1>3. ASSUME NEW u \in Limited PROVE Cardinality(u \cap A) <= MaxCount[u]
  <2>1. IsFiniteSet(u \cap B) /\ u \cap A \in SUBSET (u \cap B)
    BY <1>1, FS_Subset
  <2>2. IsFiniteSet(u \cap A) /\ Cardinality(u \cap A) <= Cardinality(u \cap B)
    BY <2>1, FS_Subset
  <2>3. Cardinality(u \cap A) \in Nat /\ Cardinality(u \cap B) \in Nat /\ MaxCount[u] \in Nat
    BY <2>1, <2>2, FS_CardinalityType DEF TradeAssumption
  <2> QED BY <2>2, <2>3 DEF Carriable
<1> QED BY <1>2, <1>3 DEF Carriable

\* So can an inventory and an item that fits into it.
LEMMA FittingIsCarriable ==
  ASSUME TradeAssumption, NEW h, NEW p, Carriable(Of(h, p)), NEW i \in Items, CanStoreItem(h, p, i)
  PROVE  Carriable(Of(h, p) \cup {i})
<1>1. PICK B : B = Of(h, p)
  OBVIOUS
<1>2. B \subseteq Items /\ IsFiniteSet(B) /\ Carriable(B) /\ Capacity \in Nat
  BY <1>1, FS_Subset DEF Of, TradeAssumption
<1>3. CASE i \in B
  <2>1. B \cup {i} = B
    BY <1>3
  <2> QED BY <1>1, <1>2, <2>1
<1>4. CASE i \notin B
  <2>1. Cardinality(B \cup {i}) <= Capacity
    <3>1. Cardinality(B) < Capacity
      BY <1>1 DEF CanStoreItem, Of
    <3>2. Cardinality(B \cup {i}) = Cardinality(B) + 1 /\ Cardinality(B) \in Nat
      BY <1>2, <1>4, FS_AddElement, FS_CardinalityType
    <3> QED BY <1>2, <3>1, <3>2
  <2>2. ASSUME NEW u \in Limited PROVE Cardinality(u \cap (B \cup {i})) <= MaxCount[u]
    <3>1. u \subseteq Items /\ MaxCount[u] \in Nat
      BY DEF TradeAssumption
    <3>2. CASE i \in u
      <4>1. PICK C : C = u \cap B
        OBVIOUS
      <4>2. C = {j \in u \ {i} : h[j] = p} /\ u \cap (B \cup {i}) = C \cup {i} /\ i \notin C
        BY <1>1, <1>4, <3>1, <3>2, <4>1 DEF Of
      <4>3. Cardinality(C) < MaxCount[u]
        BY <3>2, <4>2 DEF CanStoreItem, CanTakeMore
      <4>4. IsFiniteSet(C)
        BY <1>2, <4>1, FS_Subset
      <4>5. Cardinality(C \cup {i}) = Cardinality(C) + 1 /\ Cardinality(C) \in Nat
        BY <4>2, <4>4, FS_AddElement, FS_CardinalityType
      <4>6. Cardinality(C \cup {i}) <= MaxCount[u]
        BY <3>1, <4>3, <4>5
      <4> QED BY <4>2, <4>6
    <3>3. CASE i \notin u
      <4>1. u \cap (B \cup {i}) = u \cap B
        BY <3>3
      <4> QED BY <1>2, <4>1 DEF Carriable
    <3> QED BY <3>2, <3>3
  <2> QED BY <1>1, <2>1, <2>2 DEF Carriable
<1> QED BY <1>3, <1>4

\* Two inventories stay within the limits when something is stored that fits.
LEMMA StoringIsCarriable ==
  ASSUME TradeAssumption, NEW h \in [Items -> Holders], NEW g, NEW x \in Players, NEW y \in Players,
         NEW i \in Items \cup {None}, Carriable(Of(h, x)), Carriable(Of(h, y)), Fits(g, x, i),
         Of(h, x) \subseteq Of(g, x), Carriable(Of(g, x)), x # y
  PROVE  /\ Carriable(Of(Stored(h, x, i), x)) /\ Carriable(Of(Stored(h, x, i), y))
         /\ Of(Stored(h, x, i), y) \subseteq Of(h, y) /\ Stored(h, x, i) \in [Items -> Holders]
<1>1. CASE i = None
  BY <1>1 DEF Stored
<1>2. CASE i # None
  <2>1. PICK k : k = Stored(h, x, i)
    OBVIOUS
  <2>2. k \in [Items -> Holders] /\ i \in Items /\ \A j \in Items : k[j] = IF j = i THEN x ELSE h[j]
    BY <1>2, <2>1 DEF Stored, Holders
  <2>3. Of(k, y) \subseteq Of(h, y) /\ Of(k, x) \subseteq Of(g, x) \cup {i}
    BY <2>2 DEF Of
  <2>4. CanStoreItem(g, x, i)
    BY <1>2 DEF Fits
  <2>5. Carriable(Of(g, x) \cup {i})
    BY <2>2, <2>4, FittingIsCarriable
  <2>6. Of(g, x) \cup {i} \in SUBSET Items /\ Of(h, y) \in SUBSET Items
    BY <2>2 DEF Of
  <2>7. Carriable(Of(k, x))
    BY <2>3, <2>5, <2>6, LessIsCarriable
  <2>8. Carriable(Of(k, y))
    BY <2>3, <2>6, LessIsCarriable
  <2> QED BY <2>1, <2>2, <2>3, <2>7, <2>8
<1> QED BY <1>1, <1>2

\* A round of moveItems leaves both within their limits, whether it moves the items or
\* gives them back.
LEMMA RoundIsCarriable ==
  ASSUME TradeAssumption, NEW h \in [Items -> Holders], NEW p \in Players, NEW q \in Players, p # q,
         NEW mine \in Items \cup {None}, NEW his \in Items \cup {None},
         Carriable(Of(h, p)), Carriable(Of(h, q))
  PROVE  /\ Carriable(Of(MoveSlot(h, p, mine, q, his), p))
         /\ Carriable(Of(MoveSlot(h, p, mine, q, his), q))
         /\ MoveSlot(h, p, mine, q, his) \in [Items -> Holders]
<1>1. PICK m : m = MoveSlot(h, p, mine, q, his)
  OBVIOUS
<1>2. CASE Fits(h, q, mine) /\ Fits(h, p, his)
  <2>1. PICK k : k = Stored(h, q, mine)
    OBVIOUS
  <2>2. /\ Carriable(Of(k, q)) /\ Carriable(Of(k, p)) /\ Of(k, p) \subseteq Of(h, p)
        /\ k \in [Items -> Holders]
    BY <1>2, <2>1, StoringIsCarriable
  <2>3. m = Stored(k, p, his)
    BY <1>1, <1>2, <2>1 DEF MoveSlot
  <2>4. Carriable(Of(m, p)) /\ Carriable(Of(m, q)) /\ m \in [Items -> Holders]
    BY <1>2, <2>2, <2>3, StoringIsCarriable
  <2> QED BY <1>1, <2>4
<1>3. CASE ~(Fits(h, q, mine) /\ Fits(h, p, his))
  <2>1. PICK back : back = IF Fits(h, p, mine) THEN Stored(h, p, mine) ELSE h
    OBVIOUS
  <2>2. Carriable(Of(back, p)) /\ Carriable(Of(back, q)) /\ back \in [Items -> Holders]
    <3>1. CASE Fits(h, p, mine)
      <4>1. PICK k : k = Stored(h, p, mine)
        OBVIOUS
      <4>2. Carriable(Of(k, p)) /\ Carriable(Of(k, q)) /\ k \in [Items -> Holders]
        BY <3>1, <4>1, StoringIsCarriable
      <4> QED BY <2>1, <3>1, <4>1, <4>2
    <3>2. CASE ~Fits(h, p, mine)
      BY <2>1, <3>2
    <3> QED BY <3>1, <3>2
  <2>3. m = IF Fits(back, q, his) THEN Stored(back, q, his) ELSE back
    BY <1>1, <1>3, <2>1 DEF MoveSlot
  <2>4. CASE Fits(back, q, his)
    <3>1. PICK k : k = Stored(back, q, his)
      OBVIOUS
    <3>2. Carriable(Of(k, q)) /\ Carriable(Of(k, p)) /\ k \in [Items -> Holders]
      BY <2>2, <2>4, <3>1, StoringIsCarriable
    <3> QED BY <1>1, <2>3, <2>4, <3>1, <3>2
  <2>5. CASE ~Fits(back, q, his)
    BY <1>1, <2>2, <2>3, <2>5
  <2> QED BY <2>4, <2>5
<1> QED BY <1>2, <1>3

-----------------------------------------------------------------------------
(****************************************************************************)
(* The exchange of the items.                                               *)
(****************************************************************************)

\* No item lies in two slots of a trade.
OneSlotEach ==
  \A p \in Players : Trading(p) =>
    \A s \in Slots, t \in Slots :
      trade[p].items[s] = trade[p].items[t] /\ trade[p].items[s] # None => s = t

\* Who is there has no more of a limited kind, and no more in all, than he may.
LimitsKept == \A p \in online : Carriable(Held(p))

ItemsInv == OneSlotEach /\ LimitsKept

\* Who holds the items after s rounds, if all went well.
Moved(p, q, s) ==
  [i \in Items |->
     IF i \in Given(p) THEN (IF \E k \in 1..s : GetItem(p, k) = i THEN q ELSE Lost)
     ELSE IF i \in Given(q) THEN (IF \E k \in 1..s : GetItem(q, k) = i THEN p ELSE Lost)
     ELSE holder[i]]

\* p and q are the two sides of a trade the items of which can be exchanged.
Exchangeable(p, q) ==
  /\ p \in Players /\ q \in Players /\ p # q /\ Trading(p) /\ Trading(q)
  /\ CanStoreItems(q, p) /\ ~Together(q, p)

\* An item of the trade in one of the traded slots.
LEMMA GivenItem ==
  ASSUME TradeAssumption, IInv, OneSlotEach, NEW p \in Players, Trading(p), NEW i, i \in Given(p)
  PROVE  /\ i \in Items /\ holder[i] = p /\ i # None
         /\ \E s \in Traded : GetItem(p, s) = i /\ \A t \in Traded : GetItem(p, t) = i => t = s
<1>0. TRADE_SLOT_TRADED_COUNT \in Nat BY DEF TradeAssumption
<1>1. PICK s \in Traded : GetItem(p, s) = i /\ i # None
  BY DEF Given
<1>2. Traded \subseteq Slots
  BY <1>0 DEF Traded, Slots, TRADE_SLOT_NONTRADED
<1>3. trade[p].items \in [Slots -> Items \cup {None}]
  BY TypeParts, TradeFields DEF IInv
<1>4. trade[p].items[s] = i /\ holder[i] = p /\ i \in Items
  BY <1>1, <1>2, <1>3 DEF GetItem
<1>5. ASSUME NEW t \in Traded, GetItem(p, t) = i PROVE t = s
  <2>1. trade[p].items[t] = i
    BY <1>1, <1>5 DEF GetItem
  <2> QED BY <1>1, <1>2, <1>4, <2>1 DEF OneSlotEach
<1> QED BY <1>1, <1>4, <1>5

\* The item in slot s fits into the inventory of q after the rounds before it.
LEMMA StillFits ==
  ASSUME TradeAssumption, IInv, OneSlotEach, NEW p, NEW q, Exchangeable(p, q),
         NEW s \in Traded, NEW h, h = Moved(p, q, s - 1) \/ h = Moved(q, p, s - 1)
  PROVE  Fits(h, q, GetItem(p, s))
<1>1. PICK i : i = GetItem(p, s)
  OBVIOUS
<1>2. SUFFICES ASSUME i # None PROVE CanStoreItem(h, q, i)
  BY <1>1 DEF Fits
<1>3. p \in Players /\ q \in Players /\ p # q /\ Trading(p) /\ Trading(q) /\ Lost \notin Players
  BY DEF Exchangeable, TradeAssumption
<1>4. i \in Given(p) /\ i \in Items /\ holder[i] = p
  BY <1>1, <1>2, <1>3, GivenItem DEF Given
<1>5. \A t \in Traded : GetItem(p, t) = i => t = s
  BY <1>1, <1>3, <1>4, GivenItem
<1>6. \A j \in Given(p) : j \in Items /\ holder[j] = p
  BY <1>3, GivenItem
<1>7. \A j \in Given(q) : j \in Items /\ holder[j] = q
  BY <1>3, GivenItem
<1>8. \A j \in Items : h[j] = q => j \in (Held(q) \ Given(q)) \cup (Given(p) \ {i})
  <2> SUFFICES ASSUME NEW j \in Items, h[j] = q
               PROVE  j \in (Held(q) \ Given(q)) \cup (Given(p) \ {i})
    OBVIOUS
  <2>1. CASE j \in Given(p)
    <3>1. j \notin Given(q)
      BY <2>1, <1>3, <1>6, <1>7
    <3>2. \E k \in 1..(s - 1) : GetItem(p, k) = j
      BY <2>1, <3>1, <1>3 DEF Moved
    <3>3. \A k \in 1..(s - 1) : k \in Traded /\ k # s
      BY DEF Traded, TradeAssumption
    <3>4. j # i
      BY <3>2, <3>3, <1>5
    <3> QED BY <2>1, <3>4
  <2>2. CASE j \in Given(q)
    <3>1. j \notin Given(p)
      BY <2>2, <1>3, <1>6, <1>7
    <3> QED BY <2>2, <3>1, <1>3 DEF Moved
  <2>3. CASE j \notin Given(p) /\ j \notin Given(q)
    BY <2>3 DEF Moved, Held
  <2> QED BY <2>1, <2>2, <2>3
<1>9. CanStoreItems(q, p)
  BY DEF Exchangeable
<1>10. Cardinality({j \in Items : h[j] = q}) < Capacity
  <2>1. PICK A : A = Held(q) \ Given(q)
    OBVIOUS
  <2>2. PICK B : B = Given(p)
    OBVIOUS
  <2>3. PICK C : C = {j \in Items : h[j] = q}
    OBVIOUS
  <2>4. A \subseteq Items /\ B \subseteq Items /\ i \in B /\ C \subseteq A \cup (B \ {i})
    BY <2>1, <2>2, <2>3, <1>4, <1>6, <1>8 DEF Held
  <2>5. A \cap (B \ {i}) = {}
    BY <2>1, <2>2, <1>3, <1>6 DEF Held
  <2>6. IsFiniteSet(A) /\ IsFiniteSet(B)
    BY <2>4, FS_Subset DEF TradeAssumption
  <2>7. Cardinality(A) + Cardinality(B) <= Capacity /\ Capacity \in Nat
    BY <2>1, <2>2, <1>9 DEF CanStoreItems, TradeAssumption
  <2>8. /\ Cardinality(C) < Cardinality(A) + Cardinality(B)
        /\ Cardinality(A) \in Nat /\ Cardinality(B) \in Nat /\ Cardinality(C) \in Nat
    BY <2>4, <2>6, CountWithout
  <2>9. Cardinality(C) < Capacity
    BY <2>7, <2>8
  <2> QED BY <2>3, <2>9
<1>11. ASSUME NEW u \in Limited, i \in u PROVE Cardinality({j \in u \ {i} : h[j] = q}) < MaxCount[u]
  <2>1. PICK A : A = u \cap (Held(q) \ Given(q))
    OBVIOUS
  <2>2. PICK B : B = u \cap Given(p)
    OBVIOUS
  <2>3. PICK C : C = {j \in u \ {i} : h[j] = q}
    OBVIOUS
  <2>4. u \subseteq Items /\ MaxCount[u] \in Nat
    BY DEF TradeAssumption
  <2>5. A \subseteq Items /\ B \subseteq Items /\ i \in B /\ C \subseteq A \cup (B \ {i})
    BY <2>1, <2>2, <2>3, <2>4, <1>4, <1>6, <1>8, <1>11
  <2>6. IsFiniteSet(A) /\ IsFiniteSet(B)
    BY <2>5, FS_Subset DEF TradeAssumption
  <2>7. /\ Cardinality(C) < Cardinality(A) + Cardinality(B) /\ IsFiniteSet(C)
        /\ Cardinality(A) \in Nat /\ Cardinality(B) \in Nat /\ Cardinality(C) \in Nat
    BY <2>5, <2>6, CountWithout
  <2>8. CASE Cardinality(B) > 1
    <3>1. ~(Cardinality(A) + Cardinality(B) > MaxCount[u])
      BY <2>1, <2>2, <2>8 DEF Exchangeable, Together
    <3> QED BY <2>3, <2>4, <2>7, <3>1
  <2>9. CASE ~(Cardinality(B) > 1)
    <3>1. Cardinality(C) <= Cardinality(A)
      BY <2>7, <2>9
    <3>2. PICK D : D = {j \in u \ {i} : holder[j] = q}
      OBVIOUS
    <3>3. A \subseteq D /\ IsFiniteSet(D)
      <4>1. D \subseteq Items /\ IsFiniteSet(Items)
        BY <2>4, <3>2 DEF TradeAssumption
      <4>2. A \subseteq D
        BY <1>3, <1>4, <2>1, <2>4, <3>2 DEF Held
      <4> QED BY <4>1, <4>2, FS_Subset
    <3>4. Cardinality(A) <= Cardinality(D) /\ Cardinality(D) \in Nat
      BY <3>3, FS_Subset, FS_CardinalityType
    <3>5. Cardinality(D) < MaxCount[u]
      BY <1>4, <1>9, <1>11, <3>2 DEF CanStoreItems, CanTakeMore
    <3>6. Cardinality(C) < MaxCount[u]
      BY <2>4, <2>7, <3>1, <3>4, <3>5
    <3> QED BY <2>3, <3>6
  <2> QED BY <2>8, <2>9
<1>12. ~IsBindedNotWith(i, q)
  BY <1>4, <1>9 DEF CanStoreItems
<1> QED BY <1>10, <1>11, <1>12 DEF CanStoreItem, CanTakeMore

\* A round moves the items of its slot to the other sides.
LEMMA RoundMoves ==
  ASSUME TradeAssumption, IInv, OneSlotEach, NEW p, NEW q, Exchangeable(p, q),
         Exchangeable(q, p), NEW s \in Traded
  PROVE  Round(p, q, s, Moved(p, q, s - 1)) = Moved(p, q, s)
<1>1. PICK h : h = Moved(p, q, s - 1)
  OBVIOUS
<1>2. PICK i : i = GetItem(p, s)
  OBVIOUS
<1>3. PICK j : j = GetItem(q, s)
  OBVIOUS
<1>4. Fits(h, q, i) /\ Fits(h, p, j)
  BY <1>1, <1>2, <1>3, StillFits
<1>5. Round(p, q, s, h) = Stored(Stored(h, q, i), p, j)
  BY <1>2, <1>3, <1>4 DEF Round, MoveSlot
<1>6. p \in Players /\ q \in Players /\ p # q /\ Trading(p) /\ Trading(q)
  BY DEF Exchangeable
<1>7. \A k \in Given(p) : k \in Items /\ holder[k] = p
  BY <1>6, GivenItem
<1>8. \A k \in Given(q) : k \in Items /\ holder[k] = q
  BY <1>6, GivenItem
<1>9. i # None => i \in Given(p) /\ i \notin Given(q)
  BY <1>2, <1>6, <1>7, <1>8 DEF Given
<1>10. j # None => j \in Given(q) /\ j \notin Given(p)
  BY <1>3, <1>6, <1>7, <1>8 DEF Given
<1>11. \A k \in 1..s : k \in 1..(s - 1) \/ k = s
  BY DEF Traded, TradeAssumption
<1>12. \A k \in 1..(s - 1) : k \in 1..s
  BY DEF Traded, TradeAssumption
<1>13. s \in 1..s
  BY DEF Traded, TradeAssumption
<1>14. \A k : (\E t \in 1..s : GetItem(p, t) = k) <=> (\E t \in 1..(s - 1) : GetItem(p, t) = k) \/ k = i
  BY <1>2, <1>11, <1>12, <1>13
<1>15. \A k : (\E t \in 1..s : GetItem(q, t) = k) <=> (\E t \in 1..(s - 1) : GetItem(q, t) = k) \/ k = j
  BY <1>3, <1>11, <1>12, <1>13
<1>16. None \notin Items
  BY DEF TradeAssumption
<1>17. h \in [Items -> Holders]
  <2>1. holder \in [Items -> Holders]
    BY DEF IInv, TypeOK
  <2> QED BY <1>1, <1>6, <2>1 DEF Moved, Holders
<1>18. PICK g : g = Stored(Stored(h, q, i), p, j)
  OBVIOUS
<1>19. g \in [Items -> Holders]
  BY <1>6, <1>17, <1>18 DEF Stored, Holders
<1>20. \A k \in Items : g[k] = IF k = j THEN p ELSE IF k = i THEN q ELSE h[k]
  BY <1>16, <1>17, <1>18 DEF Stored
<1>21. \A k \in Items : g[k] = Moved(p, q, s)[k]
  <2> SUFFICES ASSUME NEW k \in Items PROVE g[k] = Moved(p, q, s)[k]
    OBVIOUS
  <2>1. Moved(p, q, s)[k] =
          IF k \in Given(p) THEN (IF \E t \in 1..s : GetItem(p, t) = k THEN q ELSE Lost)
          ELSE IF k \in Given(q) THEN (IF \E t \in 1..s : GetItem(q, t) = k THEN p ELSE Lost)
          ELSE holder[k]
    BY DEF Moved
  <2>2. h[k] =
          IF k \in Given(p) THEN (IF \E t \in 1..(s - 1) : GetItem(p, t) = k THEN q ELSE Lost)
          ELSE IF k \in Given(q) THEN (IF \E t \in 1..(s - 1) : GetItem(q, t) = k THEN p ELSE Lost)
          ELSE holder[k]
    BY <1>1 DEF Moved
  <2>3. k # None
    BY <1>16
  <2>4. CASE k = j
    <3>1. k \in Given(q) /\ k \notin Given(p)
      BY <2>3, <2>4, <1>10
    <3> QED BY <2>1, <2>4, <3>1, <1>15, <1>20
  <2>5. CASE k = i /\ k # j
    <3>1. k \in Given(p)
      BY <2>3, <2>5, <1>9
    <3> QED BY <2>1, <2>5, <3>1, <1>14, <1>20
  <2>6. CASE k # i /\ k # j
    BY <2>1, <2>2, <2>6, <1>14, <1>15, <1>20
  <2> QED BY <2>4, <2>5, <2>6
<1>22. Moved(p, q, s) \in [Items -> Holders]
  <2>1. holder \in [Items -> Holders]
    BY DEF IInv, TypeOK
  <2> QED BY <1>6, <2>1 DEF Moved, Holders
<1>23. g = Moved(p, q, s)
  <2>1. PICK f : f = Moved(p, q, s)
    OBVIOUS
  <2> QED BY <1>19, <1>21, <1>22, <2>1
<1> QED BY <1>1, <1>5, <1>18, <1>23

\* The holders after an exchange.
Swapped(p, q) ==
  [i \in Items |-> IF i \in Given(p) THEN q ELSE IF i \in Given(q) THEN p ELSE holder[i]]

\* The loop gives every item of the table to the other side.
LEMMA AllMoved ==
  ASSUME TradeAssumption, IInv, OneSlotEach, NEW p, NEW q,
         Exchangeable(p, q), Exchangeable(q, p)
  PROVE  moveItems(p, q) = Swapped(p, q)
<1>0. TRADE_SLOT_TRADED_COUNT \in Nat /\ p \in Players /\ q \in Players /\ Trading(p) /\ Trading(q)
  BY DEF TradeAssumption, Exchangeable
<1>1. PICK R : R = [s \in 0..TRADE_SLOT_TRADED_COUNT |-> {Moved(p, q, s)}]
  OBVIOUS
<1>2. Removed(p, q) \in R[0]
  <2>1. \A k \in 1..0 : FALSE
    OBVIOUS
  <2>2. Removed(p, q) = Moved(p, q, 0)
    BY <2>1 DEF Removed, Moved, Given2
  <2> QED BY <1>0, <1>1, <2>2
<1>3. ASSUME NEW s \in Traded, NEW h \in R[s - 1] PROVE Round(p, q, s, h) \in R[s]
  <2>1. s - 1 \in 0..TRADE_SLOT_TRADED_COUNT /\ s \in 0..TRADE_SLOT_TRADED_COUNT
    BY <1>0 DEF Traded
  <2>2. h = Moved(p, q, s - 1)
    BY <1>1, <1>3, <2>1
  <2> QED BY <1>1, <2>1, <2>2, RoundMoves
<1>4. moveItems(p, q) \in R[TRADE_SLOT_TRADED_COUNT]
  BY <1>0, <1>2, <1>3, LoopInduction
<1>5. moveItems(p, q) = Moved(p, q, TRADE_SLOT_TRADED_COUNT)
  BY <1>0, <1>1, <1>4
<1>6. \A i \in Given(p) : \E k \in 1..TRADE_SLOT_TRADED_COUNT : GetItem(p, k) = i
  BY DEF Given, Traded
<1>7. \A i \in Given(q) : \E k \in 1..TRADE_SLOT_TRADED_COUNT : GetItem(q, k) = i
  BY DEF Given, Traded
<1> QED BY <1>5, <1>6, <1>7 DEF Moved, Swapped

\* What the second acceptance does to the items when neither side gives together too much.
LEMMA SecondMoves ==
  ASSUME TradeAssumption, IInv, OneSlotEach, NEW p \in Players, AcceptSecond(p),
         ~Together(p, Trader(p)), ~Together(Trader(p), p)
  PROVE  /\ holder' = Swapped(p, Trader(p))
         /\ Trader(p) \in Players /\ Trader(p) # p /\ Trading(p) /\ Trading(Trader(p))
<1>1. PICK q : q = Trader(p)
  OBVIOUS
<1>2. Trading(p) /\ CanStoreItems(q, p) /\ CanStoreItems(p, q) /\ Exchange(p, q)
  BY <1>1 DEF AcceptSecond, Second
<1>3. q \in Players /\ q # p /\ Trading(q)
  BY <1>1, <1>2, Sides
<1>4. Exchangeable(p, q) /\ Exchangeable(q, p)
  BY <1>1, <1>2, <1>3 DEF Exchangeable
<1>5. PICK h : h = Swapped(p, q)
  OBVIOUS
<1>6. moveItems(p, q) = h
  BY <1>4, <1>5, AllMoved
<1>7. \A i \in Given(p) \cup Given(q) : i \in Items /\ h[i] # Lost
  <2>1. \A i \in Given(p) \cup Given(q) : i \in Items
    BY <1>2, <1>3, GivenItem
  <2> QED BY <1>3, <1>5, <2>1 DEF Swapped, TradeAssumption
<1>8. /\ holder' = [i \in Items |-> holder'[i]]
      /\ \A i \in Items : \/ holder'[i] = h[i]
                          \/ i \in Given(p) \cup Given(q) /\ h[i] = Lost /\ holder'[i] = Gone
  BY <1>2, <1>3, <1>6, ExchangeOver
<1>9. \A i \in Items : holder'[i] = h[i]
  BY <1>7, <1>8
<1>10. holder' = [i \in Items |-> h[i]]
  BY <1>8, <1>9
<1>11. h = [i \in Items |-> h[i]]
  BY <1>5 DEF Swapped
<1> QED BY <1>1, <1>2, <1>3, <1>5, <1>10, <1>11

\* However the exchange goes, all who are there stay within their limits.
LEMMA ExchangeKeepsLimits ==
  ASSUME TradeAssumption, IInv, LimitsKept, NEW p \in Players, AcceptSecond(p)
  PROVE  LimitsKept'
<1>1. PICK q : q = Trader(p)
  OBVIOUS
<1>2. Trading(p) /\ Exchange(p, q) /\ online' = online
  BY <1>1 DEF AcceptSecond, Second
<1>3. q \in Players /\ q # p /\ {p, q} \subseteq online
  BY <1>1, <1>2, Sides DEF IInv, Paired
<1>4. holder \in [Items -> Holders] /\ TRADE_SLOT_TRADED_COUNT \in Nat /\ online \subseteq Players
  BY DEF IInv, TypeOK, TradeAssumption
<1>5. PICK B : B = {h \in [Items -> Holders] : Carriable(Of(h, p)) /\ Carriable(Of(h, q))}
  OBVIOUS
<1>6. PICK R : R = [s \in 0..TRADE_SLOT_TRADED_COUNT |-> B]
  OBVIOUS
<1>7. Removed(p, q) \in B
  <2>1. PICK h : h = Removed(p, q)
    OBVIOUS
  <2>2. h \in [Items -> Holders] /\ Of(h, p) \subseteq Held(p) /\ Of(h, q) \subseteq Held(q)
    BY <1>3, <1>4, <2>1 DEF Removed, Of, Held, Holders, TradeAssumption
  <2>3. Held(p) \in SUBSET Items /\ Held(q) \in SUBSET Items /\ Carriable(Held(p)) /\ Carriable(Held(q))
    BY <1>3 DEF Held, LimitsKept
  <2>4. Carriable(Of(h, p)) /\ Carriable(Of(h, q))
    BY <2>2, <2>3, LessIsCarriable
  <2> QED BY <1>5, <2>1, <2>2, <2>4
<1>8. ASSUME NEW s \in Traded, NEW h \in B PROVE Round(p, q, s, h) \in B
  <2>1. GetItem(p, s) \in Items \cup {None} /\ GetItem(q, s) \in Items \cup {None}
    <3>1. \A x \in Players : Trading(x) => GetItem(x, s) \in Items \cup {None}
      <4>1. s \in Slots
        BY <1>4 DEF Traded, Slots, TRADE_SLOT_NONTRADED
      <4> QED BY <4>1, TypeParts, TradeFields DEF IInv, GetItem
    <3> QED BY <1>1, <1>2, <1>3, <3>1, Sides
  <2>2. PICK m : m = Round(p, q, s, h)
    OBVIOUS
  <2>3. Carriable(Of(m, p)) /\ Carriable(Of(m, q)) /\ m \in [Items -> Holders]
    BY <1>3, <1>5, <2>1, <2>2, RoundIsCarriable DEF Round
  <2> QED BY <1>5, <2>2, <2>3
<1>9. moveItems(p, q) \in B
  <2>1. \A s \in Traded : s - 1 \in 0..TRADE_SLOT_TRADED_COUNT /\ s \in 0..TRADE_SLOT_TRADED_COUNT
    BY <1>4 DEF Traded
  <2>2. Removed(p, q) \in R[0] /\ \A s \in Traded : \A h \in R[s - 1] : Round(p, q, s, h) \in R[s]
    BY <1>4, <1>6, <1>7, <1>8, <2>1
  <2>3. moveItems(p, q) \in R[TRADE_SLOT_TRADED_COUNT]
    BY <1>3, <2>2, LoopInduction
  <2> QED BY <1>4, <1>6, <2>3
<1>10. PICK h : h = moveItems(p, q)
  OBVIOUS
<1>11. \A i \in Items : holder'[i] \in {h[i], Gone}
  BY <1>2, <1>3, <1>10, ExchangeOver
<1>12. \A x \in Players : Held(x)' \subseteq Of(h, x)
  BY <1>11 DEF Held, Of, TradeAssumption
<1>13. ASSUME NEW x \in online PROVE Carriable(Of(h, x))
  <2>1. CASE x \in {p, q}
    BY <1>5, <1>9, <1>10, <2>1
  <2>2. CASE x \notin {p, q}
    <3>1. Between(p, q, h)
      BY <1>3, <1>4, <1>10, MovesBetween
    <3>2. Of(h, x) \subseteq Held(x)
      BY <1>4, <2>2, <3>1 DEF Between, Of, Held, TradeAssumption
    <3>3. Held(x) \in SUBSET Items /\ Carriable(Held(x))
      BY DEF Held, LimitsKept
    <3> QED BY <3>2, <3>3, LessIsCarriable
  <2> QED BY <2>1, <2>2
<1>14. ASSUME NEW x \in online' PROVE Carriable(Held(x)')
  <2>1. x \in online /\ x \in Players
    BY <1>2, <1>4
  <2>2. Of(h, x) \in SUBSET Items
    BY DEF Of
  <2> QED BY <1>12, <1>13, <2>1, <2>2, LessIsCarriable
<1> QED BY <1>14 DEF LimitsKept, Carriable

\* What a step may do to the items in the slots of one side: nothing, clear one, put one
\* there that is in no other, or begin without any.
SlotsStep(x) ==
  Trading(x)' =>
    \/ Trading(x) /\ trade'[x].items = trade[x].items
    \/ trade'[x].items = [s \in Slots |-> None]
    \/ /\ Trading(x)
       /\ \E s \in Slots, i \in Items \cup {None} :
            /\ i # None => ~HasItem(x, i)
            /\ trade'[x].items = [trade[x].items EXCEPT ![s] = i]

\* Such steps keep the items in one slot each.
LEMMA SlotsStepKeeps ==
  ASSUME TradeTypeOK, OneSlotEach, \A x \in Players : SlotsStep(x)
  PROVE  OneSlotEach'
<1>1. ASSUME NEW x \in Players, Trading(x)', NEW s \in Slots, NEW t \in Slots,
             trade'[x].items[s] = trade'[x].items[t], trade'[x].items[s] # None
      PROVE  s = t
  <2>1. CASE Trading(x) /\ trade'[x].items = trade[x].items
    BY <1>1, <2>1 DEF OneSlotEach
  <2>2. CASE trade'[x].items = [k \in Slots |-> None]
    BY <1>1, <2>2
  <2>3. ASSUME Trading(x), NEW k \in Slots, NEW i \in Items \cup {None}, i # None => ~HasItem(x, i),
               trade'[x].items = [trade[x].items EXCEPT ![k] = i]
        PROVE  s = t
    <3>1. trade[x].items \in [Slots -> Items \cup {None}]
      BY <2>3, TradeFields
    <3>2. \A m \in Slots : trade'[x].items[m] = IF m = k THEN i ELSE trade[x].items[m]
      BY <2>3, <3>1
    <3>3. \A m \in Slots : i # None => trade[x].items[m] # i
      BY <2>3 DEF HasItem
    <3> QED BY <1>1, <2>3, <3>2, <3>3 DEF OneSlotEach
  <2> QED BY <1>1, <2>1, <2>2, <2>3 DEF SlotsStep
<1> QED BY <1>1 DEF OneSlotEach

\* The slots of the two sides after Change.
LEMMA ChangeSlots ==
  ASSUME TradeAssumption, TradeNames, IInv, NEW p \in Players, Trading(p), NEW mine \in Trades,
         NEW his \in Trades, Change(p, mine, his)
  PROVE  /\ trade'[p].items = mine.items /\ trade'[Trader(p)].items = his.items
         /\ \A x \in Players \ {p, Trader(p)} : trade'[x] = trade[x]
         /\ Trader(p) \in Players /\ Trader(p) # p /\ Trading(Trader(p))
<1>1. Trader(p) \in Players /\ Trader(p) # p /\ Trading(Trader(p))
  BY Sides
<1>2. [mine EXCEPT !.accepted = FALSE].items = mine.items /\ [his EXCEPT !.accepted = FALSE].items = his.items
  BY DEF Trades
<1>3. trade \in [Players -> Trades \cup {NoTrade}]
  BY TypeParts DEF IInv, TradeTypeOK
<1>4. /\ trade'[p] = [mine EXCEPT !.accepted = FALSE]
      /\ trade'[Trader(p)] = [his EXCEPT !.accepted = FALSE]
      /\ \A x \in Players \ {p, Trader(p)} : trade'[x] = trade[x]
  BY <1>1, <1>3 DEF Change
<1> QED BY <1>1, <1>2, <1>4

\* Steps that leave a side as it is, or close it.
LEMMA SlotsClosed ==
  ASSUME \A x \in Players : trade'[x] \in {trade[x], NoTrade}
  PROVE  \A x \in Players : SlotsStep(x)
BY DEF SlotsStep, Trading

\* Steps that change something else of the sides of p and its trader.
LEMMA SlotsSame ==
  ASSUME TradeAssumption, TradeNames, IInv, NEW p \in Players, Trading(p), NEW mine \in Trades,
         NEW his \in Trades, Change(p, mine, his),
         mine.items = trade[p].items, his.items = trade[Trader(p)].items
  PROVE  \A x \in Players : SlotsStep(x)
<1>1. PICK q : q = Trader(p)
  OBVIOUS
<1>2. /\ trade'[p].items = trade[p].items /\ trade'[q].items = trade[q].items
      /\ \A x \in Players \ {p, q} : trade'[x] = trade[x]
      /\ q \in Players /\ q # p /\ Trading(q)
  BY <1>1, ChangeSlots
<1> QED BY <1>2 DEF SlotsStep, Trading

\* Closing a trade.
LEMMA CloseSlots ==
  ASSUME NEW p \in Players, Close(p)
  PROVE  \A x \in Players : SlotsStep(x)
<1>1. \A x \in Players : trade'[x] \in {trade[x], NoTrade}
  BY DEF Close
<1> QED BY <1>1, SlotsClosed

\* Putting an item into a slot, or clearing it.
LEMMA SetItemSlots ==
  ASSUME TradeAssumption, TradeNames, IInv, NEW p \in Players, Trading(p), NEW s \in Slots,
         NEW i \in Items \cup {None}, SetItem(p, s, i), i # None => ~HasItem(p, i)
  PROVE  \A x \in Players : SlotsStep(x)
<1>0. PICK q : q = Trader(p)
  OBVIOUS
<1> DEFINE mine == [trade[p] EXCEPT !.items[s] = i, !.spell = FALSE]
           his == [trade[q] EXCEPT !.spell = @ /\ s # TRADE_SLOT_NONTRADED]
<1>1. trade[p] \in Trades /\ trade[q] \in Trades
  BY <1>0, Sides
<1>2. mine.items = [trade[p].items EXCEPT ![s] = i] /\ mine \in Trades
  <2>1. [trade[p].items EXCEPT ![s] = i] \in [Slots -> Items \cup {None}]
    BY <1>1 DEF Trades
  <2>2. mine = [trade[p] EXCEPT !.items = [trade[p].items EXCEPT ![s] = i], !.spell = FALSE]
    OBVIOUS
  <2>3. \A f \in [Slots -> Items \cup {None}] : [trade[p] EXCEPT !.items = f, !.spell = FALSE].items = f
    BY <1>1 DEF Trades
  <2> QED BY <1>1, <2>1, <2>2, <2>3, WithField
<1>3. his.items = trade[q].items /\ his \in Trades
  <2>1. (trade[q].spell /\ s # TRADE_SLOT_NONTRADED) \in BOOLEAN
    OBVIOUS
  <2>2. \A b \in BOOLEAN : [trade[q] EXCEPT !.spell = b].items = trade[q].items
    BY <1>1 DEF Trades
  <2>3. \A b \in BOOLEAN : [trade[q] EXCEPT !.spell = b] \in Trades
    BY <1>1, WithField
  <2> QED BY <2>1, <2>2, <2>3, Zenon
<1>4. Change(p, mine, his)
  BY <1>0 DEF SetItem
<1> HIDE DEF mine, his
<1>5. /\ trade'[p].items = [trade[p].items EXCEPT ![s] = i] /\ trade'[q].items = trade[q].items
      /\ \A x \in Players \ {p, q} : trade'[x] = trade[x]
      /\ q \in Players /\ q # p /\ Trading(q)
  BY <1>0, <1>2, <1>3, <1>4, ChangeSlots
<1>6. SlotsStep(p)
  BY <1>5 DEF SlotsStep
<1>7. \A x \in Players \ {p} : SlotsStep(x)
  BY <1>5 DEF SlotsStep, Trading
<1> QED BY <1>6, <1>7

\* Every change to a trade.
LEMMA ChangeTradeSlots ==
  ASSUME TradeAssumption, TradeNames, IInv, NEW p \in Players, ChangeTrade(p)
  PROVE  \A x \in Players : SlotsStep(x)
<1>0. TradeTypeOK
  BY TypeParts DEF IInv
<1>1. ASSUME NEW q \in Players, HandleInitiateTrade(p, q) PROVE \A x \in Players : SlotsStep(x)
  <2>1. \A x \in Players : trade'[x] \in {trade[x], EmptyTrade(p), EmptyTrade(q)}
    BY <1>0, <1>1 DEF HandleInitiateTrade, TradeTypeOK
  <2>2. \A x : EmptyTrade(x).items = [s \in Slots |-> None]
    BY DEF EmptyTrade
  <2> QED BY <2>1, <2>2 DEF SlotsStep, Trading
<1>2. ASSUME NEW m \in Money, HandleSetTradeGold(p, m) PROVE \A x \in Players : SlotsStep(x)
  <2>1. Trading(p) /\ Change(p, [trade[p] EXCEPT !.money = m], trade[Trader(p)])
    BY <1>2 DEF HandleSetTradeGold
  <2>2. trade[p] \in Trades /\ trade[Trader(p)] \in Trades
    BY <2>1, Sides
  <2>3. [trade[p] EXCEPT !.money = m] \in Trades /\ [trade[p] EXCEPT !.money = m].items = trade[p].items
    BY <2>2 DEF Trades
  <2> QED BY <2>1, <2>2, <2>3, SlotsSame
<1>3. ASSUME NEW s \in Slots, NEW i \in Items, HandleSetTradeItem(p, s, i)
      PROVE  \A x \in Players : SlotsStep(x)
  BY <1>3, SetItemSlots DEF HandleSetTradeItem
<1>4. ASSUME NEW s \in Slots, HandleClearTradeItem(p, s) PROVE \A x \in Players : SlotsStep(x)
  BY <1>4, SetItemSlots DEF HandleClearTradeItem
<1>5. ASSUME SetSpell(p) PROVE \A x \in Players : SlotsStep(x)
  <2>1. Trading(p) /\ Change(p, [trade[p] EXCEPT !.spell = TRUE], trade[Trader(p)])
    BY <1>5 DEF SetSpell
  <2>2. trade[p] \in Trades /\ trade[Trader(p)] \in Trades
    BY <2>1, Sides
  <2>3. [trade[p] EXCEPT !.spell = TRUE] \in Trades /\ [trade[p] EXCEPT !.spell = TRUE].items = trade[p].items
    BY <2>2 DEF Trades
  <2> QED BY <2>1, <2>2, <2>3, SlotsSame
<1>6. ASSUME HandleUnacceptTrade(p) PROVE \A x \in Players : SlotsStep(x)
  <2>1. Trading(p) /\ trade' = [trade EXCEPT ![p].accepted = FALSE]
    BY <1>6 DEF HandleUnacceptTrade
  <2>2. trade[p] \in Trades
    BY <2>1, Sides
  <2>3. [trade[p] EXCEPT !.accepted = FALSE].items = trade[p].items
    BY <2>2 DEF Trades
  <2>4. trade'[p].items = trade[p].items /\ \A x \in Players \ {p} : trade'[x] = trade[x]
    BY <1>0, <2>1, <2>3 DEF TradeTypeOK
  <2> QED BY <2>1, <2>4 DEF SlotsStep, Trading
<1>7. ASSUME TradeCancel(p) PROVE \A x \in Players : SlotsStep(x)
  BY <1>7, CloseSlots DEF TradeCancel
<1> QED BY <1>1, <1>2, <1>3, <1>4, <1>5, <1>6, <1>7 DEF ChangeTrade

\* Every outcome of pressing accept.
LEMMA AcceptSlots ==
  ASSUME TradeAssumption, TradeNames, IInv, NEW p \in Players, HandleAcceptTrade(p)
  PROVE  \A x \in Players : SlotsStep(x)
<1>0. PICK q : q = Trader(p)
  OBVIOUS
<1>1. Trading(p)
  BY DEF HandleAcceptTrade, AcceptTooFar, AcceptPoor, AcceptPartnerPoor, AcceptBlocked, AcceptFirst,
     AcceptNoSpell, AcceptNoRoom, AcceptSecond, Second
<1>2. trade[p] \in Trades /\ trade[q] \in Trades /\ q \in Players /\ q # p /\ Trading(q)
  BY <1>0, <1>1, Sides
<1>3. TradeTypeOK
  BY TypeParts DEF IInv
<1>4. ASSUME NEW mine, NEW his, Pressed(p, mine, his) PROVE \A x \in Players : SlotsStep(x)
  <2>1. [trade[p] EXCEPT !.accepted = mine].items = trade[p].items
    BY <1>2 DEF Trades
  <2>2. [trade[q] EXCEPT !.accepted = his].items = trade[q].items
    BY <1>2 DEF Trades
  <2>3. trade' = [trade EXCEPT ![p].accepted = mine, ![q].accepted = his]
    BY <1>0, <1>4 DEF Pressed
  <2>4. /\ trade'[p] = [trade[p] EXCEPT !.accepted = mine]
        /\ trade'[q] = [trade[q] EXCEPT !.accepted = his]
        /\ \A x \in Players \ {p, q} : trade'[x] = trade[x]
    BY <1>2, <1>3, <2>3 DEF TradeTypeOK
  <2> QED BY <1>1, <1>2, <2>1, <2>2, <2>4 DEF SlotsStep, Trading
<1>5. CASE AcceptNoSpell(p)
  <2>1. [trade[p] EXCEPT !.spell = FALSE] \in Trades /\ [trade[p] EXCEPT !.spell = FALSE].items = trade[p].items
    BY <1>2 DEF Trades
  <2>2. [trade[q] EXCEPT !.spell = FALSE] \in Trades /\ [trade[q] EXCEPT !.spell = FALSE].items = trade[q].items
    BY <1>2 DEF Trades
  <2>3. \/ Change(p, [trade[p] EXCEPT !.spell = FALSE], trade[q])
        \/ Change(p, trade[p], [trade[q] EXCEPT !.spell = FALSE])
    BY <1>0, <1>5 DEF AcceptNoSpell
  <2> QED BY <1>0, <1>1, <1>2, <2>1, <2>2, <2>3, SlotsSame
<1>6. CASE AcceptNoRoom(p)
  BY <1>0, <1>1, <1>2, <1>6, SlotsSame DEF AcceptNoRoom
<1>7. CASE AcceptSecond(p)
  BY <1>7, CloseSlots DEF AcceptSecond
<1>8. CASE AcceptTooFar(p) BY <1>4, <1>8 DEF AcceptTooFar
<1>9. CASE AcceptPoor(p) BY <1>4, <1>9 DEF AcceptPoor
<1>10. CASE AcceptPartnerPoor(p) BY <1>4, <1>10 DEF AcceptPartnerPoor
<1>11. CASE AcceptBlocked(p) BY <1>4, <1>11 DEF AcceptBlocked
<1>12. CASE AcceptFirst(p) BY <1>4, <1>12 DEF AcceptFirst
<1> QED BY <1>5, <1>6, <1>7, <1>8, <1>9, <1>10, <1>11, <1>12 DEF HandleAcceptTrade

\* All other steps.
LEMMA OtherSlots ==
  ASSUME (\E p \in Players : OutsideTrade(p)) \/ Crash \/ UNCHANGED vars
  PROVE  \A x \in Players : SlotsStep(x)
<1>1. ASSUME NEW p \in Players, OutsideTrade(p) PROVE \A x \in Players : SlotsStep(x)
  <2>1. CASE Logout(p) BY <2>1, CloseSlots DEF Logout
  <2>2. CASE trade' = trade BY <2>2, SlotsClosed
  <2>3. Logout(p) \/ trade' = trade
    BY <1>1 DEF OutsideTrade, Drop, Find, Bind, Spend, SaveToDB, Login, tradeVars
  <2> QED BY <2>1, <2>2, <2>3
<1>2. CASE Crash BY <1>2, SlotsClosed DEF Crash
<1>3. CASE UNCHANGED vars BY <1>3, SlotsClosed DEF vars, tradeVars
<1> QED BY <1>1, <1>2, <1>3

\* OneSlotEach is inductive under IInv.
LEMMA SlotsInductive ==
  ASSUME TradeAssumption, TradeNames, IInv, OneSlotEach, [Next]_vars
  PROVE  OneSlotEach'
<1>1. \A x \in Players : SlotsStep(x)
  BY ChangeTradeSlots, AcceptSlots, OtherSlots DEF Next
<1> QED BY <1>1, TypeParts, SlotsStepKeeps DEF IInv

\* Only an exchange, an event outside the trade, a login and a crash change who holds what.
LEMMA LimitsInductive ==
  ASSUME TradeAssumption, TradeNames, IInv, LimitsKept, [Next]_vars
  PROVE  LimitsKept'
<1>0. ItemTypeOK /\ online \subseteq Players
  BY TypeParts DEF IInv
<1>1. ASSUME online' \subseteq online, \A x \in online' : Held(x)' \subseteq Held(x) PROVE LimitsKept'
  <2>1. ASSUME NEW x \in online' PROVE Carriable(Held(x)')
    <3>1. x \in online /\ Held(x) \in SUBSET Items /\ Held(x)' \subseteq Held(x)
      BY <1>1 DEF Held
    <3>2. Carriable(Held(x))
      BY <3>1 DEF LimitsKept
    <3> QED BY <3>1, <3>2, LessIsCarriable
  <2> QED BY <2>1 DEF LimitsKept, Carriable
<1>2. ASSUME holder' = holder, online' \subseteq online PROVE LimitsKept'
  BY <1>1, <1>2 DEF Held
<1>3. ASSUME NEW p \in Players, OutsideTrade(p) PROVE LimitsKept'
  <2>1. ASSUME NEW k \in Items, Drop(p, k) PROVE LimitsKept'
    <3>1. online' = online /\ \A i \in Items : holder'[i] = IF i = k THEN Gone ELSE holder[i]
      BY <1>0, <2>1 DEF Drop, ItemTypeOK
    <3>2. \A x \in online' : Held(x)' \subseteq Held(x)
      BY <1>0, <3>1 DEF Held, TradeAssumption
    <3> QED BY <1>1, <3>1, <3>2
  <2>2. ASSUME NEW k \in Items, Find(p, k) PROVE LimitsKept'
    <3>1. /\ online' = online /\ p \in online /\ CanStoreItem(holder, p, k)
          /\ \A i \in Items : holder'[i] = IF i = k THEN p ELSE holder[i]
      BY <1>0, <2>2 DEF Find, ItemTypeOK
    <3>2. ASSUME NEW x \in online' PROVE Carriable(Held(x)')
      <4>1. Held(x) \in SUBSET Items /\ Carriable(Held(x)) /\ Held(x) = Of(holder, x)
        BY <3>1 DEF Held, Of, LimitsKept
      <4>2. CASE x = p
        <5>1. Held(x)' = Of(holder, p) \cup {k}
          BY <3>1, <4>2 DEF Held, Of
        <5>2. Carriable(Of(holder, p) \cup {k})
          BY <3>1, <4>1, <4>2, FittingIsCarriable
        <5> QED BY <5>1, <5>2
      <4>3. CASE x # p
        <5>1. Held(x)' \subseteq Held(x)
          BY <3>1, <4>3 DEF Held
        <5> QED BY <4>1, <5>1, LessIsCarriable
      <4> QED BY <4>2, <4>3
    <3> QED BY <3>2 DEF LimitsKept, Carriable
  <2>3. CASE SaveToDB(p) \/ Spend(p)
    BY <1>2, <2>3 DEF SaveToDB, Spend, itemVars
  <2>4. CASE Logout(p)
    BY <1>2, <2>4 DEF Logout, itemVars
  <2>5. CASE Login(p)
    <3>1. PICK is \in SUBSET {i \in Items : saved.holder[i] = p} :
            /\ Carriable(is)
            /\ holder' = [i \in Items |-> IF i \in is THEN p
                                          ELSE IF p \in {holder[i], saved.holder[i]} THEN Gone ELSE holder[i]]
      BY <2>5 DEF Login, LoadInventory
    <3>2. online' = online \cup {p} /\ p \notin online
      BY <2>5 DEF Login
    <3>3. ASSUME NEW x \in online' PROVE Carriable(Held(x)')
      <4>1. CASE x = p
        <5>1. Held(x)' = is
          BY <3>1, <4>1 DEF Held, TradeAssumption
        <5> QED BY <3>1, <5>1
      <4>2. CASE x # p
        <5>1. x \in online /\ x \in Players
          BY <1>0, <3>2, <4>2
        <5>2. Held(x)' \subseteq Held(x)
          BY <3>1, <4>2, <5>1 DEF Held, TradeAssumption
        <5>3. Held(x) \in SUBSET Items /\ Carriable(Held(x))
          BY <5>1 DEF Held, LimitsKept
        <5> QED BY <5>2, <5>3, LessIsCarriable
      <4> QED BY <4>1, <4>2
    <3> QED BY <3>3 DEF LimitsKept, Carriable
  <2>6. ASSUME NEW k \in Items, Bind(p, k) PROVE LimitsKept'
    BY <1>2, <2>6 DEF Bind
  <2> QED BY <1>3, <2>1, <2>2, <2>3, <2>4, <2>5, <2>6 DEF OutsideTrade
<1>4. ASSUME NEW p \in Players, ChangeTrade(p) \/ (HandleAcceptTrade(p) /\ ~AcceptSecond(p))
      PROVE  LimitsKept'
  <2>1. holder' = holder /\ online' = online
    BY <1>4, OnlyTrades DEF Apart, itemVars
  <2> QED BY <1>2, <2>1
<1>5. ASSUME NEW p \in Players, AcceptSecond(p) PROVE LimitsKept'
  BY <1>5, ExchangeKeepsLimits
<1>6. CASE Crash
  BY <1>6 DEF Crash, LimitsKept
<1>7. CASE UNCHANGED vars
  BY <1>2, <1>7 DEF vars, itemVars
<1> QED BY <1>3, <1>4, <1>5, <1>6, <1>7 DEF Next

\* ItemsInv holds in every reachable state.
LEMMA ItemsInvariant == ASSUME TradeAssumption, TradeNames PROVE Spec => []ItemsInv
<1>1. ASSUME Init PROVE ItemsInv
  <2>1. OneSlotEach
    BY <1>1 DEF Init, OneSlotEach, Trading
  <2>2. \A p \in Players : Held(p) = {i \in Items : InitHolder[i] = p}
    BY <1>1 DEF Init, Held
  <2>3. LimitsKept
    BY <1>1, <2>2 DEF Init, LimitsKept, TradeAssumption
  <2> QED BY <2>1, <2>3 DEF ItemsInv
<1>2. IInv /\ ItemsInv /\ [Next]_vars => ItemsInv'
  BY SlotsInductive, LimitsInductive DEF ItemsInv
<1>3. Spec => []IInv
  BY InvariantHolds
<1> QED BY <1>1, <1>2, <1>3, PTL DEF Spec

\* Nobody who is there ever carries more of a limited kind, or more in all, than he may:
\* not after an exchange that went wrong half way, and not after a crash and a login that
\* brings lost items back.
THEOREM LimitsAreKept == ASSUME TradeAssumption, TradeNames PROVE Spec => []LimitsKept
<1>1. ItemsInv => LimitsKept
  BY DEF ItemsInv
<1> QED BY <1>1, ItemsInvariant, PTL

\* Every item on the table is the partner's when the trade is completed, for any limits:
\* no round of moveItems finds that an item does not fit, unless one side gives two or more
\* of a limited kind that are together too many for the other.
THEOREM NothingIsLost == ASSUME TradeAssumption, TradeNames PROVE Spec => NothingLost
<1> DEFINE Kept == \A p \in Players :
                     Trading(p) /\ AcceptSecond(p) /\ ~Together(p, Trader(p)) /\ ~Together(Trader(p), p)
                       => Exchanged(p)
<1>1. ASSUME IInv, ItemsInv PROVE Kept
  <2> SUFFICES ASSUME NEW p \in Players, AcceptSecond(p),
                      ~Together(p, Trader(p)), ~Together(Trader(p), p)
               PROVE  Exchanged(p)
    OBVIOUS
  <2>1. PICK q : q = Trader(p)
    OBVIOUS
  <2>2. holder' = Swapped(p, q) /\ Trading(p) /\ q \in Players /\ q # p /\ Trading(q)
    BY <1>1, <2>1, SecondMoves DEF ItemsInv
  <2>3. \A i \in Given(p) : i \in Items /\ holder[i] = p
    BY <1>1, <2>2, GivenItem DEF ItemsInv
  <2>4. \A i \in Given(q) : i \in Items /\ holder[i] = q
    BY <1>1, <2>2, GivenItem DEF ItemsInv
  <2> QED BY <2>1, <2>2, <2>3, <2>4 DEF Swapped, Exchanged
<1>2. IInv /\ ItemsInv => [Kept]_vars
  BY <1>1
<1>3. Spec => []IInv /\ []ItemsInv
  BY InvariantHolds, ItemsInvariant
<1> QED BY <1>2, <1>3, PTL DEF Spec, NothingLost
=============================================================================
