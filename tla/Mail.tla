---------------------------------- MODULE Mail ----------------------------------
(****************************************************************************)
(* Mails with items, money and cash on delivery: the rows of the characters *)
(* database, the mailboxes that players in the game have in memory, the     *)
(* handlers of MailHandler.cpp and the processing of old mails.             *)
(*                                                                          *)
(* A mail that carries nothing is left out, and a mail from which the last  *)
(* thing was taken is as good as none.  The delay of a delivery only keeps  *)
(* its receiver from taking what is in it, which he need not do here.       *)
(* Every transaction is committed at the end of its handler.  The workers   *)
(* of the database execute them in this order, but later: seen is what they *)
(* have executed, and what a query that is not queued reads.  A crash that  *)
(* loses the last of them finds the database of an earlier state of this    *)
(* specification.                                                           *)
(*                                                                          *)
(* An old mail can be processed while its receiver, between two maps, has   *)
(* it in his mailbox, or by rows that are out of date.  crossed remembers   *)
(* that; nothing but types is claimed after it.                             *)
(****************************************************************************)
EXTENDS Integers, FiniteSets, Sequences, Functions

CONSTANTS
  Players, Items,
  InitBag, InitPurse,
  MAX_MONEY_AMOUNT,
  Word,        \* 2^32
  Postage,     \* what a mail costs, for each item in it or once
  MAX_MAIL_ITEMS,
  Sums,        \* bound: amounts a client puts into the packet of a mail
  CODs,        \* bound: amounts a client asks to be paid on delivery
  Senders,     \* bound: players that send mails
  MailIds,     \* bound: mails there are at any time
  Leavers,     \* bound: players that log out and in
  Travellers,  \* bound: players that change maps
  NoMail, None

ASSUME MailAssumption ==
  /\ MAX_MONEY_AMOUNT \in Nat /\ Word \in Nat \ {0} /\ MAX_MONEY_AMOUNT < Word
  /\ Postage \in Nat /\ MAX_MAIL_ITEMS \in Nat \ {0} /\ Postage * MAX_MAIL_ITEMS < Word
  /\ Sums \subseteq 0..(Word - 1) /\ CODs \subseteq Nat
  /\ IsFiniteSet(Players) /\ IsFiniteSet(Items) /\ IsFiniteSet(MailIds)
  /\ InitBag \in [Players -> SUBSET Items] /\ InitPurse \in [Players -> 0..MAX_MONEY_AMOUNT]
  /\ Senders \subseteq Players /\ Leavers \subseteq Players /\ Travellers \subseteq Players /\ None \notin Players

Money == 0..MAX_MONEY_AMOUNT

\* Where a player is: not connected, between the queries of a login and their results,
\* in the world, or between two maps.
Places == {"offline", "loading", "world", "between"}

\* MailMessageType and MailCheckMask
Kinds == {"normal", "returned", "payment", "auction"}
Mails == [sender : Players \cup {None}, receiver : Players, money : Nat, cod : Nat,
          items : SUBSET Items, kind : Kinds, old : BOOLEAN]  \* old: expire_time has passed

ASSUME MailNames == NoMail \notin Mails

VARIABLES
  where,
  purse, bag,                \* coins and items in memory
  box, deleted,              \* m_mail of each player, and its mails in MAIL_STATE_DELETED
  mail,                      \* tables mail and mail_items, when all that is queued is executed
  seen,                      \* the same tables as they are
  dbPurse, dbBag,            \* tables characters and character_inventory
  sunk, wasted,              \* auxiliary: money and items that are meant to be gone
  crossed                    \* auxiliary: an old mail was changed behind a player's back

memory == <<purse, bag>>
tables == <<dbPurse, dbBag>>
mailVars == <<where, memory, box, deleted, mail, seen, tables, sunk, wasted, crossed>>

Mailbox == [MailIds -> Mails \cup {NoMail}]
Empty == [id \in MailIds |-> NoMail]

MailInit ==
  /\ where = [p \in Players |-> "world"]
  /\ purse = InitPurse /\ bag = InitBag
  /\ box = [p \in Players |-> Empty] /\ deleted = [p \in Players |-> {}]
  /\ mail = Empty /\ seen = Empty
  /\ dbPurse = InitPurse /\ dbBag = InitBag
  /\ sunk = 0 /\ wasted = {} /\ crossed = FALSE

-----------------------------------------------------------------------------
(****************************************************************************)
(* Sending.                                                                 *)
(****************************************************************************)

InWorld == {p \in Players : where[p] = "world"}                 \* ObjectAccessor::FindPlayer
Connected == {p \in Players : where[p] \in {"world", "between"}}  \* FindConnectedPlayer

Carries(m) == m.money > 0 \/ m.items # {}
Tidy(m) == IF Carries(m) THEN m ELSE NoMail

Draft(from, to, coins, onDelivery, things, kind) ==
  [sender |-> from, receiver |-> to, money |-> coins, cod |-> onDelivery,
   items |-> things, kind |-> kind, old |-> FALSE]

Unused ==
  {id \in MailIds : /\ mail[id] = NoMail /\ seen[id] = NoMail
                    /\ \A p \in Players : box[p][id] = NoMail}

\* Drafts are families of mails, of which those are sent that carry something.
Carrying(drafts) == {k \in DOMAIN drafts : Carries(drafts[k])}

Room(drafts) == Cardinality(Carrying(drafts)) <= Cardinality(Unused)

\* The mails of some drafts, under numbers not in use.
New(drafts) ==
  LET ids == CHOOSE f \in Injection(Carrying(drafts), Unused) : TRUE
  IN  [id \in Range(ids) |-> drafts[CHOOSE k \in Carrying(drafts) : ids[k] = id]]

\* MailDraft::SendMailTo: a row for each mail, and a copy in the mailbox of a receiver
\* who is among those found.
Inserted(rows, new) ==
  [id \in MailIds |-> IF id \in DOMAIN new THEN new[id] ELSE rows[id]]
Delivered(boxes, new, found) ==
  [p \in Players |-> [id \in MailIds |->
     IF id \in DOMAIN new /\ new[id].receiver = p /\ p \in found THEN new[id]
     ELSE boxes[p][id]]]

\* Player::ModifyMoney
Debit(coins, amount) == IF coins > amount THEN coins - amount ELSE 0
\* Mutant: whatever the purse can hold.
CreditAll(coins, amount) == coins + amount
Credit(coins, amount) == IF coins < MAX_MONEY_AMOUNT - amount THEN coins + amount ELSE coins

\* Player::SaveInventoryAndGoldToDB: what p has is what the tables say.
SaveInventoryAndGold(p, things, coins) ==
  /\ dbBag' = [dbBag EXCEPT ![p] = things]
  /\ dbPurse' = [dbPurse EXCEPT ![p] = coins]

-----------------------------------------------------------------------------
(****************************************************************************)
(* The handlers.  The sessions of players in the world execute them.        *)
(****************************************************************************)

Cost(things) == IF things = {} THEN Postage ELSE Postage * Cardinality(things)

\* Mutant: a sum that is too large for 32 bits is not noticed.
AffordsWrapped(p, things, sum) == purse[p] >= (Cost(things) + sum) % Word

\* reqmoney is an uint32.
Affords(p, things, sum) ==
  LET reqmoney == (Cost(things) + sum) % Word IN reqmoney >= sum /\ purse[p] >= reqmoney

HandleSendMail(p, q, things, sum, onDelivery) ==
  LET draft == Draft(p, q, sum, IF things = {} THEN 0 ELSE onDelivery, things, "normal")
      new == New(<<draft>>)
      paid == Debit(purse[p], (Cost(things) + sum) % Word)
  IN  /\ p \in InWorld \cap Senders /\ q # p
      /\ things \subseteq bag[p] /\ Cardinality(things) <= MAX_MAIL_ITEMS
      /\ sum = 0 \/ onDelivery = 0
      /\ Carries(draft) /\ Room(<<draft>>) /\ Affords(p, things, sum)
      /\ purse' = [purse EXCEPT ![p] = paid]
      /\ bag' = [bag EXCEPT ![p] = @ \ things]
      /\ mail' = Inserted(mail, new) /\ box' = Delivered(box, new, Connected)
      /\ SaveInventoryAndGold(p, bag[p] \ things, paid)
      /\ sunk' = sunk + Cost(things)
      /\ UNCHANGED <<where, deleted, seen, wasted, crossed>>

Open(p, id) == p \in InWorld /\ box[p][id] # NoMail /\ id \notin deleted[p]

\* A mail with cash on delivery is not deleted.  The others are marked in memory until
\* the mailbox is saved.
HandleMailDelete(p, id) ==
  /\ Open(p, id) /\ box[p][id].cod = 0
  /\ deleted' = [deleted EXCEPT ![p] = @ \cup {id}]
  /\ UNCHANGED <<where, memory, box, mail, seen, tables, sunk, wasted, crossed>>

\* What the auction house sent has no sender it could go back to.
SentBack(m) ==
  IF m.kind = "auction" THEN << >>
  ELSE <<Draft(m.receiver, m.sender, m.money, 0, m.items, "returned")>>

\* The old mail is removed, and a new one, which asks for no money, goes to its sender.
HandleMailReturnToSender(p, id) ==
  LET m == box[p][id]
      new == New(SentBack(m))
  IN  /\ Open(p, id) /\ Room(SentBack(m))
      /\ mail' = Inserted([mail EXCEPT ![id] = NoMail], new)
      /\ box' = Delivered([box EXCEPT ![p][id] = NoMail], new, InWorld)
      /\ sunk' = sunk + (IF m.kind = "auction" THEN m.money ELSE 0)
      /\ wasted' = wasted \cup (IF m.kind = "auction" THEN m.items ELSE {})
      /\ UNCHANGED <<where, memory, deleted, seen, tables, crossed>>

\* Column checked, which tells what was returned or pays; messageType stays.
Checked(m, kind) == IF m.kind = "auction" THEN "auction" ELSE kind

\* CHAR_UPD_MAIL
Overwritten(m, changed) ==
  [m EXCEPT !.money = changed.money, !.cod = changed.cod, !.old = changed.old,
            !.kind = Checked(m, changed.kind)]

\* Player::_SaveMail: UPDATE mail of the one changed mail, DELETE mail_items of what was
\* taken from it, and DELETE of the mails marked as deleted.
_SaveMail(p, rows, id, changed, taken) ==
  [k \in MailIds |->
     IF k \in deleted[p] \/ rows[k] = NoMail THEN NoMail
     ELSE Tidy([(IF k = id THEN Overwritten(rows[k], changed) ELSE rows[k])
                EXCEPT !.items = @ \ taken])]

\* The mailbox of p when it has been saved.
Kept(p, id, changed) ==
  [k \in MailIds |-> IF k \in deleted[p] THEN NoMail
                     ELSE IF k = id THEN Tidy(changed) ELSE box[p][k]]

\* What the mails p has deleted still carried.
DeletedMoney(p) == SumFunction([k \in deleted[p] |-> box[p][k].money])
DeletedGoods(p) == UNION {box[p][k].items : k \in deleted[p]}

\* The mail that takes the money on delivery to the sender.
Payment(m) == IF m.cod > 0 THEN <<Draft(m.receiver, m.sender, m.cod, 0, {}, "payment")>>
              ELSE << >>

\* Mutant: the item stays in the mail.
WithoutStill(m, i) == [m EXCEPT !.cod = 0]
\* Mail::RemoveItem, and COD := 0
Without(m, i) == [m EXCEPT !.items = @ \ {i}, !.cod = 0]

\* Whether the item fits into the inventory is free: if it does not, nothing happens.
HandleMailTakeItem(p, id, i) ==
  LET m == box[p][id]
      rest == Without(m, i)
      new == New(Payment(m))
      paid == Debit(purse[p], m.cod)
  IN  /\ Open(p, id) /\ i \in m.items /\ purse[p] >= m.cod /\ Room(Payment(m))
      /\ purse' = [purse EXCEPT ![p] = paid] /\ bag' = [bag EXCEPT ![p] = @ \cup {i}]
      /\ mail' = Inserted(_SaveMail(p, mail, id, rest, m.items \ rest.items), new)
      /\ box' = Delivered([box EXCEPT ![p] = Kept(p, id, rest)], new, InWorld)
      /\ deleted' = [deleted EXCEPT ![p] = {}]
      /\ SaveInventoryAndGold(p, bag[p] \cup {i}, paid)
      /\ sunk' = sunk + DeletedMoney(p) /\ wasted' = wasted \cup DeletedGoods(p)
      /\ UNCHANGED <<where, seen, crossed>>

\* What does not fit into the purse stays in the mail.
HandleMailTakeMoney(p, id) ==
  LET m == box[p][id]
      rest == [m EXCEPT !.money = 0]
      paid == Credit(purse[p], m.money)
  IN  /\ Open(p, id) /\ m.money > 0 /\ paid # purse[p]
      /\ purse' = [purse EXCEPT ![p] = paid]
      /\ dbPurse' = [dbPurse EXCEPT ![p] = paid]
      /\ mail' = _SaveMail(p, mail, id, rest, {})
      /\ box' = [box EXCEPT ![p] = Kept(p, id, rest)]
      /\ deleted' = [deleted EXCEPT ![p] = {}]
      /\ sunk' = sunk + DeletedMoney(p) /\ wasted' = wasted \cup DeletedGoods(p)
      /\ UNCHANGED <<where, bag, seen, dbBag, crossed>>

-----------------------------------------------------------------------------
(****************************************************************************)
(* Players come and go.                                                     *)
(****************************************************************************)

\* Mutant: an expired mail is loaded like any other.
LoadedAll(p) == box[p]
\* Player::_LoadMail, of what the queries of the login found
Loaded(p) ==
  [id \in MailIds |-> IF box[p][id] # NoMail /\ box[p][id].old THEN NoMail ELSE box[p][id]]

\* The queries of the login; box[p] is their result.
LoginQueries(p) ==
  /\ where[p] = "offline" /\ where' = [where EXCEPT ![p] = "loading"]
  /\ box' = [box EXCEPT ![p] = [id \in MailIds |->
       IF mail[id] # NoMail /\ mail[id].receiver = p THEN mail[id] ELSE NoMail]]
  /\ UNCHANGED <<memory, deleted, mail, seen, tables, sunk, wasted, crossed>>

LoginFromDB(p) ==
  /\ where[p] = "loading" /\ where' = [where EXCEPT ![p] = "world"]
  /\ box' = [box EXCEPT ![p] = Loaded(p)]
  /\ UNCHANGED <<memory, deleted, mail, seen, tables, sunk, wasted, crossed>>

\* All of a player is saved, and his mailbox leaves the memory.
Logout(p) ==
  /\ p \in Connected /\ p \in Leavers
  /\ where' = [where EXCEPT ![p] = "offline"]
  /\ mail' = [id \in MailIds |-> IF id \in deleted[p] THEN NoMail ELSE mail[id]]
  /\ box' = [box EXCEPT ![p] = Empty] /\ deleted' = [deleted EXCEPT ![p] = {}]
  /\ SaveInventoryAndGold(p, bag[p], purse[p])
  /\ sunk' = sunk + DeletedMoney(p) /\ wasted' = wasted \cup DeletedGoods(p)
  /\ UNCHANGED <<memory, seen, crossed>>

\* Player::TeleportTo another map, and the acknowledgement by the client.
TeleportFar(p) ==
  /\ p \in InWorld \cap Travellers /\ where' = [where EXCEPT ![p] = "between"]
  /\ UNCHANGED <<memory, box, deleted, mail, seen, tables, sunk, wasted, crossed>>
WorldportAck(p) ==
  /\ where[p] = "between" /\ where' = [where EXCEPT ![p] = "world"]
  /\ UNCHANGED <<memory, box, deleted, mail, seen, tables, sunk, wasted, crossed>>

-----------------------------------------------------------------------------
(****************************************************************************)
(* ObjectMgr::ReturnOrDeleteOldMails.                                       *)
(****************************************************************************)

\* Time passes for the row and for every copy of it.
Expire(id) ==
  LET Aged(m) == IF m = NoMail THEN m ELSE [m EXCEPT !.old = TRUE] IN
  /\ mail[id] # NoMail /\ ~mail[id].old
  /\ mail' = [mail EXCEPT ![id] = Aged(@)] /\ seen' = [seen EXCEPT ![id] = Aged(@)]
  /\ box' = [p \in Players |-> [box[p] EXCEPT ![id] = Aged(@)]]
  /\ UNCHANGED <<where, memory, deleted, tables, sunk, wasted, crossed>>

\* The workers of the database have executed what was queued.
Execute ==
  /\ seen # mail /\ seen' = mail
  /\ UNCHANGED <<where, memory, box, deleted, mail, tables, sunk, wasted, crossed>>

\* The expired mails the query reads, but those of players that are found in the world.
Old == {id \in MailIds : seen[id] # NoMail /\ seen[id].old /\ seen[id].receiver \notin InWorld}

Returnable(m) == m.items # {} /\ m.kind = "normal"

\* Mutant: the mail still asks for the money on delivery.
ReturnedAsIs(m, read) ==
  [m EXCEPT !.sender = read.receiver, !.receiver = read.sender,
            !.kind = Checked(m, "returned"), !.old = FALSE]
\* CHAR_UPD_MAIL_RETURNED, with the names that were read
Returned(m, read) ==
  [m EXCEPT !.sender = read.receiver, !.receiver = read.sender, !.cod = 0,
            !.kind = Checked(m, "returned"), !.old = FALSE]

\* The rows when the mails `done' of the old ones have been processed.
Processed(done) ==
  [id \in MailIds |-> IF id \notin done \/ mail[id] = NoMail THEN mail[id]
                      ELSE IF Returnable(seen[id]) THEN Returned(mail[id], seen[id])
                      ELSE NoMail]
Deletable(done) == {id \in done : ~Returnable(seen[id])}
MoneyIn(ids) == SumFunction([id \in ids |-> seen[id].money])
GoodsIn(ids) == UNION {seen[id].items : id \in ids}

\* What was read is not what the row is by now.
Outdated(ids) == \E id \in ids : seen[id] # mail[id]
\* A player between two maps is not found in the world, and has his mailbox.
Missed(ids) == \E id \in ids, p \in Players : where[p] = "between" /\ box[p][id] # NoMail

ReturnOrDeleteOldMails ==
  /\ Old # {}
  /\ mail' = Processed(Old)
  /\ sunk' = sunk + MoneyIn(Deletable(Old)) /\ wasted' = wasted \cup GoodsIn(Deletable(Old))
  /\ crossed' = (crossed \/ Outdated(Old) \/ Missed(Old))
  /\ UNCHANGED <<where, memory, box, deleted, seen, tables>>

\* The items that are gone from item_instance can not be loaded from a mail.
Stripped(rows, gone) ==
  [id \in MailIds |-> IF rows[id] = NoMail THEN NoMail
                      ELSE Tidy([rows[id] EXCEPT !.items = @ \ gone])]

\* A crash and a restart: memory is what the database has.  Each statement for an old mail is
\* a transaction, so that only some of the mails may have been processed, and one more may
\* have lost items when it is not deleted yet.
MailCrash ==
  /\ where' = [p \in Players |-> "offline"]
  /\ purse' = dbPurse /\ bag' = dbBag
  /\ box' = [p \in Players |-> Empty] /\ deleted' = [p \in Players |-> {}]
  /\ \E done \in SUBSET Old :
     \E part \in {{}} \cup {{id} : id \in Deletable(Old \ done)} : \E gone \in SUBSET GoodsIn(part) :
       /\ mail' = Stripped(Processed(done), gone)
       /\ sunk' = sunk + MoneyIn(Deletable(done))
       /\ wasted' = wasted \cup GoodsIn(Deletable(done)) \cup gone
       /\ crossed' = (crossed \/ Outdated(done \cup part))
  /\ seen' = mail'
  /\ UNCHANGED tables

MailHandler(p) ==
  \/ \E q \in Players, things \in SUBSET bag[p], sum \in Sums, onDelivery \in CODs :
       HandleSendMail(p, q, things, sum, onDelivery)
  \/ \E id \in MailIds : HandleMailDelete(p, id) \/ HandleMailReturnToSender(p, id)
                         \/ HandleMailTakeMoney(p, id)
  \/ \E id \in MailIds, i \in Items : HandleMailTakeItem(p, id, i)

Moves(p) ==
  LoginQueries(p) \/ LoginFromDB(p) \/ Logout(p) \/ TeleportFar(p) \/ WorldportAck(p)

Time == ReturnOrDeleteOldMails \/ Execute \/ \E id \in MailIds : Expire(id)

\* Type invariant of the mails, the purses and the inventories.
MailTypeOK ==
  /\ where \in [Players -> Places]
  /\ purse \in [Players -> Money] /\ dbPurse \in [Players -> Money]
  /\ bag \in [Players -> SUBSET Items] /\ dbBag \in [Players -> SUBSET Items]
  /\ mail \in Mailbox /\ seen \in Mailbox /\ box \in [Players -> Mailbox]
  /\ deleted \in [Players -> SUBSET MailIds]
  /\ sunk \in Nat /\ wasted \subseteq Items /\ crossed \in BOOLEAN
=============================================================================
