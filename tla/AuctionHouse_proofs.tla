-------------------------- MODULE AuctionHouse_proofs --------------------------
(****************************************************************************)
(* Proofs about AuctionHouse and Mail, for any players, items, purses,      *)
(* prices and bounds.                                                       *)
(*                                                                          *)
(* IInv is inductive, and its parts need each other.  MailInv and           *)
(* AuctionInv say what the mails, mailboxes and auctions are made of, and   *)
(* that the tables have what is in memory.  Matched says that a connected   *)
(* player has in his mailbox what is in the table: without it he could take *)
(* money that is not there.  EachPlaced says that each item is in one       *)
(* place: without it, taking an item from one mail could take it from       *)
(* another row too.  The last part is the sum of all money.                 *)
(*                                                                          *)
(* The action properties follow from IInv before and after a step.  For     *)
(* them the wealth of a player is written as sums over all auctions and     *)
(* mails (WealthIs), and each action of others is shown to leave him        *)
(* Unharmed.                                                                *)
(*                                                                          *)
(* IInv holds up to the first mail that is processed while a player         *)
(* between two maps has it in his mailbox, or by rows that are out of date. *)
(* TypesInv, which holds after that too, carries the types.                 *)
(****************************************************************************)
EXTENDS AuctionHouse, CollectionLemmas

\* Only the auction house sends mails without a sender, and only the mails that players send
\* for the first time ask for money.
Signed(m) ==
  /\ m.kind # "normal" => m.cod = 0
  /\ IF m.kind = "auction" THEN m.cod = 0 ELSE m.sender \in Players

\* The mails the handlers write, and the tables of such mails.
SignedMails == {m \in Mails : Signed(m)}

Rows == [MailIds -> SignedMails \cup {NoMail}]

\* What is marked as deleted is in the mailbox of a connected player, and asks for no money.
DeletedOpen ==
  \A p \in Players : \A id \in deleted[p] :
    p \in Connected /\ box[p][id] # NoMail /\ box[p][id].cod = 0

\* The mails a connected player has are his and as in the database; between the queries of
\* a login and their results, old ones may not be.
BoxesMatch(places, boxes, rows) ==
  \A p \in Players, id \in MailIds : boxes[p][id] # NoMail =>
    /\ places[p] # "offline" /\ boxes[p][id].receiver = p
    /\ rows[id] = boxes[p][id] \/ (places[p] = "loading" /\ boxes[p][id].old)

\* The mailboxes are as the table says.
BoxesTrue == BoxesMatch(where, box, mail)

\* The types of what the handlers read and write.
MailPartsOK ==
  /\ where \in [Players -> Places]
  /\ purse \in [Players -> Money] /\ dbPurse \in [Players -> Money]
  /\ bag \in [Players -> SUBSET Items] /\ dbBag \in [Players -> SUBSET Items]
  /\ mail \in Mailbox /\ box \in [Players -> Mailbox]
  /\ deleted \in [Players -> SUBSET MailIds]
  /\ sunk \in Nat /\ wasted \subseteq Items

\* What the workers of the database have executed are tables of such mails.
SeenInv == seen \in Rows /\ crossed \in BOOLEAN

\* The processing of old mails by the rows as they are: what it does when all that was
\* queued is executed.
OldRows == {id \in MailIds : mail[id] # NoMail /\ mail[id].old /\ mail[id].receiver \notin InWorld}
ReturnedRow(m) == Returned(m, m)
ProcessedRows(done) ==
  [id \in MailIds |-> IF id \notin done THEN mail[id]
                      ELSE IF Returnable(mail[id]) THEN ReturnedRow(mail[id]) ELSE NoMail]
DeletableRows(done) == {id \in done : ~Returnable(mail[id])}
RowsMoney(ids) == SumFunction([id \in ids |-> mail[id].money])
RowsGoods(ids) == UNION {mail[id].items : id \in ids}

\* A handler saves what it changes, so that purses and inventories are as the tables say.
MailInv ==
  /\ MailPartsOK /\ DeletedOpen
  /\ mail \in Rows /\ box \in [Players -> Rows]
  /\ dbPurse = purse /\ dbBag = bag

\* An auction without a bidder has no bid, a bid stays below the price of a buyout, and nobody
\* bids on what he sells.
BidsInRange ==
  \A a \in Live : LET x == auction[a] IN
    IF x.bidder = None THEN x.bid = 0
    ELSE (x.buyout = 0 \/ x.bid < x.buyout) /\ x.bidder # x.owner

\* The auctions are entered and removed in memory and in the table in one step.
AuctionInv ==
  /\ auction \in [AuctionIds -> Auctions \cup {NoAuction}] /\ dbAuction = auction
  /\ BidsInRange

\* A family of mails that are numbered by ids.
Numbered(drafts, new, ids) ==
  /\ ids \in [Carrying(drafts) -> DOMAIN new]
  /\ \A j, k \in Carrying(drafts) : ids[j] = ids[k] => j = k
  /\ \A id \in DOMAIN new : \E k \in Carrying(drafts) : ids[k] = id
  /\ \A k \in Carrying(drafts) : new[ids[k]] = drafts[k]

-----------------------------------------------------------------------------
(****************************************************************************)
(* Mails that are sent, and their types.                                    *)
(****************************************************************************)

\* The mails that are sent are the drafts that carry something, under unused numbers.
LEMMA NewMails ==
  ASSUME NEW drafts, IsFiniteSet(DOMAIN drafts), Room(drafts)
  PROVE  /\ DOMAIN New(drafts) \subseteq Unused
         /\ \E ids : Numbered(drafts, New(drafts), ids)
<1>1. PICK K, U : K = Carrying(drafts) /\ U = Unused
  OBVIOUS
<1>2. IsFiniteSet(K) /\ IsFiniteSet(U)
  BY <1>1, MailAssumption, FS_Subset DEF Carrying, Unused
<1>3. PICK ids : ids = CHOOSE f \in Injection(K, U) : TRUE
  OBVIOUS
<1>4. ids \in Injection(K, U)
  BY <1>1, <1>2, <1>3, NumbersExist DEF Room
<1>5. PICK new : new = [id \in Range(ids) |-> drafts[CHOOSE k \in K : ids[k] = id]]
  OBVIOUS
<1>6. new = New(drafts)
  BY <1>1, <1>3, <1>5 DEF New
<1>7. ids \in [K -> U] /\ \A j, k \in K : ids[j] = ids[k] => j = k
  BY <1>4 DEF Injection, IsInjective
<1>8. DOMAIN new = Range(ids) /\ Range(ids) = {ids[k] : k \in K}
  BY <1>5, <1>7 DEF Range
<1>9. ASSUME NEW k \in K PROVE new[ids[k]] = drafts[k]
  <2>1. ids[k] \in Range(ids)
    BY <1>8
  <2>2. (CHOOSE j \in K : ids[j] = ids[k]) = k
    BY <1>7
  <2> QED BY <1>5, <2>1, <2>2
<1>10. DOMAIN new \subseteq U
  BY <1>7, <1>8
<1>11. /\ ids \in [K -> DOMAIN new]
       /\ \A id \in DOMAIN new : \E k \in K : ids[k] = id
  BY <1>7, <1>8
<1>12. Numbered(drafts, new, ids)
  BY <1>1, <1>7, <1>9, <1>11 DEF Numbered
<1> QED BY <1>1, <1>6, <1>10, <1>12

\* What holds of the drafts holds of the mails.
LEMMA NewIn ==
  ASSUME NEW drafts, IsFiniteSet(DOMAIN drafts), Room(drafts), NEW S, \A k \in DOMAIN drafts : drafts[k] \in S
  PROVE  \A id \in DOMAIN New(drafts) : id \in Unused /\ New(drafts)[id] \in S
<1>1. PICK ids : Numbered(drafts, New(drafts), ids)
  BY NewMails
<1> QED BY <1>1, NewMails DEF Numbered, Carrying

\* Tables and mailboxes stay what they are when mails are written and delivered.
LEMMA InsertedType ==
  ASSUME NEW rows \in Rows, NEW new, \A id \in DOMAIN new : new[id] \in SignedMails
  PROVE  Inserted(rows, new) \in Rows
BY DEF Rows, Inserted

LEMMA DeliveredType ==
  ASSUME NEW boxes \in [Players -> Rows], NEW new, \A id \in DOMAIN new : new[id] \in SignedMails,
         NEW found
  PROVE  Delivered(boxes, new, found) \in [Players -> Rows]
BY DEF Rows, Delivered

\* A draft is a mail.
LEMMA DraftType ==
  ASSUME NEW from \in Players \cup {None}, NEW to \in Players, NEW coins \in Nat, NEW cod \in Nat,
         NEW things \in SUBSET Items, NEW kind \in Kinds,
         kind # "normal" => cod = 0, kind # "auction" => from \in Players
  PROVE  Draft(from, to, coins, cod, things, kind) \in SignedMails
BY DEF Draft, SignedMails, Signed, Mails

\* The fields of a mail.
LEMMA MailFields ==
  ASSUME NEW m \in SignedMails
  PROVE  /\ m.sender \in Players \cup {None} /\ m.receiver \in Players /\ m.money \in Nat
         /\ m.cod \in Nat /\ m.items \in SUBSET Items /\ m.kind \in Kinds /\ m.old \in BOOLEAN
         /\ m.kind # "auction" => m.sender \in Players
         /\ m.kind = "auction" => m.cod = 0
         /\ m # NoMail /\ m \in Mails
BY MailNames DEF SignedMails, Signed, Mails

\* Only what a player sends for the first time asks for money.
LEMMA AsksOnce ==
  ASSUME NEW m \in SignedMails
  PROVE  m.kind # "normal" => m.cod = 0
BY DEF SignedMails, Signed

LEMMA MailboxType ==
  ASSUME NEW rows \in Rows
  PROVE  rows \in Mailbox /\ \A id \in MailIds : rows[id] # NoMail => rows[id] \in SignedMails
BY DEF Rows, SignedMails, Mailbox

\* What is paid and received.
LEMMA PurseTypes ==
  ASSUME NEW coins \in Money, NEW amount \in Nat
  PROVE  Debit(coins, amount) \in Money /\ Credit(coins, amount) \in Money
BY MailAssumption DEF Money, Debit, Credit

\* The postage of as many items as a mail can have fits into a word.
LEMMA CostType ==
  ASSUME NEW things \in SUBSET Items
  PROVE  Cost(things) \in Nat /\ (Cardinality(things) <= MAX_MAIL_ITEMS => Cost(things) < Word)
<1>1. PICK n : n = Cardinality(things)
  OBVIOUS
<1>2. n \in Nat /\ Postage \in Nat /\ Word \in Nat /\ MAX_MAIL_ITEMS \in Nat \ {0} /\ Postage * MAX_MAIL_ITEMS < Word
  BY <1>1, MailAssumption, FS_Subset, FS_CardinalityType
<1>3. Postage * n \in Nat
  BY <1>2
<1>4. n <= MAX_MAIL_ITEMS => Postage * n <= Postage * MAX_MAIL_ITEMS
  BY <1>2
<1>5. Postage * MAX_MAIL_ITEMS \in Nat /\ Postage <= Postage * MAX_MAIL_ITEMS
  BY <1>2
<1>6. Cost(things) = IF things = {} THEN Postage ELSE Postage * n
  BY <1>1 DEF Cost
<1>7. CASE things = {}
  BY <1>2, <1>5, <1>6, <1>7
<1>8. CASE things # {}
  BY <1>1, <1>2, <1>3, <1>4, <1>5, <1>6, <1>8
<1> QED BY <1>7, <1>8

\* The money of the mails a player has deleted, and of old mails.
LEMMA DeletedTypes ==
  ASSUME MailInv, NEW p \in Players
  PROVE  /\ DeletedMoney(p) \in Nat /\ DeletedGoods(p) \subseteq Items
         /\ deleted[p] \subseteq MailIds /\ IsFiniteSet(deleted[p])
         /\ \A id \in deleted[p] : box[p][id] \in SignedMails
<1>1. deleted[p] \subseteq MailIds /\ IsFiniteSet(deleted[p])
  BY MailAssumption, FS_Subset DEF MailInv, MailPartsOK
<1>2. \A id \in deleted[p] : box[p][id] \in SignedMails
  BY <1>1, MailboxType DEF MailInv, DeletedOpen
<1>3. PICK f, S : S = deleted[p] /\ f = [k \in deleted[p] |-> box[p][k].money]
  OBVIOUS
<1>4. \A k \in S : f[k] \in Nat
  BY <1>2, <1>3, MailFields
<1>5. SumFunctionOnSet(f, S) \in Nat /\ DOMAIN f = S
  BY <1>1, <1>3, <1>4, SumNat
<1>6. DeletedMoney(p) = SumFunctionOnSet(f, S)
  BY <1>3, <1>5 DEF DeletedMoney, SumFunction
<1>7. DeletedGoods(p) \subseteq Items
  BY <1>2, MailFields DEF DeletedGoods
<1> QED BY <1>1, <1>2, <1>5, <1>6, <1>7

LEMMA OldTypes ==
  ASSUME MailInv, NEW done \in SUBSET OldRows
  PROVE  /\ IsFiniteSet(done) /\ DeletableRows(done) \subseteq done
         /\ \A id \in done : id \in MailIds /\ mail[id] \in SignedMails
         /\ RowsMoney(DeletableRows(done)) \in Nat /\ RowsGoods(DeletableRows(done)) \subseteq Items
         /\ ProcessedRows(done) \in Rows
         /\ \A id \in done : Returnable(mail[id]) => ReturnedRow(mail[id]) \in SignedMails
<1>1. done \subseteq MailIds /\ IsFiniteSet(done) /\ DeletableRows(done) \subseteq done
  BY MailAssumption, FS_Subset DEF OldRows, DeletableRows
<1>2. \A id \in done : id \in MailIds /\ mail[id] \in SignedMails
  BY <1>1, MailboxType DEF MailInv, OldRows
<1>3. PICK f, S : S = DeletableRows(done) /\ f = [id \in DeletableRows(done) |-> mail[id].money]
  OBVIOUS
<1>4. \A k \in S : f[k] \in Nat
  BY <1>1, <1>2, <1>3, MailFields
<1>5. IsFiniteSet(S) /\ DOMAIN f = S
  BY <1>1, <1>3, FS_Subset
<1>6. RowsMoney(DeletableRows(done)) = SumFunctionOnSet(f, S)
  BY <1>3, <1>5 DEF RowsMoney, SumFunction
<1>7. RowsMoney(DeletableRows(done)) \in Nat
  BY <1>4, <1>5, <1>6, SumNat
<1>8. RowsGoods(DeletableRows(done)) \subseteq Items
  BY <1>1, <1>2, MailFields DEF RowsGoods
<1>9. ASSUME NEW id \in done, Returnable(mail[id]) PROVE ReturnedRow(mail[id]) \in SignedMails
  <2>1. PICK m \in SignedMails : m = mail[id]
    BY <1>2
  <2>2. m.kind = "normal" /\ m.sender \in Players /\ m.receiver \in Players /\ m \in Mails
    BY <1>9, <2>1, MailFields, AsksOnce DEF Returnable
  <2>3. PICK r : r = ReturnedRow(m)
    OBVIOUS
  <2>4. r \in Mails /\ r.kind = "returned" /\ r.cod = 0 /\ r.sender = m.receiver
    BY <2>2, <2>3 DEF ReturnedRow, Returned, Checked, Mails, Kinds
  <2> QED BY <2>1, <2>2, <2>3, <2>4 DEF SignedMails, Signed
<1>10. ASSUME NEW id \in MailIds PROVE ProcessedRows(done)[id] \in SignedMails \cup {NoMail}
  BY <1>9 DEF ProcessedRows, MailInv, Rows
<1>11. ProcessedRows(done) \in Rows
  BY <1>10 DEF ProcessedRows, Rows
<1> QED BY <1>1, <1>2, <1>7, <1>8, <1>9, <1>11

\* A mail that is returned.
LEMMA ReturnedType ==
  ASSUME NEW m \in SignedMails, NEW read \in SignedMails, Returnable(read)
  PROVE  /\ Returned(m, read) \in SignedMails
         /\ Returned(m, read).kind = "auction" <=> m.kind = "auction"
<1>1. m \in Mails /\ m.kind \in Kinds /\ read.sender \in Players /\ read.receiver \in Players
  BY MailFields DEF Returnable
<1>2. PICK kind : kind = Checked(m, "returned")
  OBVIOUS
<1>3. kind \in Kinds /\ kind # "normal" /\ (kind = "auction" <=> m.kind = "auction")
  BY <1>2 DEF Checked, Kinds
<1>4. PICK r : r = [m EXCEPT !.sender = read.receiver, !.receiver = read.sender, !.cod = 0,
                             !.kind = kind, !.old = FALSE]
  OBVIOUS
<1>5. r \in Mails /\ r.kind = kind /\ r.cod = 0 /\ r.sender = read.receiver
  BY <1>1, <1>3, <1>4 DEF Mails
<1>6. r = Returned(m, read)
  BY <1>2, <1>4 DEF Returned
<1> QED BY <1>1, <1>3, <1>5, <1>6 DEF SignedMails, Signed

\* The old mails the queries read, and the rows when some of them have been processed.
LEMMA SeenTypes ==
  ASSUME MailInv, SeenInv, NEW done \in SUBSET Old
  PROVE  /\ \A id \in done : id \in MailIds /\ seen[id] \in SignedMails
         /\ MoneyIn(Deletable(done)) \in Nat
         /\ \A ids \in SUBSET done : GoodsIn(ids) \subseteq Items
         /\ Deletable(done) \subseteq done
         /\ Processed(done) \in Rows
<1>1. done \subseteq MailIds /\ Deletable(done) \subseteq done /\ IsFiniteSet(Deletable(done))
  BY MailAssumption, FS_Subset DEF Old, Deletable
<1>2. \A id \in done : id \in MailIds /\ seen[id] \in SignedMails
  BY <1>1, MailboxType DEF SeenInv, Old
<1>3. PICK f, S : S = Deletable(done) /\ f = [id \in Deletable(done) |-> seen[id].money]
  OBVIOUS
<1>4. (\A k \in S : f[k] \in Nat) /\ IsFiniteSet(S) /\ DOMAIN f = S
  BY <1>1, <1>2, <1>3, MailFields
<1>5. MoneyIn(Deletable(done)) = SumFunctionOnSet(f, S)
  BY <1>3, <1>4 DEF MoneyIn, SumFunction
<1>6. MoneyIn(Deletable(done)) \in Nat
  BY <1>4, <1>5, SumNat
<1>7. \A ids \in SUBSET done : GoodsIn(ids) \subseteq Items
  BY <1>2, MailFields DEF GoodsIn
<1>8. ASSUME NEW id \in MailIds PROVE Processed(done)[id] \in SignedMails \cup {NoMail}
  <2>1. CASE id \notin done \/ mail[id] = NoMail
    BY <2>1 DEF Processed, MailInv, Rows
  <2>2. CASE id \in done /\ mail[id] # NoMail
    <3>1. mail[id] \in SignedMails /\ seen[id] \in SignedMails
      BY <1>2, <2>2, MailboxType DEF MailInv
    <3>2. Processed(done)[id] = IF Returnable(seen[id]) THEN Returned(mail[id], seen[id]) ELSE NoMail
      BY <2>2 DEF Processed
    <3> QED BY <3>1, <3>2, ReturnedType
  <2> QED BY <2>1, <2>2
<1>9. Processed(done) \in Rows
  BY <1>8 DEF Processed, Rows
<1> QED BY <1>1, <1>2, <1>6, <1>7, <1>9

\* If the rows are as the queries read them, it is the processing of the rows.
LEMMA TrueOld ==
  ASSUME NEW done \in SUBSET Old, ~Outdated(done)
  PROVE  /\ done \in SUBSET OldRows /\ Processed(done) = ProcessedRows(done)
         /\ MoneyIn(Deletable(done)) = RowsMoney(DeletableRows(done))
         /\ GoodsIn(Deletable(done)) = RowsGoods(DeletableRows(done))
<1>1. \A id \in done : seen[id] = mail[id]
  BY DEF Outdated
<1>2. \A id \in done : id \in MailIds /\ mail[id] # NoMail /\ mail[id].old /\ mail[id].receiver \notin InWorld
  BY <1>1 DEF Old
<1>3. done \in SUBSET OldRows
  BY <1>2 DEF OldRows
<1>4. \A id \in MailIds : Processed(done)[id] = ProcessedRows(done)[id]
  BY <1>1, <1>2 DEF Processed, ProcessedRows, ReturnedRow
<1>5. Processed(done) = ProcessedRows(done)
  <2>1. PICK next, other : next = Processed(done) /\ other = ProcessedRows(done)
    OBVIOUS
  <2>2. next = [id \in MailIds |-> next[id]] /\ other = [id \in MailIds |-> other[id]]
    BY <2>1 DEF Processed, ProcessedRows
  <2> QED BY <1>4, <2>1, <2>2
<1>6. PICK D : D = Deletable(done)
  OBVIOUS
<1>7. D = DeletableRows(done) /\ \A id \in D : seen[id] = mail[id]
  BY <1>1, <1>6 DEF Deletable, DeletableRows
<1>8. [id \in D |-> seen[id].money] = [id \in D |-> mail[id].money]
  BY <1>7
<1>9. MoneyIn(D) = RowsMoney(D)
  BY <1>8 DEF MoneyIn, RowsMoney
<1>10. GoodsIn(D) = RowsGoods(D)
  <2>1. \A i : i \in GoodsIn(D) <=> i \in RowsGoods(D)
    BY <1>7 DEF GoodsIn, RowsGoods
  <2> QED BY <2>1
<1> QED BY <1>3, <1>5, <1>6, <1>7, <1>9, <1>10

\* A row whose lost items can not be loaded, and the table of such rows.
LEMMA StrippedRow ==
  ASSUME NEW rows \in Rows, NEW gone, NEW k \in MailIds, rows[k] # NoMail
  PROVE  \E r \in SignedMails :
           /\ Stripped(rows, gone)[k] = Tidy(r) /\ r.items = rows[k].items \ gone
           /\ r.money = rows[k].money /\ r.cod = rows[k].cod /\ r.kind = rows[k].kind
           /\ r.sender = rows[k].sender /\ r.receiver = rows[k].receiver
<1>1. PICK m \in SignedMails : m = rows[k]
  BY MailboxType
<1>2. /\ m \in Mails /\ (m.kind # "normal" => m.cod = 0) /\ (m.kind = "auction" => m.cod = 0)
      /\ (m.kind # "auction" => m.sender \in Players)
  BY MailFields, AsksOnce
<1>3. PICK r : r = [m EXCEPT !.items = @ \ gone]
  OBVIOUS
<1>4. /\ r \in Mails /\ r.items = m.items \ gone /\ r.money = m.money /\ r.cod = m.cod /\ r.kind = m.kind
      /\ r.sender = m.sender /\ r.receiver = m.receiver
  BY <1>2, <1>3 DEF Mails
<1>5. r \in SignedMails
  BY <1>2, <1>4 DEF SignedMails, Signed
<1>6. Stripped(rows, gone)[k] = Tidy(r)
  BY <1>1, <1>3 DEF Stripped
<1> QED BY <1>1, <1>4, <1>5, <1>6

LEMMA StrippedType ==
  ASSUME NEW rows \in Rows, NEW gone
  PROVE  Stripped(rows, gone) \in Rows
<1>1. ASSUME NEW k \in MailIds PROVE Stripped(rows, gone)[k] \in SignedMails \cup {NoMail}
  <2>1. CASE rows[k] = NoMail
    BY <2>1 DEF Stripped
  <2>2. CASE rows[k] # NoMail
    <3>1. PICK r \in SignedMails : Stripped(rows, gone)[k] = Tidy(r)
      BY <2>2, StrippedRow
    <3> QED BY <3>1 DEF Tidy
  <2> QED BY <2>1, <2>2
<1> QED BY <1>1 DEF Stripped, Rows

\* The parts of MailInv after a step.
LEMMA MailInvParts ==
  ASSUME where' \in [Players -> Places], purse' \in [Players -> Money], bag' \in [Players -> SUBSET Items],
         dbPurse' = purse', dbBag' = bag', mail' \in Rows, box' \in [Players -> Rows],
         deleted' \in [Players -> SUBSET MailIds], sunk' \in Nat, wasted' \subseteq Items, DeletedOpen'
  PROVE  MailInv'
<1>1. mail' \in Mailbox /\ box' \in [Players -> Mailbox]
  BY MailboxType
<1> QED BY <1>1 DEF MailInv, MailPartsOK

-----------------------------------------------------------------------------
(****************************************************************************)
(* The types, action by action.                                             *)
(****************************************************************************)

\* A delivery changes no mail a player has.
LEMMA DeliveredOpen ==
  ASSUME MailInv, NEW boxes, NEW new, NEW found, \A id \in DOMAIN new : id \in Unused,
         \A q \in Players : \A k \in deleted[q] : boxes[q][k] = box[q][k],
         box' = Delivered(boxes, new, found), where' = where, deleted' = deleted
  PROVE  DeletedOpen'
<1> SUFFICES ASSUME NEW q \in Players, NEW k \in deleted'[q]
             PROVE  q \in Connected' /\ box'[q][k] # NoMail /\ box'[q][k].cod = 0
  BY DEF DeletedOpen
<1>1. k \in MailIds /\ q \in Connected /\ box[q][k] # NoMail /\ box[q][k].cod = 0 /\ boxes[q][k] = box[q][k]
  BY DEF MailInv, MailPartsOK, DeletedOpen
<1>2. k \notin DOMAIN new
  BY <1>1 DEF Unused
<1>3. box'[q][k] = boxes[q][k]
  BY <1>1, <1>2 DEF Delivered
<1> QED BY <1>1, <1>3 DEF Connected

\* The mails of drafts, under numbers nobody uses.
LEMMA NewTypes ==
  ASSUME NEW drafts, IsFiniteSet(DOMAIN drafts), Room(drafts),
         \A k \in DOMAIN drafts : drafts[k] \in SignedMails
  PROVE  \A id \in DOMAIN New(drafts) : id \in Unused /\ New(drafts)[id] \in SignedMails
BY NewIn

\* HandleSendMail.
LEMMA SendType ==
  ASSUME MailInv, NEW p \in Players, NEW q \in Players, NEW things \in SUBSET bag[p],
         NEW sum \in Sums, NEW onDelivery \in CODs, HandleSendMail(p, q, things, sum, onDelivery)
  PROVE  MailInv'
<1> DEFINE draft == Draft(p, q, sum, IF things = {} THEN 0 ELSE onDelivery, things, "normal")
<1>1. /\ sum \in Nat /\ onDelivery \in Nat /\ things \in SUBSET Items /\ Cost(things) \in Nat
      /\ bag \in [Players -> SUBSET Items] /\ purse \in [Players -> Money]
      /\ dbPurse = purse /\ dbBag = bag
  BY MailAssumption, CostType DEF MailInv, MailPartsOK
<1>2. draft \in SignedMails
  BY <1>1, DraftType DEF Kinds
<1>3. PICK drafts : drafts = <<draft>>
  OBVIOUS
<1>4. IsFiniteSet(DOMAIN drafts) /\ \A k \in DOMAIN drafts : drafts[k] \in SignedMails
  BY <1>2, <1>3, ShortDomains
<1>5. PICK new : new = New(drafts)
  OBVIOUS
<1>6. Room(drafts) /\ mail' = Inserted(mail, new) /\ box' = Delivered(box, new, Connected)
  BY <1>3, <1>5 DEF HandleSendMail
<1>7. \A id \in DOMAIN new : id \in Unused /\ new[id] \in SignedMails
  BY <1>4, <1>5, <1>6, NewTypes
<1>8. mail' \in Rows /\ box' \in [Players -> Rows]
  BY <1>6, <1>7, InsertedType, DeliveredType DEF MailInv
<1>9. PICK paid : paid = Debit(purse[p], (Cost(things) + sum) % Word)
  OBVIOUS
<1>10. (Cost(things) + sum) % Word \in Nat
  BY <1>1, MailAssumption
<1>11. paid \in Money
  BY <1>1, <1>9, <1>10, PurseTypes
<1>12. /\ purse' = [purse EXCEPT ![p] = paid] /\ bag' = [bag EXCEPT ![p] = @ \ things]
       /\ dbPurse' = [dbPurse EXCEPT ![p] = paid] /\ dbBag' = [dbBag EXCEPT ![p] = bag[p] \ things]
       /\ sunk' = sunk + Cost(things) /\ where' = where /\ deleted' = deleted /\ wasted' = wasted
  BY <1>9 DEF HandleSendMail, SaveInventoryAndGold
<1>13. purse' \in [Players -> Money] /\ dbPurse' = purse' /\ bag' \in [Players -> SUBSET Items] /\ dbBag' = bag'
  BY <1>1, <1>11, <1>12
<1>14. sunk' \in Nat /\ wasted' \subseteq Items /\ where' \in [Players -> Places] /\ deleted' \in [Players -> SUBSET MailIds]
  BY <1>1, <1>12 DEF MailInv, MailPartsOK
<1>15. DeletedOpen'
  BY <1>6, <1>7, <1>12, DeliveredOpen
<1> QED BY <1>8, <1>13, <1>14, <1>15, MailInvParts

\* HandleMailDelete.
LEMMA DeleteType ==
  ASSUME MailInv, NEW p \in Players, NEW id \in MailIds, HandleMailDelete(p, id)
  PROVE  MailInv'
<1>1. /\ p \in InWorld /\ box[p][id] # NoMail /\ deleted' = [deleted EXCEPT ![p] = @ \cup {id}]
      /\ UNCHANGED <<where, purse, bag, box, mail, dbPurse, dbBag, sunk, wasted>>
  BY DEF HandleMailDelete, Open, memory, tables
<1>2. deleted' \in [Players -> SUBSET MailIds]
  BY <1>1 DEF MailInv, MailPartsOK
<1>3. DeletedOpen'
  <2>1. box[p][id].cod = 0
    BY DEF HandleMailDelete
  <2>2. ASSUME NEW q \in Players, NEW k \in deleted'[q] PROVE k \in deleted[q] \/ (q = p /\ k = id)
    BY <1>1, <2>2 DEF MailInv, MailPartsOK
  <2> QED BY <1>1, <2>1, <2>2 DEF MailInv, DeletedOpen, Connected, InWorld
<1> QED BY <1>1, <1>2, <1>3 DEF MailInv, MailPartsOK

\* A mail that a player can open.
LEMMA OpenMail ==
  ASSUME MailInv, NEW p \in Players, NEW id \in MailIds, Open(p, id)
  PROVE  box[p][id] \in SignedMails /\ where[p] = "world" /\ id \notin deleted[p]
BY MailboxType DEF MailInv, Open, InWorld

\* HandleMailReturnToSender.
LEMMA SentBackTypes ==
  ASSUME NEW m \in SignedMails
  PROVE  IsFiniteSet(DOMAIN SentBack(m)) /\ \A k \in DOMAIN SentBack(m) : SentBack(m)[k] \in SignedMails
<1>1. CASE m.kind = "auction"
  BY <1>1, ShortDomains DEF SentBack
<1>2. CASE m.kind # "auction"
  <2>1. PICK d : d = Draft(m.receiver, m.sender, m.money, 0, m.items, "returned")
    OBVIOUS
  <2>2. d \in SignedMails
    BY <1>2, <2>1, MailFields, DraftType DEF Kinds
  <2> QED BY <1>2, <2>1, <2>2, ShortDomains DEF SentBack
<1> QED BY <1>1, <1>2

LEMMA ReturnType ==
  ASSUME MailInv, NEW p \in Players, NEW id \in MailIds, HandleMailReturnToSender(p, id)
  PROVE  MailInv'
<1>1. PICK m : m = box[p][id]
  OBVIOUS
<1>2. Open(p, id)
  BY DEF HandleMailReturnToSender
<1>3. m \in SignedMails /\ id \notin deleted[p]
  BY <1>1, <1>2, OpenMail
<1>4. PICK drafts : drafts = SentBack(m)
  OBVIOUS
<1>5. PICK new : new = New(drafts)
  OBVIOUS
<1>6. PICK rest : rest = [box EXCEPT ![p][id] = NoMail]
  OBVIOUS
<1>7. /\ Room(drafts)
      /\ mail' = Inserted([mail EXCEPT ![id] = NoMail], new) /\ box' = Delivered(rest, new, InWorld)
      /\ sunk' = sunk + (IF m.kind = "auction" THEN m.money ELSE 0)
      /\ wasted' = wasted \cup (IF m.kind = "auction" THEN m.items ELSE {})
      /\ UNCHANGED <<where, purse, bag, deleted, dbPurse, dbBag>>
  BY <1>1, <1>4, <1>5, <1>6 DEF HandleMailReturnToSender, memory, tables
<1>8. IsFiniteSet(DOMAIN drafts) /\ \A k \in DOMAIN drafts : drafts[k] \in SignedMails
  BY <1>3, <1>4, SentBackTypes
<1>9. \A k \in DOMAIN new : k \in Unused /\ new[k] \in SignedMails
  BY <1>5, <1>7, <1>8, NewTypes
<1>10. rest \in [Players -> Rows] /\ [mail EXCEPT ![id] = NoMail] \in Rows
  BY <1>6 DEF MailInv, Rows
<1>11. mail' \in Rows /\ box' \in [Players -> Rows]
  BY <1>7, <1>9, <1>10, InsertedType, DeliveredType
<1>12. sunk' \in Nat /\ wasted' \subseteq Items
  BY <1>3, <1>7, MailFields DEF MailInv, MailPartsOK
<1>13. \A q \in Players : \A k \in deleted[q] : rest[q][k] = box[q][k]
  BY <1>3, <1>6 DEF MailInv, MailPartsOK, Rows
<1>14. DeletedOpen'
  BY <1>7, <1>9, <1>13, DeliveredOpen
<1> QED BY <1>7, <1>11, <1>12, <1>14, MailInvParts DEF MailInv, MailPartsOK

\* What is left of a mail, when it is saved.
LEMMA SavedTypes ==
  ASSUME MailInv, NEW p \in Players, NEW id \in MailIds, NEW rest \in SignedMails
  PROVE  Kept(p, id, rest) \in Rows
<1>1. ASSUME NEW k \in MailIds PROVE Kept(p, id, rest)[k] \in SignedMails \cup {NoMail}
  <2>1. Tidy(rest) \in SignedMails \cup {NoMail}
    BY DEF Tidy
  <2>2. box[p][k] \in SignedMails \cup {NoMail}
    BY DEF MailInv, Rows
  <2> QED BY <2>1, <2>2 DEF Kept
<1> QED BY <1>1 DEF Kept, Rows

\* A row that is saved: that of the changed mail gets what the mailbox has, but for its names.
SavedMail(k, id, rest, taken) ==
  [(IF k = id THEN Overwritten(mail[k], rest) ELSE mail[k]) EXCEPT !.items = @ \ taken]

IsSaved(p, k, id, rest, taken, r) ==
  /\ r \in Mails
  /\ _SaveMail(p, mail, id, rest, taken)[k] = Tidy(r)
  /\ r.items = mail[k].items \ taken
  /\ r.sender = mail[k].sender
  /\ r.receiver = mail[k].receiver
  /\ k # id => (r.money = mail[k].money /\ r.cod = mail[k].cod /\ r.kind = mail[k].kind)
  /\ k = id => (/\ r.money = rest.money /\ r.cod = rest.cod /\ r.old = rest.old
                /\ r.kind = Checked(mail[k], rest.kind))

LEMMA SavedRow ==
  ASSUME MailInv, NEW p \in Players, NEW id, NEW rest \in SignedMails, NEW taken,
         NEW k \in MailIds, k \notin deleted[p], mail[k] # NoMail
  PROVE  IsSaved(p, k, id, rest, taken, SavedMail(k, id, rest, taken))
<1> DEFINE r == SavedMail(k, id, rest, taken)
<1>1. PICK m \in Mails : m = mail[k]
  BY MailboxType, MailFields DEF MailInv
<1>2. CASE k # id
  <2>1. r = [m EXCEPT !.items = @ \ taken]
    BY <1>1, <1>2 DEF SavedMail
  <2>2. r \in Mails /\ r.items = m.items \ taken /\ r.sender = m.sender /\ r.receiver = m.receiver
        /\ r.money = m.money /\ r.cod = m.cod /\ r.kind = m.kind
    BY <2>1 DEF Mails
  <2>3. _SaveMail(p, mail, id, rest, taken)[k] = Tidy(r)
    BY <1>1, <1>2, <2>1 DEF _SaveMail
  <2> QED BY <1>1, <1>2, <2>2, <2>3 DEF IsSaved
<1>3. CASE k = id
  <2>1. PICK kind : kind = Checked(m, rest.kind)
    OBVIOUS
  <2>2. kind \in Kinds /\ rest.money \in Nat /\ rest.cod \in Nat /\ rest.old \in BOOLEAN
    BY <2>1, MailFields DEF Checked, Kinds
  <2>3. PICK o : o = [m EXCEPT !.money = rest.money, !.cod = rest.cod, !.old = rest.old, !.kind = kind]
    OBVIOUS
  <2>4. /\ o \in Mails /\ o.money = rest.money /\ o.cod = rest.cod /\ o.old = rest.old /\ o.kind = kind
        /\ o.items = m.items /\ o.sender = m.sender /\ o.receiver = m.receiver
    BY <2>2, <2>3 DEF Mails
  <2>5. Overwritten(mail[k], rest) = o
    BY <1>1, <2>1, <2>3 DEF Overwritten
  <2>6. r = [o EXCEPT !.items = @ \ taken]
    BY <1>3, <2>5 DEF SavedMail
  <2>7. /\ r \in Mails /\ r.money = rest.money /\ r.cod = rest.cod /\ r.old = rest.old /\ r.kind = kind
        /\ r.items = m.items \ taken /\ r.sender = m.sender /\ r.receiver = m.receiver
    BY <2>4, <2>6 DEF Mails
  <2>8. _SaveMail(p, mail, id, rest, taken)[k] = Tidy(r)
    BY <1>3, <2>5, <2>6 DEF _SaveMail
  <2> QED BY <1>1, <1>3, <2>1, <2>7, <2>8 DEF IsSaved
<1> QED BY <1>2, <1>3

\* Mails with the same fields.
LEMMA SameMail ==
  ASSUME NEW m \in Mails, NEW r \in Mails, r.sender = m.sender, r.receiver = m.receiver, r.money = m.money,
         r.cod = m.cod, r.items = m.items, r.kind = m.kind, r.old = m.old
  PROVE  r = m
BY DEF Mails

\* _SaveMail changes the cash on delivery of a row to what the mailbox has.
LEMMA SavedRows ==
  ASSUME MailInv, NEW p \in Players, NEW id \in MailIds, NEW rest \in SignedMails, NEW taken,
         rest.cod = 0 \/ mail[id] = NoMail \/ mail[id].kind # "auction"
  PROVE  _SaveMail(p, mail, id, rest, taken) \in Rows
<1>1. ASSUME NEW k \in MailIds PROVE _SaveMail(p, mail, id, rest, taken)[k] \in SignedMails \cup {NoMail}
  <2>1. CASE k \in deleted[p] \/ mail[k] = NoMail
    BY <2>1 DEF _SaveMail
  <2>2. CASE ~(k \in deleted[p] \/ mail[k] = NoMail)
    <3>1. PICK m \in SignedMails : m = mail[k]
      BY <2>2, MailboxType DEF MailInv
    <3>2. PICK r \in Mails :
            /\ _SaveMail(p, mail, id, rest, taken)[k] = Tidy(r) /\ r.sender = m.sender
            /\ k # id => (r.cod = m.cod /\ r.kind = m.kind)
            /\ k = id => (r.cod = rest.cod /\ r.kind = Checked(m, rest.kind))
      <4>1. PICK r : IsSaved(p, k, id, rest, taken, r)
        BY <2>2, SavedRow
      <4> QED BY <3>1, <4>1 DEF IsSaved
    <3>3. /\ m.kind # "normal" => m.cod = 0
          /\ m.kind # "auction" => m.sender \in Players
          /\ rest.kind # "normal" => rest.cod = 0
      BY MailFields, AsksOnce
    <3>4. r \in SignedMails
      <4>1. CASE k # id
        BY <3>1, <3>2, <3>3, <4>1 DEF SignedMails, Signed
      <4>2. CASE k = id
        BY <2>2, <3>1, <3>2, <3>3, <4>2 DEF SignedMails, Signed, Checked
      <4> QED BY <4>1, <4>2
    <3> QED BY <3>2, <3>4 DEF Tidy
  <2> QED BY <2>1, <2>2
<1> QED BY <1>1 DEF _SaveMail, Rows

\* The mail that pays the sender, and the mail without the item that is taken.
LEMMA PaymentTypes ==
  ASSUME NEW m \in SignedMails
  PROVE  IsFiniteSet(DOMAIN Payment(m)) /\ \A k \in DOMAIN Payment(m) : Payment(m)[k] \in SignedMails
<1>1. CASE m.cod > 0
  <2>1. PICK d : d = Draft(m.receiver, m.sender, m.cod, 0, {}, "payment")
    OBVIOUS
  <2>2. m.kind # "auction"
    BY <1>1, MailFields
  <2>3. d \in SignedMails
    BY <2>1, <2>2, MailFields, DraftType DEF Kinds
  <2> QED BY <1>1, <2>1, <2>3, ShortDomains DEF Payment
<1>2. CASE ~(m.cod > 0)
  BY <1>2, ShortDomains DEF Payment
<1> QED BY <1>1, <1>2

LEMMA WithoutType ==
  ASSUME NEW m \in SignedMails, NEW i
  PROVE  /\ Without(m, i) \in SignedMails /\ Without(m, i).cod = 0 /\ Without(m, i).items = m.items \ {i}
         /\ Without(m, i).money = m.money /\ Without(m, i).receiver = m.receiver
<1>1. PICK r : r = Without(m, i)
  OBVIOUS
<1>2. m \in Mails /\ (m.kind # "auction" => m.sender \in Players)
  BY MailFields
<1>3. /\ r \in Mails /\ r.kind = m.kind /\ r.sender = m.sender /\ r.cod = 0 /\ r.items = m.items \ {i}
      /\ r.money = m.money /\ r.receiver = m.receiver
  BY <1>1, <1>2 DEF Without, Mails
<1> QED BY <1>1, <1>2, <1>3 DEF SignedMails, Signed

\* The mails marked as deleted are deleted when a mailbox is saved.
LEMMA SavedOpen ==
  ASSUME MailInv, NEW p \in Players, deleted' = [deleted EXCEPT ![p] = {}], where' = where,
         \A q \in Players \ {p} : \A k \in deleted[q] : box'[q][k] = box[q][k]
  PROVE  deleted' \in [Players -> SUBSET MailIds] /\ DeletedOpen'
BY DEF MailInv, MailPartsOK, DeletedOpen, Connected

\* HandleMailTakeItem.
LEMMA TakeItemType ==
  ASSUME MailInv, NEW p \in Players, NEW id \in MailIds, NEW i \in Items, HandleMailTakeItem(p, id, i)
  PROVE  MailInv'
<1>1. PICK m : m = box[p][id]
  OBVIOUS
<1>2. m \in SignedMails
  BY <1>1, OpenMail DEF HandleMailTakeItem
<1>3. PICK rest, drafts, new, paid, kept, taken :
        /\ rest = Without(m, i) /\ drafts = Payment(m) /\ new = New(drafts)
        /\ paid = Debit(purse[p], m.cod) /\ kept = [box EXCEPT ![p] = Kept(p, id, rest)]
        /\ taken = m.items \ rest.items
  OBVIOUS
<1>4. /\ Room(drafts)
      /\ purse' = [purse EXCEPT ![p] = paid] /\ bag' = [bag EXCEPT ![p] = @ \cup {i}]
      /\ mail' = Inserted(_SaveMail(p, mail, id, rest, taken), new)
      /\ box' = Delivered(kept, new, InWorld)
      /\ deleted' = [deleted EXCEPT ![p] = {}]
      /\ dbBag' = [dbBag EXCEPT ![p] = bag[p] \cup {i}] /\ dbPurse' = [dbPurse EXCEPT ![p] = paid]
      /\ sunk' = sunk + DeletedMoney(p) /\ wasted' = wasted \cup DeletedGoods(p)
      /\ where' = where
  BY <1>1, <1>3 DEF HandleMailTakeItem, SaveInventoryAndGold
<1>5. rest \in SignedMails /\ rest.cod = 0
  BY <1>2, <1>3, WithoutType
<1>6. \A k \in DOMAIN new : k \in Unused /\ new[k] \in SignedMails
  BY <1>2, <1>3, <1>4, PaymentTypes, NewTypes
<1>7. _SaveMail(p, mail, id, rest, taken) \in Rows
  BY <1>5, SavedRows
<1>8. kept \in [Players -> Rows]
  BY <1>3, <1>5, SavedTypes DEF MailInv
<1>9. mail' \in Rows /\ box' \in [Players -> Rows]
  BY <1>4, <1>6, <1>7, <1>8, InsertedType, DeliveredType
<1>10. paid \in Money
  BY <1>2, <1>3, MailFields, PurseTypes DEF MailInv, MailPartsOK
<1>11. /\ purse' \in [Players -> Money] /\ dbPurse' = purse'
       /\ bag' \in [Players -> SUBSET Items] /\ dbBag' = bag'
  BY <1>4, <1>10 DEF MailInv, MailPartsOK
<1>12. sunk' \in Nat /\ wasted' \subseteq Items
  BY <1>4, DeletedTypes DEF MailInv, MailPartsOK
<1>13. ASSUME NEW q \in Players \ {p}, NEW k \in deleted[q] PROVE box'[q][k] = box[q][k]
  <2>1. k \in MailIds /\ box[q][k] # NoMail
    BY DEF MailInv, MailPartsOK, DeletedOpen
  <2>2. k \notin DOMAIN new
    BY <1>6, <2>1 DEF Unused
  <2>3. kept[q] = box[q]
    BY <1>3 DEF MailInv
  <2> QED BY <1>4, <2>1, <2>2, <2>3 DEF Delivered
<1>14. deleted' \in [Players -> SUBSET MailIds] /\ DeletedOpen'
  BY <1>4, <1>13, SavedOpen
<1> QED BY <1>4, <1>9, <1>11, <1>12, <1>14, MailInvParts DEF MailInv, MailPartsOK

\* HandleMailTakeMoney.
LEMMA TakeMoneyType ==
  ASSUME MailInv, NEW p \in Players, NEW id \in MailIds, HandleMailTakeMoney(p, id),
         box[p][id].cod = 0 \/ mail[id] = NoMail \/ mail[id].kind # "auction"
  PROVE  MailInv'
<1>1. PICK m : m = box[p][id]
  OBVIOUS
<1>2. m \in SignedMails
  BY <1>1, OpenMail DEF HandleMailTakeMoney
<1>3. PICK rest, paid : rest = [m EXCEPT !.money = 0] /\ paid = Credit(purse[p], m.money)
  OBVIOUS
<1>4. /\ purse' = [purse EXCEPT ![p] = paid] /\ dbPurse' = [dbPurse EXCEPT ![p] = paid]
      /\ mail' = _SaveMail(p, mail, id, rest, {}) /\ box' = [box EXCEPT ![p] = Kept(p, id, rest)]
      /\ deleted' = [deleted EXCEPT ![p] = {}]
      /\ sunk' = sunk + DeletedMoney(p) /\ wasted' = wasted \cup DeletedGoods(p)
      /\ UNCHANGED <<where, bag, dbBag>>
  BY <1>1, <1>3 DEF HandleMailTakeMoney
<1>5. rest \in SignedMails /\ rest.cod = m.cod
  <2>1. m \in Mails /\ (m.kind # "normal" => m.cod = 0) /\ (m.kind = "auction" => m.cod = 0) /\ (m.kind # "auction" => m.sender \in Players)
    BY <1>2, MailFields, AsksOnce
  <2>2. rest \in Mails /\ rest.kind = m.kind /\ rest.sender = m.sender /\ rest.cod = m.cod
    BY <1>3, <2>1 DEF Mails
  <2> QED BY <2>1, <2>2 DEF SignedMails, Signed
<1>6. mail' \in Rows /\ box' \in [Players -> Rows]
  <2>1. rest.cod = 0 \/ mail[id] = NoMail \/ mail[id].kind # "auction"
    BY <1>1, <1>2, <1>5
  <2>2. _SaveMail(p, mail, id, rest, {}) \in Rows /\ Kept(p, id, rest) \in Rows
    BY <1>5, <2>1, SavedRows, SavedTypes
  <2> QED BY <1>4, <2>2 DEF MailInv
<1>7. paid \in Money
  BY <1>2, <1>3, MailFields, PurseTypes DEF MailInv, MailPartsOK
<1>8. purse' \in [Players -> Money] /\ dbPurse' = purse'
  BY <1>4, <1>7 DEF MailInv, MailPartsOK
<1>9. sunk' \in Nat /\ wasted' \subseteq Items
  BY <1>4, DeletedTypes DEF MailInv, MailPartsOK
<1>10. \A q \in Players \ {p} : box'[q] = box[q]
  BY <1>4 DEF MailInv
<1>11. deleted' \in [Players -> SUBSET MailIds] /\ DeletedOpen'
  BY <1>4, <1>10, SavedOpen
<1> QED BY <1>4, <1>6, <1>8, <1>9, <1>11, MailInvParts DEF MailInv, MailPartsOK

\* Logins, logouts and map changes.
LEMMA LoginQueriesType ==
  ASSUME MailInv, NEW p \in Players, LoginQueries(p)
  PROVE  MailInv'
<1>1. PICK found : found = [id \in MailIds |-> IF mail[id] # NoMail /\ mail[id].receiver = p THEN mail[id] ELSE NoMail]
  OBVIOUS
<1>2. /\ where[p] = "offline" /\ where' = [where EXCEPT ![p] = "loading"]
      /\ box' = [box EXCEPT ![p] = found]
      /\ UNCHANGED <<purse, bag, deleted, mail, dbPurse, dbBag, sunk, wasted>>
  BY <1>1 DEF LoginQueries, memory, tables
<1>3. found \in Rows
  BY <1>1 DEF MailInv, Rows
<1>4. where' \in [Players -> Places] /\ box' \in [Players -> Rows]
  BY <1>2, <1>3 DEF MailInv, MailPartsOK, Places
<1>5. DeletedOpen'
  BY <1>2 DEF MailInv, MailPartsOK, DeletedOpen, Connected
<1> QED BY <1>2, <1>4, <1>5, MailInvParts DEF MailInv, MailPartsOK

LEMMA LoginType ==
  ASSUME MailInv, NEW p \in Players, LoginFromDB(p)
  PROVE  MailInv'
<1>1. /\ where[p] = "loading" /\ where' = [where EXCEPT ![p] = "world"]
      /\ box' = [box EXCEPT ![p] = Loaded(p)]
      /\ UNCHANGED <<purse, bag, deleted, mail, dbPurse, dbBag, sunk, wasted>>
  BY DEF LoginFromDB, memory, tables
<1>2. Loaded(p) \in Rows
  BY DEF MailInv, Rows, Loaded
<1>3. where' \in [Players -> Places] /\ box' \in [Players -> Rows]
  BY <1>1, <1>2 DEF MailInv, MailPartsOK, Places
<1>4. DeletedOpen'
  BY <1>1 DEF MailInv, MailPartsOK, DeletedOpen, Connected
<1> QED BY <1>1, <1>3, <1>4, MailInvParts DEF MailInv, MailPartsOK

LEMMA LogoutType ==
  ASSUME MailInv, NEW p \in Players, Logout(p)
  PROVE  MailInv'
<1>1. /\ where' = [where EXCEPT ![p] = "offline"]
      /\ mail' = [id \in MailIds |-> IF id \in deleted[p] THEN NoMail ELSE mail[id]]
      /\ box' = [box EXCEPT ![p] = Empty] /\ deleted' = [deleted EXCEPT ![p] = {}]
      /\ dbBag' = [dbBag EXCEPT ![p] = bag[p]] /\ dbPurse' = [dbPurse EXCEPT ![p] = purse[p]]
      /\ sunk' = sunk + DeletedMoney(p) /\ wasted' = wasted \cup DeletedGoods(p)
      /\ purse' = purse /\ bag' = bag
  BY DEF Logout, SaveInventoryAndGold, memory
<1>2. Empty \in Rows
  BY DEF Empty, Rows
<1>3. where' \in [Players -> Places] /\ box' \in [Players -> Rows]
  BY <1>1, <1>2 DEF MailInv, MailPartsOK, Places
<1>4. mail' \in Rows
  BY <1>1 DEF MailInv, Rows
<1>5. dbBag' = bag' /\ dbPurse' = purse'
  BY <1>1 DEF MailInv, MailPartsOK
<1>6. sunk' \in Nat /\ wasted' \subseteq Items
  BY <1>1, DeletedTypes DEF MailInv, MailPartsOK
<1>7. deleted' \in [Players -> SUBSET MailIds] /\ DeletedOpen'
  BY <1>1 DEF MailInv, MailPartsOK, DeletedOpen, Connected
<1> QED BY <1>1, <1>3, <1>4, <1>5, <1>6, <1>7, MailInvParts DEF MailInv, MailPartsOK

LEMMA TravelType ==
  ASSUME MailInv, NEW p \in Players, TeleportFar(p) \/ WorldportAck(p)
  PROVE  MailInv'
<1>1. /\ where[p] \in {"world", "between"}
      /\ where' = [where EXCEPT ![p] = "between"] \/ where' = [where EXCEPT ![p] = "world"]
      /\ UNCHANGED <<purse, bag, box, deleted, mail, dbPurse, dbBag, sunk, wasted>>
  BY DEF TeleportFar, WorldportAck, InWorld, memory, tables
<1>2. where' \in [Players -> Places]
  BY <1>1 DEF MailInv, MailPartsOK, Places
<1>3. DeletedOpen'
  BY <1>1 DEF MailInv, MailPartsOK, DeletedOpen, Connected
<1> QED BY <1>1, <1>2, <1>3, MailInvParts DEF MailInv, MailPartsOK

\* A mail, or none, when its time is over.
Aged(m) == IF m = NoMail THEN m ELSE [m EXCEPT !.old = TRUE]

LEMMA AgedType ==
  ASSUME NEW m \in SignedMails \cup {NoMail}
  PROVE  /\ Aged(m) \in SignedMails \cup {NoMail} /\ (Aged(m) = NoMail <=> m = NoMail)
         /\ m # NoMail => /\ Aged(m) \in SignedMails /\ Aged(m).receiver = m.receiver /\ Aged(m).old = TRUE
                          /\ Aged(m).money = m.money /\ Aged(m).items = m.items /\ Aged(m).cod = m.cod
<1>1. CASE m = NoMail
  BY <1>1 DEF Aged
<1>2. CASE m # NoMail
  <2>1. m \in Mails /\ (m.kind # "normal" => m.cod = 0) /\ (m.kind = "auction" => m.cod = 0) /\ (m.kind # "auction" => m.sender \in Players)
    BY <1>2, MailFields, AsksOnce
  <2>2. PICK r : r = [m EXCEPT !.old = TRUE]
    OBVIOUS
  <2>3. /\ r \in Mails /\ r.kind = m.kind /\ r.sender = m.sender /\ r.cod = m.cod
        /\ r.receiver = m.receiver /\ r.old = TRUE /\ r.money = m.money /\ r.items = m.items
    BY <2>1, <2>2 DEF Mails
  <2>4. r \in SignedMails
    BY <2>1, <2>3 DEF SignedMails, Signed
  <2> QED BY <1>2, <2>2, <2>3, <2>4, MailFields DEF Aged
<1> QED BY <1>1, <1>2

\* Expire.
LEMMA ExpireStep ==
  ASSUME NEW id \in MailIds, Expire(id)
  PROVE  /\ mail[id] # NoMail
         /\ mail' = [mail EXCEPT ![id] = Aged(@)]
         /\ seen' = [seen EXCEPT ![id] = Aged(@)]
         /\ box' = [p \in Players |-> [box[p] EXCEPT ![id] = Aged(@)]]
         /\ UNCHANGED <<where, purse, bag, deleted, dbPurse, dbBag, sunk, wasted, crossed>>
BY DEF Expire, Aged, memory, tables

LEMMA ExpireType ==
  ASSUME MailInv, NEW id \in MailIds, Expire(id)
  PROVE  MailInv'
<1>1. \A p \in Players : Aged(box[p][id]) \in SignedMails \cup {NoMail} /\ (Aged(box[p][id]) = NoMail <=> box[p][id] = NoMail)
      /\ (box[p][id] # NoMail => Aged(box[p][id]).cod = box[p][id].cod)
  BY AgedType DEF MailInv, Rows
<1>2. Aged(mail[id]) \in SignedMails \cup {NoMail}
  BY AgedType DEF MailInv, Rows
<1>3. mail' \in Rows
  BY <1>2, ExpireStep DEF MailInv, Rows
<1>4. ASSUME NEW p \in Players PROVE /\ box'[p] \in Rows
                                       /\ \A k \in MailIds : /\ box'[p][k] = NoMail <=> box[p][k] = NoMail
                                                             /\ box[p][k] # NoMail => box'[p][k].cod = box[p][k].cod
  <2>1. box'[p] = [box[p] EXCEPT ![id] = Aged(@)]
    BY ExpireStep
  <2>2. box[p] \in Rows
    BY DEF MailInv
  <2> QED BY <1>1, <2>1, <2>2 DEF Rows
<1>5. box' \in [Players -> Rows]
  BY <1>4, ExpireStep
<1>6. DeletedOpen'
  BY <1>4, ExpireStep DEF MailInv, MailPartsOK, DeletedOpen, Connected
<1> QED BY <1>3, <1>5, <1>6, ExpireStep, MailInvParts DEF MailInv, MailPartsOK

\* ReturnOrDeleteOldMails.
LEMMA OldMailsType ==
  ASSUME MailInv, SeenInv, ReturnOrDeleteOldMails
  PROVE  MailInv'
<1>1. PICK done \in SUBSET Old :
        /\ mail' = Processed(done) /\ sunk' = sunk + MoneyIn(Deletable(done))
        /\ wasted' = wasted \cup GoodsIn(Deletable(done))
        /\ UNCHANGED <<where, purse, bag, box, deleted, dbPurse, dbBag>>
  BY DEF ReturnOrDeleteOldMails, memory, tables
<1>2. mail' \in Rows /\ sunk' \in Nat /\ wasted' \subseteq Items
  BY <1>1, SeenTypes DEF MailInv, MailPartsOK
<1>3. DeletedOpen'
  BY <1>1 DEF MailInv, DeletedOpen, Connected
<1> QED BY <1>1, <1>2, <1>3, MailInvParts DEF MailInv, MailPartsOK

\* MailCrash.
LEMMA CrashType ==
  ASSUME MailInv, SeenInv, MailCrash
  PROVE  MailInv'
<1>1. PICK done, part, gone :
        /\ done \in SUBSET Old /\ part \in {{}} \cup {{id} : id \in Deletable(Old \ done)} /\ gone \in SUBSET GoodsIn(part)
        /\ mail' = Stripped(Processed(done), gone) /\ sunk' = sunk + MoneyIn(Deletable(done))
        /\ wasted' = wasted \cup GoodsIn(Deletable(done)) \cup gone
  BY DEF MailCrash
<1>2. /\ where' = [p \in Players |-> "offline"] /\ purse' = dbPurse /\ bag' = dbBag
      /\ box' = [p \in Players |-> Empty] /\ deleted' = [p \in Players |-> {}]
      /\ dbPurse' = dbPurse /\ dbBag' = dbBag
  BY DEF MailCrash, tables
<1>3. mail' \in Rows /\ sunk' \in Nat /\ wasted' \subseteq Items
  <2>1. part \subseteq Old
    BY <1>1 DEF Deletable
  <2>2. GoodsIn(part) \subseteq Items
    BY <2>1, SeenTypes
  <2>3. MoneyIn(Deletable(done)) \in Nat /\ GoodsIn(Deletable(done)) \subseteq Items /\ Processed(done) \in Rows
    BY <1>1, SeenTypes
  <2> QED BY <1>1, <2>2, <2>3, StrippedType DEF MailInv, MailPartsOK
<1>4. Empty \in Rows
  BY DEF Empty, Rows
<1>5. box' \in [Players -> Rows] /\ where' \in [Players -> Places]
  BY <1>2, <1>4 DEF Places
<1>6. deleted' \in [Players -> SUBSET MailIds] /\ DeletedOpen'
  BY <1>2 DEF DeletedOpen
<1> QED BY <1>2, <1>3, <1>5, <1>6, MailInvParts DEF MailInv, MailPartsOK

-----------------------------------------------------------------------------
(****************************************************************************)
(* The types of auctions.                                                   *)
(****************************************************************************)

\* The cut is a part of the bid.
LEMMA CutBound ==
  ASSUME NEW x \in Auctions
  PROVE  AuctionCut(x) \in Nat /\ AuctionCut(x) <= x.bid /\ Profit(x) \in Nat /\ HouseShare(x) \in Nat
<1>1. PICK b, c : b = x.bid /\ c = cutPercent
  OBVIOUS
<1>2. b \in Nat /\ c \in Nat /\ c <= 100 /\ x.deposit \in Nat
  BY <1>1, AuctionAssumption DEF Auctions
<1>3. b * c \in Nat /\ b * c <= b * 100
  BY <1>2
<1>4. PICK y \in Nat : y = b * c
  BY <1>3
<1>5. y \div 100 \in Nat /\ y \div 100 <= b
  BY <1>2, <1>3, <1>4
<1>6. AuctionCut(x) = y \div 100
  BY <1>1, <1>4 DEF AuctionCut
<1> QED BY <1>1, <1>2, <1>5, <1>6 DEF Profit, HouseShare

\* The mails about an auction.
LEMMA AuctionMails ==
  ASSUME NEW x \in Auctions
  PROVE  /\ SuccessfulMail(x) \in SignedMails /\ ExpiredMail(x) \in SignedMails
         /\ x.bidder # None => OutbiddedMail(x) \in SignedMails /\ WonMail(x) \in SignedMails
<1>1. /\ x.owner \in Players /\ x.item \in Items /\ x.bid \in Nat /\ Profit(x) \in Nat
      /\ x.bidder # None => x.bidder \in Players
  BY CutBound DEF Auctions
<1>2. \A to \in Players, coins \in Nat, things \in SUBSET Items : FromAuction(to, coins, things) \in SignedMails
  <2>1. ASSUME NEW to \in Players, NEW coins \in Nat, NEW things \in SUBSET Items
        PROVE  FromAuction(to, coins, things) \in SignedMails
    BY DraftType DEF FromAuction, Kinds
  <2> QED BY <2>1
<1> QED BY <1>1, <1>2 DEF SuccessfulMail, ExpiredMail, OutbiddedMail, WonMail

LEMMA OutcomeType ==
  ASSUME NEW x \in Auctions
  PROVE  DOMAIN Outcome(x) \subseteq {1, 2} /\ \A n \in DOMAIN Outcome(x) : Outcome(x)[n] \in SignedMails
<1>1. CASE x.bidder = None
  BY <1>1, AuctionMails DEF Outcome
<1>2. CASE x.bidder # None
  BY <1>2, AuctionMails DEF Outcome
<1> QED BY <1>1, <1>2

\* Posting mails and paying.
LEMMA PostType ==
  ASSUME MailInv, NEW drafts, IsFiniteSet(DOMAIN drafts), \A k \in DOMAIN drafts : drafts[k] \in SignedMails,
         Post(drafts), where' = where, deleted' = deleted
  PROVE  mail' \in Rows /\ box' \in [Players -> Rows] /\ DeletedOpen'
<1>1. PICK new : new = New(drafts)
  OBVIOUS
<1>2. Room(drafts) /\ mail' = Inserted(mail, new) /\ box' = Delivered(box, new, Connected)
  BY <1>1 DEF Post
<1>3. \A id \in DOMAIN new : id \in Unused /\ new[id] \in SignedMails
  BY <1>1, <1>2, NewTypes
<1>4. mail' \in Rows /\ box' \in [Players -> Rows]
  BY <1>2, <1>3, InsertedType, DeliveredType DEF MailInv
<1>5. DeletedOpen'
  BY <1>2, <1>3, DeliveredOpen
<1> QED BY <1>4, <1>5

LEMMA PaysType ==
  ASSUME MailInv, NEW p \in Players, NEW amount \in Nat, Pays(p, amount), bag' = bag
  PROVE  purse' \in [Players -> Money] /\ dbPurse' = purse' /\ dbBag' = bag'
<1>1. Debit(purse[p], amount) \in Money
  BY PurseTypes DEF MailInv, MailPartsOK
<1> QED BY <1>1 DEF MailInv, MailPartsOK, Pays, SaveInventoryAndGold

\* An auction that runs.
LEMMA LiveAuction ==
  ASSUME AuctionInv, NEW a \in Live
  PROVE  /\ a \in AuctionIds /\ auction[a] \in Auctions
         /\ IF auction[a].bidder = None THEN auction[a].bid = 0
            ELSE /\ auction[a].buyout = 0 \/ auction[a].bid < auction[a].buyout
                 /\ auction[a].bidder # auction[a].owner
BY DEF AuctionInv, BidsInRange, Live

\* Closing and entering auctions.
LEMMA CloseType ==
  ASSUME AuctionInv, NEW done, Close(done)
  PROVE  AuctionInv'
<1>1. auction' \in [AuctionIds -> Auctions \cup {NoAuction}] /\ dbAuction' = auction'
  BY DEF AuctionInv, Close
<1>2. \A a \in Live' : a \in Live /\ auction'[a] = auction[a]
  BY DEF Live, Close
<1>3. BidsInRange'
  BY <1>2 DEF AuctionInv, BidsInRange
<1> QED BY <1>1, <1>3 DEF AuctionInv

LEMMA EnterType ==
  ASSUME AuctionInv, NEW a \in AuctionIds, NEW x \in Auctions,
         IF x.bidder = None THEN x.bid = 0
         ELSE (x.buyout = 0 \/ x.bid < x.buyout) /\ x.bidder # x.owner,
         auction' = [auction EXCEPT ![a] = x], dbAuction' = [dbAuction EXCEPT ![a] = x]
  PROVE  AuctionInv'
<1>1. auction' \in [AuctionIds -> Auctions \cup {NoAuction}] /\ dbAuction' = auction'
  BY DEF AuctionInv
<1>2. \A b \in Live' : auction'[b] = x \/ (b \in Live /\ auction'[b] = auction[b])
  BY DEF Live, AuctionInv
<1>3. BidsInRange'
  BY <1>2 DEF AuctionInv, BidsInRange
<1> QED BY <1>1, <1>3 DEF AuctionInv

\* HandleAuctionSellItem.
LEMMA SellType ==
  ASSUME MailInv, AuctionInv, NEW p \in Players, NEW i \in Items, NEW start \in Prices, NEW price \in Prices \cup {0},
         HandleAuctionSellItem(p, i, start, price)
  PROVE  MailInv' /\ AuctionInv'
<1>1. PICK a, x, paid : /\ a = (CHOOSE y \in Free : TRUE) /\ x = NewAuction(p, i, start, price)
                        /\ paid = Debit(purse[p], Deposit)
  OBVIOUS
<1>2. /\ Free # {}
      /\ purse' = [purse EXCEPT ![p] = paid] /\ bag' = [bag EXCEPT ![p] = @ \ {i}]
      /\ auction' = [auction EXCEPT ![a] = x] /\ dbAuction' = [dbAuction EXCEPT ![a] = x]
      /\ dbBag' = [dbBag EXCEPT ![p] = bag[p] \ {i}] /\ dbPurse' = [dbPurse EXCEPT ![p] = paid]
      /\ UNCHANGED <<where, box, deleted, mail, sunk, wasted>>
  BY <1>1 DEF HandleAuctionSellItem, SaveInventoryAndGold
<1>3. a \in AuctionIds
  BY <1>1, <1>2 DEF Free
<1>4. start \in Nat /\ price \in Nat /\ Deposit \in Nat
  BY AuctionAssumption, MailAssumption
<1>5. x \in Auctions /\ x.bidder = None /\ x.bid = 0
  BY <1>1, <1>4 DEF NewAuction, Auctions
<1>6. AuctionInv'
  BY <1>2, <1>3, <1>5, EnterType
<1>7. paid \in Money
  BY <1>1, <1>4, PurseTypes DEF MailInv, MailPartsOK
<1>8. purse' \in [Players -> Money] /\ dbPurse' = purse' /\ bag' \in [Players -> SUBSET Items] /\ dbBag' = bag'
  BY <1>2, <1>7 DEF MailInv, MailPartsOK
<1>9. DeletedOpen'
  BY <1>2 DEF MailInv, DeletedOpen, Connected
<1> QED BY <1>2, <1>6, <1>8, <1>9, MailInvParts DEF MailInv, MailPartsOK

\* The mail to the earlier bidder, or none.
LEMMA OutbidTypes ==
  ASSUME NEW p \in Players, NEW x \in Auctions
  PROVE  /\ IsFiniteSet(DOMAIN Outbid(p, x))
         /\ \A k \in DOMAIN Outbid(p, x) : Outbid(p, x)[k] \in SignedMails
<1>1. CASE x.bidder \notin {None, p}
  <2>1. OutbiddedMail(x) \in SignedMails
    BY <1>1, AuctionMails
  <2> QED BY <1>1, <2>1, ShortDomains DEF Outbid
<1>2. CASE x.bidder \in {None, p}
  BY <1>2, ShortDomains DEF Outbid
<1> QED BY <1>1, <1>2

\* What a player pays is a number that he has: his own earlier bid was lower.
LEMMA DueType ==
  ASSUME MailInv, AuctionInv, NEW p \in Players, NEW a \in Live, NEW price \in Prices,
         CanBid(p, auction[a], price), NEW sum,
         sum = price \/ (sum = auction[a].buyout /\ sum # 0 /\ sum <= price)
  PROVE  Due(p, auction[a], sum) \in Nat /\ Due(p, auction[a], sum) <= purse[p] /\ sum \in Nat
<1>1. PICK x, coins : x = auction[a] /\ coins = purse[p]
  OBVIOUS
<1>2. x \in Auctions /\ (x.bidder # None => x.buyout = 0 \/ x.bid < x.buyout)
  BY <1>1, LiveAuction
<1>3. x.bid \in Nat /\ x.buyout \in Nat /\ coins \in Nat /\ price \in Nat
  BY <1>1, <1>2, MailAssumption, AuctionAssumption DEF Auctions, MailInv, MailPartsOK, Money
<1>4. price > x.bid /\ coins >= price
  BY <1>1 DEF CanBid
<1>5. p = x.bidder => sum > x.bid
  BY <1>1, <1>2, <1>3, <1>4, MailAssumption
<1> QED BY <1>1, <1>3, <1>4, <1>5 DEF Due

\* PlaceBid.
LEMMA PlaceBidType ==
  ASSUME MailInv, AuctionInv, NEW p \in Players, NEW a \in Live, NEW price \in Prices, PlaceBid(p, a, price)
  PROVE  MailInv' /\ AuctionInv'
<1>1. PICK x, r, drafts, amount :
        /\ x = auction[a] /\ r = [x EXCEPT !.bidder = p, !.bid = price]
        /\ drafts = Outbid(p, x) /\ amount = Due(p, x, price)
  OBVIOUS
<1>2. /\ CanBid(p, x, price) /\ (price < x.buyout \/ x.buyout = 0)
      /\ Post(drafts) /\ Pays(p, amount)
      /\ auction' = [auction EXCEPT ![a] = r] /\ dbAuction' = [dbAuction EXCEPT ![a] = r]
      /\ UNCHANGED <<where, bag, deleted, sunk, wasted>>
  BY <1>1 DEF PlaceBid
<1>3. a \in AuctionIds /\ x \in Auctions /\ amount \in Nat /\ price \in Nat
  BY <1>1, <1>2, LiveAuction, DueType
<1>4. r \in Auctions /\ r.bidder # None /\ r.bid = price /\ r.buyout = x.buyout /\ r.bidder # r.owner
  <2>1. p # x.owner
    BY <1>2 DEF CanBid
  <2> QED BY <1>1, <1>3, <2>1, MailAssumption DEF Auctions
<1>5. AuctionInv'
  BY <1>2, <1>3, <1>4, EnterType
<1>6. IsFiniteSet(DOMAIN drafts) /\ \A k \in DOMAIN drafts : drafts[k] \in SignedMails
  BY <1>1, <1>3, OutbidTypes
<1>7. mail' \in Rows /\ box' \in [Players -> Rows] /\ DeletedOpen'
  BY <1>2, <1>6, PostType
<1>8. purse' \in [Players -> Money] /\ dbPurse' = purse' /\ dbBag' = bag'
  BY <1>2, <1>3, PaysType
<1> QED BY <1>2, <1>5, <1>7, <1>8, MailInvParts DEF MailInv, MailPartsOK

\* What a buyout sends.
LEMMA BuyoutMails ==
  ASSUME NEW p \in Players, NEW x \in Auctions, NEW sold \in Auctions, sold.bidder = p
  PROVE  Outbid(p, x) \o Outcome(sold) =
           IF x.bidder \in {None, p} THEN <<SuccessfulMail(sold), WonMail(sold)>>
           ELSE <<OutbiddedMail(x), SuccessfulMail(sold), WonMail(sold)>>
<1>1. Outcome(sold) = <<SuccessfulMail(sold), WonMail(sold)>>
  BY MailAssumption DEF Outcome
<1>2. CASE x.bidder \in {None, p}
  BY <1>1, <1>2, ShortSequences DEF Outbid
<1>3. CASE x.bidder \notin {None, p}
  BY <1>1, <1>3, ShortSequences DEF Outbid
<1> QED BY <1>2, <1>3

LEMMA BuyoutTypes ==
  ASSUME NEW p \in Players, NEW x \in Auctions, NEW sold \in Auctions, sold.bidder = p,
         NEW drafts, drafts = Outbid(p, x) \o Outcome(sold)
  PROVE  IsFiniteSet(DOMAIN drafts) /\ \A k \in DOMAIN drafts : drafts[k] \in SignedMails
<1>1. SuccessfulMail(sold) \in SignedMails /\ WonMail(sold) \in SignedMails
  BY AuctionMails, MailAssumption
<1>2. CASE x.bidder \in {None, p}
  <2>1. drafts = <<SuccessfulMail(sold), WonMail(sold)>>
    BY <1>2, BuyoutMails
  <2> QED BY <1>1, <2>1, ShortDomains
<1>3. CASE x.bidder \notin {None, p}
  <2>1. drafts = <<OutbiddedMail(x), SuccessfulMail(sold), WonMail(sold)>>
    BY <1>3, BuyoutMails
  <2>2. OutbiddedMail(x) \in SignedMails
    BY <1>3, AuctionMails
  <2> QED BY <1>1, <2>1, <2>2, ShortDomains
<1> QED BY <1>2, <1>3

LEMMA BuyoutType ==
  ASSUME MailInv, AuctionInv, NEW p \in Players, NEW a \in Live, NEW price \in Prices, Buyout(p, a, price)
  PROVE  MailInv' /\ AuctionInv'
<1>1. PICK x, sold, drafts, amount :
        /\ x = auction[a] /\ sold = [x EXCEPT !.bidder = p, !.bid = x.buyout]
        /\ drafts = Outbid(p, x) \o Outcome(sold) /\ amount = Due(p, x, x.buyout)
  OBVIOUS
<1>2. /\ CanBid(p, x, price) /\ x.buyout # 0 /\ price >= x.buyout
      /\ Post(drafts) /\ Pays(p, amount) /\ Close({a}) /\ sunk' = sunk + AuctionCut(sold)
      /\ UNCHANGED <<where, bag, deleted, wasted>>
  BY <1>1 DEF Buyout
<1>3. x \in Auctions
  BY <1>1, LiveAuction
<1>4. x.buyout \in Nat /\ price \in Nat
  BY <1>3, AuctionAssumption, MailAssumption DEF Auctions
<1>5. amount \in Nat
  BY <1>1, <1>2, <1>4, DueType
<1>6. sold \in Auctions /\ sold.bidder = p
  BY <1>1, <1>3, <1>4 DEF Auctions
<1>7. AuctionInv'
  BY <1>2, CloseType
<1>8. IsFiniteSet(DOMAIN drafts) /\ \A k \in DOMAIN drafts : drafts[k] \in SignedMails
  BY <1>1, <1>3, <1>6, BuyoutTypes
<1>9. mail' \in Rows /\ box' \in [Players -> Rows] /\ DeletedOpen'
  BY <1>2, <1>8, PostType
<1>10. purse' \in [Players -> Money] /\ dbPurse' = purse' /\ dbBag' = bag'
  BY <1>2, <1>5, PaysType
<1>11. sunk' \in Nat
  BY <1>2, <1>6, CutBound DEF MailInv, MailPartsOK
<1> QED BY <1>2, <1>7, <1>9, <1>10, <1>11, MailInvParts DEF MailInv, MailPartsOK

\* What a cancellation sends.
Refunds(x) == (IF x.bidder = None THEN << >> ELSE <<OutbiddedMail(x)>>) \o <<ExpiredMail(x)>>

\* What a cancellation sends.
LEMMA RefundMails ==
  ASSUME NEW x
  PROVE  Refunds(x) = IF x.bidder = None THEN <<ExpiredMail(x)>> ELSE <<OutbiddedMail(x), ExpiredMail(x)>>
<1>1. CASE x.bidder = None
  BY <1>1, ShortSequences DEF Refunds
<1>2. CASE x.bidder # None
  BY <1>2, ShortSequences DEF Refunds
<1> QED BY <1>1, <1>2

LEMMA RefundTypes ==
  ASSUME NEW x \in Auctions
  PROVE  IsFiniteSet(DOMAIN Refunds(x)) /\ \A k \in DOMAIN Refunds(x) : Refunds(x)[k] \in SignedMails
<1>1. CASE x.bidder = None
  BY <1>1, RefundMails, AuctionMails, ShortDomains
<1>2. CASE x.bidder # None
  BY <1>2, RefundMails, AuctionMails, ShortDomains
<1> QED BY <1>1, <1>2

LEMMA CancelType ==
  ASSUME MailInv, AuctionInv, NEW p \in Players, NEW a \in Live, HandleAuctionRemoveItem(p, a)
  PROVE  MailInv' /\ AuctionInv'
<1>1. PICK x, drafts, amount :
        /\ x = auction[a] /\ drafts = Refunds(x)
        /\ amount = IF x.bidder = None THEN 0 ELSE AuctionCut(x)
  OBVIOUS
<1>2. /\ Post(drafts) /\ Pays(p, amount) /\ Close({a}) /\ sunk' = sunk + amount + x.deposit
      /\ UNCHANGED <<where, bag, deleted, wasted>>
  BY <1>1 DEF HandleAuctionRemoveItem, Refunds
<1>3. x \in Auctions
  BY <1>1, LiveAuction
<1>4. amount \in Nat /\ x.deposit \in Nat
  BY <1>1, <1>3, CutBound DEF Auctions
<1>5. AuctionInv'
  BY <1>2, CloseType
<1>6. IsFiniteSet(DOMAIN drafts) /\ \A k \in DOMAIN drafts : drafts[k] \in SignedMails
  BY <1>1, <1>3, RefundTypes
<1>7. mail' \in Rows /\ box' \in [Players -> Rows] /\ DeletedOpen'
  BY <1>2, <1>6, PostType
<1>8. purse' \in [Players -> Money] /\ dbPurse' = purse' /\ dbBag' = bag'
  BY <1>2, <1>4, PaysType
<1>9. sunk' \in Nat
  BY <1>2, <1>4 DEF MailInv, MailPartsOK
<1> QED BY <1>2, <1>5, <1>7, <1>8, <1>9, MailInvParts DEF MailInv, MailPartsOK

\* What expired auctions send and leave.
LEMMA OutcomesTypes ==
  ASSUME AuctionInv, NEW done \in SUBSET Live
  PROVE  /\ IsFiniteSet(done) /\ IsFiniteSet(DOMAIN Outcomes(done))
         /\ DOMAIN Outcomes(done) = UNION {{a} \X DOMAIN Outcome(auction[a]) : a \in done}
         /\ \A k \in DOMAIN Outcomes(done) :
              /\ k[1] \in done /\ k[2] \in DOMAIN Outcome(auction[k[1]]) /\ k = <<k[1], k[2]>>
              /\ Outcomes(done)[k] = Outcome(auction[k[1]])[k[2]]
              /\ Outcomes(done)[k] \in SignedMails
<1>1. IsFiniteSet(done) /\ \A a \in done : auction[a] \in Auctions
  BY AuctionAssumption, FS_Subset, LiveAuction DEF Live
<1>2. PICK D : D = UNION {{a} \X DOMAIN Outcome(auction[a]) : a \in done}
  OBVIOUS
<1>3. ASSUME NEW k \in D
      PROVE  k[1] \in done /\ k[2] \in DOMAIN Outcome(auction[k[1]]) /\ k[2] \in {1, 2} /\ k = <<k[1], k[2]>>
  <2>1. PICK a \in done : k \in {a} \X DOMAIN Outcome(auction[a])
    BY <1>2
  <2>2. k[1] = a /\ k[2] \in DOMAIN Outcome(auction[a]) /\ k = <<k[1], k[2]>>
    BY <2>1
  <2>3. DOMAIN Outcome(auction[a]) \subseteq {1, 2}
    BY <1>1, OutcomeType
  <2> QED BY <2>2, <2>3
<1>4. D \subseteq done \X {1, 2}
  BY <1>3
<1>5. IsFiniteSet(done \X {1, 2})
  <2>1. IsFiniteSet({1} \cup {2}) /\ {1} \cup {2} = {1, 2}
    BY FS_Singleton, FS_AddElement
  <2> QED BY <1>1, <2>1, FS_Product
<1>6. IsFiniteSet(D)
  BY <1>4, <1>5, FS_Subset
<1>7. DOMAIN Outcomes(done) = D /\ \A k \in D : Outcomes(done)[k] = Outcome(auction[k[1]])[k[2]]
  BY <1>2 DEF Outcomes
<1>8. ASSUME NEW k \in D PROVE Outcomes(done)[k] \in SignedMails
  BY <1>1, <1>3, <1>7, OutcomeType
<1> QED BY <1>1, <1>2, <1>3, <1>6, <1>7, <1>8

LEMMA SharesType ==
  ASSUME AuctionInv, NEW done \in SUBSET Live
  PROVE  SumFunction([a \in done |-> HouseShare(auction[a])]) \in Nat
<1>1. PICK f : f = [a \in done |-> HouseShare(auction[a])]
  OBVIOUS
<1>2. IsFiniteSet(done) /\ \A a \in done : f[a] \in Nat
  BY <1>1, OutcomesTypes, LiveAuction, CutBound
<1>3. SumFunctionOnSet(f, done) \in Nat /\ DOMAIN f = done
  BY <1>1, <1>2, SumNat
<1> QED BY <1>1, <1>3 DEF SumFunction

LEMMA UpdateType ==
  ASSUME MailInv, AuctionInv, NEW done \in SUBSET Live, Update(done)
  PROVE  MailInv' /\ AuctionInv'
<1>1. PICK drafts, share :
        /\ drafts = Outcomes(done) /\ share = SumFunction([a \in done |-> HouseShare(auction[a])])
  OBVIOUS
<1>2. /\ Post(drafts) /\ Close(done) /\ sunk' = sunk + share
      /\ UNCHANGED <<where, purse, bag, deleted, dbPurse, dbBag, wasted>>
  BY <1>1 DEF Update, memory, tables
<1>3. AuctionInv'
  BY <1>2, CloseType
<1>4. IsFiniteSet(DOMAIN drafts) /\ \A k \in DOMAIN drafts : drafts[k] \in SignedMails
  BY <1>1, OutcomesTypes
<1>5. mail' \in Rows /\ box' \in [Players -> Rows] /\ DeletedOpen'
  BY <1>2, <1>4, PostType
<1>6. sunk' \in Nat
  BY <1>1, <1>2, SharesType DEF MailInv, MailPartsOK
<1> QED BY <1>2, <1>3, <1>5, <1>6, MailInvParts DEF MailInv, MailPartsOK

-----------------------------------------------------------------------------
(****************************************************************************)
(* Money: how the parts of the total change.                                *)
(****************************************************************************)

\* One purse changes.
LEMMA PurseSum ==
  ASSUME NEW coins \in [Players -> Money], NEW p \in Players, NEW v \in Money,
         NEW next, next = [coins EXCEPT ![p] = v]
  PROVE  SumFunction(next) = SumFunction(coins) - coins[p] + v /\ SumFunction(coins) \in Int
<1>1. DOMAIN coins = Players /\ DOMAIN next = Players /\ IsFiniteSet(Players)
  BY MailAssumption
<1>2. \A q \in Players : coins[q] \in Int /\ next[q] \in Int
  BY DEF Money
<1>3. \A q \in Players \ {p} : next[q] = coins[q]
  OBVIOUS
<1>4. SumFunctionOnSet(next, Players) = SumFunctionOnSet(coins, Players) - coins[p] + next[p]
  <2>1. PICK f, g : f = coins /\ g = next
    OBVIOUS
  <2>2. (\A q \in Players : f[q] \in Int /\ g[q] \in Int) /\ \A q \in Players \ {p} : g[q] = f[q]
    BY <1>2, <1>3, <2>1
  <2>3. SumFunctionOnSet(g, Players) = SumFunctionOnSet(f, Players) - f[p] + g[p]
    BY <1>1, <2>2, SumOneChanged
  <2> QED BY <2>1, <2>3
<1>6. next[p] = v
  OBVIOUS
<1>5. SumFunctionOnSet(coins, Players) \in Int
  BY <1>1, <1>2, SumType
<1> QED BY <1>1, <1>4, <1>5, <1>6 DEF SumFunction

\* The tables of auctions.
AuctionRows == [AuctionIds -> Auctions \cup {NoAuction}]

\* What has been paid for auctions, when one is entered and when some are closed.
LEMMA PaidTypes ==
  ASSUME NEW xs \in AuctionRows
  PROVE  /\ DOMAIN Paid(xs) = AuctionIds /\ IsFiniteSet(AuctionIds)
         /\ \A a \in AuctionIds :
              Paid(xs)[a] \in Int /\ Paid(xs)[a] = IF xs[a] = NoAuction THEN 0 ELSE xs[a].bid + xs[a].deposit
         /\ SumFunction(Paid(xs)) = SumFunctionOnSet(Paid(xs), AuctionIds)
         /\ SumFunction(Paid(xs)) \in Int
<1>1. DOMAIN Paid(xs) = AuctionIds /\ IsFiniteSet(AuctionIds)
  BY AuctionAssumption DEF Paid
<1>2. ASSUME NEW a \in AuctionIds
      PROVE  /\ Paid(xs)[a] \in Int
             /\ Paid(xs)[a] = IF xs[a] = NoAuction THEN 0 ELSE xs[a].bid + xs[a].deposit
  <2>1. xs[a] # NoAuction => xs[a].bid \in Nat /\ xs[a].deposit \in Nat
    BY DEF AuctionRows, Auctions
  <2> QED BY <2>1 DEF Paid
<1>3. SumFunctionOnSet(Paid(xs), AuctionIds) \in Int
  BY <1>1, <1>2, SumType
<1> QED BY <1>1, <1>2, <1>3 DEF SumFunction

LEMMA PaidEntered ==
  ASSUME NEW xs \in AuctionRows, NEW a \in AuctionIds, NEW x \in Auctions,
         NEW next, next = [xs EXCEPT ![a] = x]
  PROVE  SumFunction(Paid(next)) = SumFunction(Paid(xs)) - Paid(xs)[a] + x.bid + x.deposit
<1>1. next \in AuctionRows /\ next[a] = x /\ x # NoAuction
  BY AuctionNames DEF AuctionRows
<1>2. PICK f, g : f = Paid(xs) /\ g = Paid(next)
  OBVIOUS
<1>3. \A b \in AuctionIds : f[b] \in Int /\ g[b] \in Int
  BY <1>1, <1>2, PaidTypes
<1>4. ASSUME NEW b \in AuctionIds \ {a} PROVE g[b] = f[b]
  <2>1. next[b] = xs[b] /\ b \in AuctionIds
    BY DEF AuctionRows
  <2>2. /\ Paid(xs)[b] = IF xs[b] = NoAuction THEN 0 ELSE xs[b].bid + xs[b].deposit
        /\ Paid(next)[b] = IF next[b] = NoAuction THEN 0 ELSE next[b].bid + next[b].deposit
    BY <1>1, <2>1, PaidTypes
  <2> QED BY <1>2, <2>1, <2>2
<1>5. SumFunctionOnSet(g, AuctionIds) = SumFunctionOnSet(f, AuctionIds) - f[a] + g[a]
  BY <1>3, <1>4, SumOneChanged, AuctionAssumption
<1>6. g[a] = x.bid + x.deposit
  BY <1>1, <1>2, PaidTypes
<1>7. SumFunction(Paid(xs)) = SumFunctionOnSet(f, AuctionIds) /\ SumFunction(Paid(next)) = SumFunctionOnSet(g, AuctionIds)
  BY <1>1, <1>2, PaidTypes
<1>8. x.bid \in Nat /\ x.deposit \in Nat /\ SumFunctionOnSet(f, AuctionIds) \in Int /\ f[a] \in Int
  BY <1>2, <1>3, <1>7, PaidTypes DEF Auctions
<1> QED BY <1>2, <1>5, <1>6, <1>7, <1>8

LEMMA PaidClosed ==
  ASSUME NEW xs \in AuctionRows, NEW done \in SUBSET AuctionIds,
         NEW next, next = [a \in AuctionIds |-> IF a \in done THEN NoAuction ELSE xs[a]]
  PROVE  /\ SumFunction(Paid(next)) = SumFunction(Paid(xs)) - SumFunctionOnSet(Paid(xs), done)
         /\ SumFunctionOnSet(Paid(xs), done) \in Int
<1>1. next \in AuctionRows
  BY DEF AuctionRows
<1>2. PICK f, g : f = Paid(xs) /\ g = Paid(next)
  OBVIOUS
<1>3. \A b \in AuctionIds : f[b] \in Int
  BY <1>2, PaidTypes
<1>4. \A b \in done : g[b] = 0
  BY <1>1, <1>2, PaidTypes
<1>7. \A b \in AuctionIds \ done : g[b] = f[b]
  BY <1>1, <1>2, PaidTypes
<1>8. IsFiniteSet(AuctionIds)
  BY AuctionAssumption
<1>5. /\ SumFunctionOnSet(g, AuctionIds) = SumFunctionOnSet(f, AuctionIds) - SumFunctionOnSet(f, done)
      /\ SumFunctionOnSet(f, done) \in Int
  BY <1>3, <1>4, <1>7, <1>8, SumCleared
<1>6. SumFunction(Paid(xs)) = SumFunctionOnSet(f, AuctionIds) /\ SumFunction(Paid(next)) = SumFunctionOnSet(g, AuctionIds)
  BY <1>1, <1>2, PaidTypes
<1> QED BY <1>2, <1>5, <1>6

\* What is in the mails.
LEMMA SentTypes ==
  ASSUME NEW rows \in Rows
  PROVE  /\ DOMAIN Sent(rows) = MailIds /\ IsFiniteSet(MailIds)
         /\ \A id \in MailIds :
              Sent(rows)[id] \in Int /\ Sent(rows)[id] = IF rows[id] = NoMail THEN 0 ELSE rows[id].money
         /\ SumFunction(Sent(rows)) = SumFunctionOnSet(Sent(rows), MailIds)
         /\ SumFunction(Sent(rows)) \in Int
<1>1. DOMAIN Sent(rows) = MailIds /\ IsFiniteSet(MailIds)
  BY MailAssumption DEF Sent
<1>2. ASSUME NEW id \in MailIds
      PROVE  Sent(rows)[id] \in Int /\ Sent(rows)[id] = IF rows[id] = NoMail THEN 0 ELSE rows[id].money
  <2>1. rows[id] # NoMail => rows[id].money \in Nat
    BY MailboxType, MailFields
  <2> QED BY <2>1 DEF Sent
<1>3. SumFunctionOnSet(Sent(rows), MailIds) \in Int
  BY <1>1, <1>2, SumType
<1> QED BY <1>1, <1>2, <1>3 DEF SumFunction

\* The money in the mails that are to be sent.
DraftMoney(drafts) == SumFunction([k \in DOMAIN drafts |-> drafts[k].money])

\* The mails that are written hold the money of the drafts.
LEMMA InsertedSum ==
  ASSUME NEW rows \in Rows, NEW drafts, NEW new, NEW ids, Numbered(drafts, new, ids),
         IsFiniteSet(DOMAIN drafts), \A k \in DOMAIN drafts : drafts[k] \in SignedMails,
         \A id \in DOMAIN new : id \in MailIds /\ rows[id] = NoMail /\ new[id] \in SignedMails
  PROVE  /\ SumFunction(Sent(Inserted(rows, new))) = SumFunction(Sent(rows)) + DraftMoney(drafts)
         /\ DraftMoney(drafts) \in Int
<1>1. PICK next : next = Inserted(rows, new)
  OBVIOUS
<1>2. /\ next \in Rows
      /\ \A id \in MailIds : next[id] = IF id \in DOMAIN new THEN new[id] ELSE rows[id]
  BY <1>1, InsertedType DEF Inserted
<1>3. PICK f, g, h, D, K, N :
        /\ f = Sent(rows) /\ g = Sent(next) /\ D = DOMAIN new /\ N = DOMAIN drafts
        /\ h = [k \in N |-> drafts[k].money] /\ K = Carrying(drafts)
  OBVIOUS
<1>4. /\ K \in SUBSET N /\ IsFiniteSet(K) /\ IsFiniteSet(N)
      /\ D \in SUBSET MailIds /\ IsFiniteSet(D) /\ IsFiniteSet(MailIds)
  BY <1>3, FS_Subset, MailAssumption DEF Carrying
<1>5. \A id \in MailIds : f[id] \in Int /\ g[id] \in Int
  BY <1>2, <1>3, SentTypes
<1>6. (\A id \in D : f[id] = 0) /\ \A id \in MailIds \ D : f[id] = g[id]
  BY <1>2, <1>3, SentTypes
<1>7. /\ SumFunctionOnSet(f, MailIds) = SumFunctionOnSet(g, MailIds) - SumFunctionOnSet(g, D)
      /\ SumFunctionOnSet(g, MailIds) \in Int /\ SumFunctionOnSet(g, D) \in Int
  BY <1>4, <1>5, <1>6, SumCleared
<1>8. ids \in [K -> D] /\ (\A x, y \in K : ids[x] = ids[y] => x = y) /\ \A z \in D : \E x \in K : ids[x] = z
  BY <1>3 DEF Numbered
<1>9. \A k \in N : h[k] \in Int /\ (k \notin K => h[k] = 0)
  <2>1. ASSUME NEW k \in N PROVE h[k] \in Int /\ (k \notin K => h[k] = 0)
    <3>1. drafts[k].money \in Nat /\ h[k] = drafts[k].money
      BY <1>3, MailFields
    <3> QED BY <1>3, <3>1 DEF Carrying, Carries
  <2> QED BY <2>1
<1>10. ASSUME NEW k \in K PROVE h[k] = g[ids[k]]
  <2>1. new[ids[k]] = drafts[k] /\ ids[k] \in D /\ ids[k] \in MailIds
    BY <1>3, <1>4, <1>8 DEF Numbered
  <2>2. next[ids[k]] = drafts[k]
    BY <1>2, <1>3, <2>1
  <2>3. drafts[k] # NoMail /\ k \in N
    BY <1>3, <1>4, MailFields
  <2>4. g[ids[k]] = drafts[k].money
    BY <1>2, <1>3, <2>1, <2>2, <2>3, SentTypes
  <2> QED BY <1>3, <2>3, <2>4
<1>11. SumFunctionOnSet(h, K) = SumFunctionOnSet(g, D)
  <2>1. \A x, y \in K : ids[x] = ids[y] => x = y
    BY <1>8
  <2>2. \A x \in K : h[x] = g[ids[x]] /\ h[x] \in Int
    BY <1>4, <1>9, <1>10
  <2> QED BY <1>4, <1>8, <2>1, <2>2, SumReindex
<1>12. SumFunctionOnSet(h, N) = SumFunctionOnSet(h, K)
  BY <1>4, <1>9, SumOnSubset
<1>13. DraftMoney(drafts) = SumFunctionOnSet(h, N)
  BY <1>3 DEF DraftMoney, SumFunction
<1>14. SumFunction(Sent(rows)) = SumFunctionOnSet(f, MailIds) /\ SumFunction(Sent(next)) = SumFunctionOnSet(g, MailIds)
  BY <1>2, <1>3, SentTypes
<1> QED BY <1>1, <1>7, <1>11, <1>12, <1>13, <1>14

\* The money of up to three drafts.
LEMMA DraftMoneyShort ==
  /\ DraftMoney(<< >>) = 0
  /\ \A d : d.money \in Int => DraftMoney(<<d>>) = d.money
  /\ \A d, e : d.money \in Int /\ e.money \in Int => DraftMoney(<<d, e>>) = d.money + e.money
  /\ \A d, e, f : d.money \in Int /\ e.money \in Int /\ f.money \in Int =>
       DraftMoney(<<d, e, f>>) = d.money + e.money + f.money
<1>1. DraftMoney(<< >>) = 0
  <2>1. PICK h : h = [k \in DOMAIN << >> |-> << >>[k].money]
    OBVIOUS
  <2>2. DOMAIN h = {}
    BY <2>1
  <2>3. SumFunctionOnSet(h, {}) = 0
    BY SumEmpty
  <2> QED BY <2>1, <2>2, <2>3 DEF DraftMoney, SumFunction
<1>2. ASSUME NEW d, d.money \in Int PROVE DraftMoney(<<d>>) = d.money
  <2>1. PICK h : h = [k \in DOMAIN <<d>> |-> <<d>>[k].money]
    OBVIOUS
  <2>2. DOMAIN h = {1} /\ h[1] = d.money
    BY <2>1
  <2>3. SumFunctionOnSet(h, {1}) = h[1]
    BY <1>2, <2>2, SumOfOne
  <2> QED BY <2>1, <2>2, <2>3 DEF DraftMoney, SumFunction
<1>3. ASSUME NEW d, NEW e, d.money \in Int, e.money \in Int PROVE DraftMoney(<<d, e>>) = d.money + e.money
  <2>1. PICK h : h = [k \in DOMAIN <<d, e>> |-> <<d, e>>[k].money]
    OBVIOUS
  <2>2. DOMAIN h = {1} \cup {2} /\ h[1] = d.money /\ h[2] = e.money
    BY <2>1
  <2>3. SumFunctionOnSet(h, {1}) = h[1]
    BY <1>3, <2>2, SumOfOne
  <2>4. IsFiniteSet({1}) /\ 2 \notin {1} /\ \A x \in {1} \cup {2} : h[x] \in Int
    <3>1. h[1] \in Int /\ h[2] \in Int
      BY <1>3, <2>2
    <3>2. IsFiniteSet({1})
      BY FS_Singleton
    <3> QED BY <3>1, <3>2
  <2>5. SumFunctionOnSet(h, {1} \cup {2}) = SumFunctionOnSet(h, {1}) + h[2]
    BY <2>4, SumInsert
  <2>6. DraftMoney(<<d, e>>) = SumFunctionOnSet(h, DOMAIN h)
    BY <2>1 DEF DraftMoney, SumFunction
  <2> QED BY <2>2, <2>3, <2>5, <2>6
<1>4. ASSUME NEW d, NEW e, NEW f, d.money \in Int, e.money \in Int, f.money \in Int
      PROVE  DraftMoney(<<d, e, f>>) = d.money + e.money + f.money
  <2>1. PICK h : h = [k \in DOMAIN <<d, e, f>> |-> <<d, e, f>>[k].money]
    OBVIOUS
  <2>2. DOMAIN h = ({1} \cup {2}) \cup {3} /\ h[1] = d.money /\ h[2] = e.money /\ h[3] = f.money
    BY <2>1
  <2>3. SumFunctionOnSet(h, {1}) = h[1]
    BY <1>4, <2>2, SumOfOne
  <2>4. IsFiniteSet({1}) /\ 2 \notin {1} /\ \A x \in {1} \cup {2} : h[x] \in Int
    <3>1. h[1] \in Int /\ h[2] \in Int
      BY <1>4, <2>2
    <3>2. IsFiniteSet({1})
      BY FS_Singleton
    <3> QED BY <3>1, <3>2
  <2>5. SumFunctionOnSet(h, {1} \cup {2}) = SumFunctionOnSet(h, {1}) + h[2]
    BY <2>4, SumInsert
  <2>6. IsFiniteSet({1} \cup {2}) /\ 3 \notin {1} \cup {2} /\ \A x \in ({1} \cup {2}) \cup {3} : h[x] \in Int
    <3>1. h[1] \in Int /\ h[2] \in Int /\ h[3] \in Int
      BY <1>4, <2>2
    <3>2. IsFiniteSet({1} \cup {2})
      BY <2>4, FS_AddElement
    <3> QED BY <3>1, <3>2
  <2>7. SumFunctionOnSet(h, ({1} \cup {2}) \cup {3}) = SumFunctionOnSet(h, {1} \cup {2}) + h[3]
    BY <2>6, SumInsert
  <2>8. DraftMoney(<<d, e, f>>) = SumFunctionOnSet(h, DOMAIN h)
    BY <2>1 DEF DraftMoney, SumFunction
  <2> QED BY <1>4, <2>2, <2>3, <2>5, <2>7, <2>8
<1> QED BY <1>1, <1>2, <1>3, <1>4

\* A player in the world or between two maps sees the rows of the database.
LEMMA TrueMail ==
  ASSUME MailInv, BoxesTrue, NEW p \in Connected, NEW id \in MailIds, box[p][id] # NoMail
  PROVE  mail[id] = box[p][id] /\ mail[id] # NoMail /\ mail[id] \in SignedMails /\ mail[id].receiver = p
<1>1. p \in Players /\ where[p] # "loading"
  BY DEF Connected
<1>2. mail[id] = box[p][id] /\ box[p][id].receiver = p
  BY <1>1 DEF BoxesTrue, BoxesMatch
<1>3. box[p][id] \in SignedMails
  BY <1>1, MailboxType DEF MailInv
<1> QED BY <1>2, <1>3

LEMMA TrueDeleted ==
  ASSUME MailInv, BoxesTrue, NEW p \in Players
  PROVE  \A id \in deleted[p] : mail[id] = box[p][id] /\ mail[id] \in SignedMails /\ id \in MailIds /\ mail[id].receiver = p
BY TrueMail DEF MailInv, MailPartsOK, DeletedOpen

\* The money of the mails a player has deleted is in the table.
LEMMA DeletedSum ==
  ASSUME MailInv, BoxesTrue, NEW p \in Players
  PROVE  SumFunctionOnSet(Sent(mail), deleted[p]) = DeletedMoney(p)
<1>1. PICK f, h, S : f = Sent(mail) /\ S = deleted[p] /\ h = [k \in deleted[p] |-> box[p][k].money]
  OBVIOUS
<1>2. mail \in Rows
  BY DEF MailInv
<1>3. ASSUME NEW k \in S PROVE f[k] = h[k]
  <2>1. mail[k] = box[p][k] /\ mail[k] # NoMail /\ k \in MailIds
    BY <1>1, <1>3, TrueDeleted, MailFields
  <2>2. f[k] = mail[k].money
    BY <1>1, <1>2, <2>1, SentTypes
  <2> QED BY <1>1, <2>1, <2>2
<1>4. IsFiniteSet(S)
  BY <1>1, DeletedTypes
<1>5. SumFunctionOnSet(f, S) = SumFunctionOnSet(h, S)
  BY <1>3, <1>4, SumSame
<1>6. DeletedMoney(p) = SumFunctionOnSet(h, S)
  BY <1>1 DEF DeletedMoney, SumFunction
<1> QED BY <1>1, <1>5, <1>6

\* Rows from which some mails are deleted.
LEMMA ClearedSum ==
  ASSUME NEW rows \in Rows, NEW D \in SUBSET MailIds,
         NEW next \in Rows, \A k \in D : next[k] = NoMail, \A k \in MailIds \ D : Sent(next)[k] = Sent(rows)[k]
  PROVE  /\ SumFunction(Sent(next)) = SumFunction(Sent(rows)) - SumFunctionOnSet(Sent(rows), D)
         /\ SumFunctionOnSet(Sent(rows), D) \in Int
<1>1. PICK f, g : f = Sent(rows) /\ g = Sent(next)
  OBVIOUS
<1>2. IsFiniteSet(MailIds) /\ \A k \in MailIds : f[k] \in Int
  BY <1>1, SentTypes
<1>3. \A k \in D : g[k] = 0
  BY <1>1, SentTypes
<1>4. \A k \in MailIds \ D : g[k] = f[k]
  BY <1>1
<1>5. /\ SumFunctionOnSet(g, MailIds) = SumFunctionOnSet(f, MailIds) - SumFunctionOnSet(f, D)
      /\ SumFunctionOnSet(f, D) \in Int
  BY <1>2, <1>3, <1>4, SumCleared
<1> QED BY <1>1, <1>5, SentTypes

\* What _SaveMail does to the money in the table.
LEMMA SavedSum ==
  ASSUME MailInv, BoxesTrue, NEW p \in Players, NEW id \in MailIds, Open(p, id),
         NEW rest \in SignedMails, NEW taken, rest.cod = 0 \/ rest.cod = mail[id].cod
  PROVE  /\ SumFunction(Sent(_SaveMail(p, mail, id, rest, taken))) =
              SumFunction(Sent(mail)) - DeletedMoney(p) - mail[id].money + rest.money
         /\ mail[id].money \in Nat /\ mail[id] = box[p][id] /\ rest.money \in Nat
<1>1. mail[id] = box[p][id] /\ mail[id] # NoMail /\ mail[id] \in SignedMails /\ id \notin deleted[p]
  BY TrueMail DEF Open, InWorld, Connected
<1>2. PICK next, less, D :
        /\ next = _SaveMail(p, mail, id, rest, taken) /\ D = deleted[p]
        /\ less = [k \in MailIds |-> IF k \in D THEN NoMail ELSE mail[k]]
  OBVIOUS
<1>3. mail \in Rows /\ next \in Rows /\ less \in Rows /\ D \in SUBSET MailIds
  <2>1. rest.cod = 0 \/ mail[id] = NoMail \/ mail[id].kind # "auction"
    BY <1>1, MailFields
  <2>2. next \in Rows
    BY <1>2, <2>1, SavedRows
  <2> QED BY <1>2, <2>2, DeletedTypes DEF MailInv, Rows
<1>4. \A k \in MailIds \ D : Sent(less)[k] = Sent(mail)[k]
  BY <1>2, <1>3, SentTypes
<1>5. \A k \in D : less[k] = NoMail
  BY <1>2, <1>3
<1>6. SumFunction(Sent(less)) = SumFunction(Sent(mail)) - SumFunctionOnSet(Sent(mail), D)
  BY <1>3, <1>4, <1>5, ClearedSum
<1>7. SumFunctionOnSet(Sent(mail), D) = DeletedMoney(p)
  BY <1>2, DeletedSum
<1>8. ASSUME NEW k \in MailIds, k \notin D, mail[k] # NoMail
      PROVE  Sent(next)[k] = IF k = id THEN rest.money ELSE mail[k].money
  <2>1. PICK m \in SignedMails : m = mail[k]
    BY <1>3, <1>8, MailboxType
  <2>2. PICK money : money = IF k = id THEN rest.money ELSE m.money
    OBVIOUS
  <2>3. money \in Nat
    BY <2>2, MailFields
  <2>4. PICK r \in Mails : next[k] = Tidy(r) /\ r.money = money
    <3>1. PICK r : IsSaved(p, k, id, rest, taken, r)
      BY <1>2, <1>8, SavedRow
    <3>2. r.money = money
      BY <2>1, <2>2, <3>1 DEF IsSaved
    <3> QED BY <1>2, <3>1, <3>2 DEF IsSaved
  <2>6. CASE Carries(r)
    <3>1. next[k] = r /\ next[k] # NoMail
      BY <2>4, <2>6, MailNames DEF Tidy
    <3>2. Sent(next)[k] = r.money
      BY <1>3, <3>1, SentTypes
    <3> QED BY <2>1, <2>2, <2>4, <3>2
  <2>7. CASE ~Carries(r)
    <3>1. next[k] = NoMail /\ money = 0
      BY <2>3, <2>4, <2>7 DEF Tidy, Carries
    <3>2. Sent(next)[k] = 0
      BY <1>3, <3>1, SentTypes
    <3> QED BY <2>1, <2>2, <3>1, <3>2
  <2> QED BY <2>6, <2>7
<1>9. \A k \in MailIds : k \in D \/ mail[k] = NoMail => next[k] = NoMail
  BY <1>2 DEF _SaveMail
<1>10. PICK f, g : f = Sent(less) /\ g = Sent(next)
  OBVIOUS
<1>11. \A k \in MailIds : f[k] \in Int /\ g[k] \in Int
  BY <1>3, <1>10, SentTypes
<1>12. ASSUME NEW k \in MailIds \ {id} PROVE g[k] = f[k]
  <2>1. CASE k \in D \/ mail[k] = NoMail
    <3>1. next[k] = NoMail /\ less[k] = NoMail
      BY <1>2, <1>9, <2>1
    <3> QED BY <1>3, <1>10, <3>1, SentTypes
  <2>2. CASE k \notin D /\ mail[k] # NoMail
    <3>1. less[k] = mail[k] /\ g[k] = mail[k].money
      BY <1>2, <1>8, <1>10, <2>2
    <3>2. f[k] = mail[k].money
      BY <1>3, <1>10, <2>2, <3>1, SentTypes
    <3> QED BY <3>1, <3>2
  <2> QED BY <2>1, <2>2
<1>13. SumFunctionOnSet(g, MailIds) = SumFunctionOnSet(f, MailIds) - f[id] + g[id]
  BY <1>11, <1>12, SumOneChanged, MailAssumption
<1>14. f[id] = mail[id].money /\ g[id] = rest.money
  <2>1. less[id] = mail[id]
    BY <1>1, <1>2
  <2>2. f[id] = mail[id].money
    BY <1>1, <1>3, <1>10, <2>1, SentTypes
  <2> QED BY <1>1, <1>2, <1>8, <1>10, <2>2
<1>15. SumFunction(Sent(less)) = SumFunctionOnSet(f, MailIds) /\ SumFunction(Sent(next)) = SumFunctionOnSet(g, MailIds)
  BY <1>3, <1>10, SentTypes
<1>16. mail[id].money \in Nat /\ rest.money \in Nat
  BY <1>1, MailFields
<1> QED BY <1>1, <1>2, <1>6, <1>7, <1>13, <1>14, <1>15, <1>16

\* Rows that hold the same money.
LEMMA SameSum ==
  ASSUME NEW rows \in Rows, NEW next \in Rows, \A k \in MailIds : Sent(next)[k] = Sent(rows)[k]
  PROVE  SumFunction(Sent(next)) = SumFunction(Sent(rows))
<1>1. PICK f, g : f = Sent(rows) /\ g = Sent(next)
  OBVIOUS
<1>2. \A k \in MailIds : g[k] = f[k]
  BY <1>1
<1>3. SumFunctionOnSet(g, MailIds) = SumFunctionOnSet(f, MailIds)
  BY <1>2, SumSame, MailAssumption
<1> QED BY <1>1, <1>3, SentTypes

\* What the processing of old mails does to it.
LEMMA ProcessedSum ==
  ASSUME MailInv, NEW done \in SUBSET OldRows
  PROVE  /\ SumFunction(Sent(ProcessedRows(done))) = SumFunction(Sent(mail)) - RowsMoney(DeletableRows(done))
         /\ RowsMoney(DeletableRows(done)) \in Nat
<1>1. PICK next, D : next = ProcessedRows(done) /\ D = DeletableRows(done)
  OBVIOUS
<1>2. /\ next \in Rows /\ mail \in Rows /\ D \in SUBSET MailIds /\ D \subseteq done
      /\ (\A id \in done : id \in MailIds /\ mail[id] \in SignedMails)
      /\ RowsMoney(DeletableRows(done)) \in Nat
  BY <1>1, OldTypes DEF MailInv
<1>3. \A k \in D : next[k] = NoMail
  BY <1>1, <1>2 DEF ProcessedRows, DeletableRows
<1>4. ASSUME NEW k \in MailIds \ D PROVE Sent(next)[k] = Sent(mail)[k]
  <2>1. CASE k \notin done
    <3>1. next[k] = mail[k]
      BY <1>1, <2>1 DEF ProcessedRows
    <3> QED BY <1>2, <3>1, SentTypes
  <2>2. CASE k \in done
    <3>1. PICK m \in SignedMails : m = mail[k]
      BY <1>2, <2>2
    <3>2. next[k] = ReturnedRow(m)
      BY <1>1, <1>4, <2>2, <3>1 DEF ProcessedRows, DeletableRows
    <3>3. m \in Mails /\ m # NoMail
      BY MailFields
    <3>4. ReturnedRow(m).money = m.money
      BY <3>3 DEF ReturnedRow, Returned, Checked, Mails
    <3>5. next[k] # NoMail
      <4>1. next[k] \in SignedMails
        <5>1. Returnable(mail[k])
          BY <1>1, <1>4, <2>2 DEF DeletableRows
        <5> QED BY <2>2, <3>1, <3>2, <5>1, OldTypes
      <4> QED BY <4>1, MailFields
    <3>6. Sent(next)[k] = m.money /\ Sent(mail)[k] = m.money
      BY <1>2, <3>1, <3>2, <3>3, <3>4, <3>5, SentTypes
    <3> QED BY <3>6
  <2> QED BY <2>1, <2>2
<1>5. SumFunction(Sent(next)) = SumFunction(Sent(mail)) - SumFunctionOnSet(Sent(mail), D)
  BY <1>2, <1>3, <1>4, ClearedSum
<1>6. PICK f, h : f = Sent(mail) /\ h = [id \in D |-> mail[id].money]
  OBVIOUS
<1>7. ASSUME NEW k \in D PROVE f[k] = h[k]
  <2>1. k \in MailIds /\ mail[k] # NoMail
    BY <1>2, MailFields
  <2> QED BY <1>2, <1>6, <2>1, SentTypes
<1>8. IsFiniteSet(D)
  BY <1>2, FS_Subset, MailAssumption
<1>9. SumFunctionOnSet(f, D) = SumFunctionOnSet(h, D)
  BY <1>7, <1>8, SumSame
<1>10. RowsMoney(D) = SumFunctionOnSet(h, D)
  BY <1>6 DEF RowsMoney, SumFunction
<1> QED BY <1>1, <1>2, <1>5, <1>6, <1>9, <1>10

\* Everything there is.
Total == SumFunction(purse) + SumFunction(Paid(auction)) + SumFunction(Sent(mail)) + sunk

\* The parts of the sum are numbers.
LEMMA PartTypes ==
  ASSUME MailInv, AuctionInv
  PROVE  /\ SumFunction(purse) \in Int /\ SumFunction(Paid(auction)) \in Int
         /\ SumFunction(Sent(mail)) \in Int /\ sunk \in Int
<1>1. SumFunction(purse) \in Int
  <2>1. PICK coins : coins = purse
    OBVIOUS
  <2>2. coins \in [Players -> Money] /\ DOMAIN coins = Players /\ IsFiniteSet(Players)
    BY <2>1, MailAssumption DEF MailInv, MailPartsOK
  <2>3. \A p \in Players : coins[p] \in Int
    BY <2>2 DEF Money
  <2>4. SumFunctionOnSet(coins, Players) \in Int
    BY <2>2, <2>3, SumType
  <2> QED BY <2>1, <2>2, <2>4 DEF SumFunction
<1>2. SumFunction(Paid(auction)) \in Int
  BY PaidTypes DEF AuctionInv, AuctionRows
<1>3. SumFunction(Sent(mail)) \in Int
  BY SentTypes DEF MailInv
<1> QED BY <1>1, <1>2, <1>3 DEF MailInv, MailPartsOK

\* A mail that is sent takes the money with it.
LEMMA NewSum ==
  ASSUME MailInv, NEW rows \in Rows, NEW drafts, IsFiniteSet(DOMAIN drafts), Room(drafts),
         \A k \in DOMAIN drafts : drafts[k] \in SignedMails, \A id \in Unused : rows[id] = NoMail
  PROVE  /\ SumFunction(Sent(Inserted(rows, New(drafts)))) = SumFunction(Sent(rows)) + DraftMoney(drafts)
         /\ DraftMoney(drafts) \in Int
<1>1. PICK new : new = New(drafts)
  OBVIOUS
<1>2. PICK ids : Numbered(drafts, new, ids)
  BY <1>1, NewMails
<1>3. \A id \in DOMAIN new : id \in MailIds /\ rows[id] = NoMail /\ new[id] \in SignedMails
  BY <1>1, NewTypes DEF Unused
<1> QED BY <1>1, <1>2, <1>3, InsertedSum

-----------------------------------------------------------------------------
(****************************************************************************)
(* Money: every step keeps the total.                                       *)
(****************************************************************************)

\* A player who pays has what he pays.
LEMMA PaidSum ==
  ASSUME MailInv, NEW p \in Players, NEW amount \in Nat, amount <= purse[p],
         purse' = [purse EXCEPT ![p] = Debit(purse[p], amount)]
  PROVE  SumFunction(purse') = SumFunction(purse) - amount
<1>1. PICK coins, next, v : coins = purse /\ next = purse' /\ v = Debit(purse[p], amount)
  OBVIOUS
<1>2. coins \in [Players -> Money] /\ coins[p] \in Nat
  BY <1>1 DEF MailInv, MailPartsOK, Money
<1>3. v = coins[p] - amount /\ v \in Money
  BY <1>1, <1>2, PurseTypes DEF Debit
<1>4. SumFunction(next) = SumFunction(coins) - coins[p] + v /\ SumFunction(coins) \in Int
  BY <1>1, <1>2, <1>3, PurseSum
<1> QED BY <1>1, <1>2, <1>3, <1>4

\* The handlers of mails keep the total.
LEMMA SendMoney ==
  ASSUME MailInv, AuctionInv, NEW p \in Players, NEW q \in Players, NEW things \in SUBSET bag[p],
         NEW sum \in Sums, NEW onDelivery \in CODs, HandleSendMail(p, q, things, sum, onDelivery),
         auction' = auction
  PROVE  Total' = Total
<1> DEFINE draft == Draft(p, q, sum, IF things = {} THEN 0 ELSE onDelivery, things, "normal")
<1>1. PICK cost, amount : cost = Cost(things) /\ amount = (Cost(things) + sum) % Word
  OBVIOUS
<1>2. /\ sum \in Nat /\ sum < Word /\ onDelivery \in Nat /\ things \in SUBSET Items /\ Word \in Nat \ {0}
  BY MailAssumption DEF MailInv, MailPartsOK
<1>3. Cardinality(things) <= MAX_MAIL_ITEMS /\ Affords(p, things, sum) /\ Room(<<draft>>)
  BY DEF HandleSendMail
<1>4. cost \in Nat /\ cost < Word
  BY <1>1, <1>2, <1>3, CostType
<1>5. amount >= sum /\ purse[p] >= amount
  BY <1>1, <1>3 DEF Affords
<1>6. amount = cost + sum
  BY <1>1, <1>2, <1>4, <1>5, WrapFree
<1>7. amount \in Nat /\ amount <= purse[p]
  BY <1>2, <1>4, <1>5, <1>6 DEF MailInv, MailPartsOK, Money
<1>8. /\ purse' = [purse EXCEPT ![p] = Debit(purse[p], amount)]
      /\ mail' = Inserted(mail, New(<<draft>>)) /\ sunk' = sunk + cost
  BY <1>1 DEF HandleSendMail
<1>9. SumFunction(purse') = SumFunction(purse) - amount
  BY <1>7, <1>8, PaidSum
<1>10. draft \in SignedMails
  BY <1>2, DraftType DEF Kinds
<1>11. draft.money = sum
  BY DEF Draft
<1>12. PICK drafts, d : d = draft /\ drafts = <<d>>
  OBVIOUS
<1> HIDE DEF draft
<1>13. IsFiniteSet(DOMAIN drafts) /\ (\A k \in DOMAIN drafts : drafts[k] \in SignedMails)
       /\ DraftMoney(drafts) = sum
  BY <1>2, <1>10, <1>11, <1>12, ShortDomains, DraftMoneyShort
<1>14. \A id \in Unused : mail[id] = NoMail
  BY DEF Unused
<1>15. mail \in Rows /\ Room(drafts) /\ mail' = Inserted(mail, New(drafts))
  BY <1>3, <1>8, <1>12 DEF MailInv
<1>16. SumFunction(Sent(Inserted(mail, New(drafts)))) = SumFunction(Sent(mail)) + DraftMoney(drafts)
  BY <1>13, <1>14, <1>15, NewSum
<1>17. SumFunction(Sent(mail')) = SumFunction(Sent(mail)) + sum
  BY <1>13, <1>15, <1>16
<1> QED BY <1>2, <1>4, <1>6, <1>8, <1>9, <1>17, PartTypes DEF Total

LEMMA ReturnMoney ==
  ASSUME MailInv, AuctionInv, BoxesTrue, NEW p \in Players, NEW id \in MailIds,
         HandleMailReturnToSender(p, id), auction' = auction
  PROVE  Total' = Total
<1>1. PICK m, drafts, rows : m = box[p][id] /\ drafts = SentBack(m) /\ rows = [mail EXCEPT ![id] = NoMail]
  OBVIOUS
<1>2. /\ Open(p, id) /\ Room(drafts) /\ mail' = Inserted(rows, New(drafts))
      /\ sunk' = sunk + (IF m.kind = "auction" THEN m.money ELSE 0) /\ purse' = purse
  BY <1>1 DEF HandleMailReturnToSender, memory
<1>3. mail[id] = m /\ m \in SignedMails
  BY <1>1, <1>2, TrueMail DEF Open, InWorld, Connected
<1>4. mail \in Rows /\ rows \in Rows /\ m # NoMail /\ m.money \in Nat
  BY <1>1, <1>3, MailFields DEF MailInv, Rows
<1>5. rows[id] = NoMail /\ \A k \in MailIds \ {id} : rows[k] = mail[k]
  BY <1>1, <1>4 DEF Rows
<1>6. SumFunction(Sent(rows)) = SumFunction(Sent(mail)) - m.money
  <2>1. \A k \in MailIds \ {id} : Sent(rows)[k] = Sent(mail)[k]
    BY <1>4, <1>5, SentTypes
  <2>2. \A k \in {id} : rows[k] = NoMail
    BY <1>5
  <2>3. SumFunction(Sent(rows)) = SumFunction(Sent(mail)) - SumFunctionOnSet(Sent(mail), {id})
    BY <1>4, <2>1, <2>2, ClearedSum
  <2>4. Sent(mail)[id] = m.money
    BY <1>3, <1>4, SentTypes
  <2>5. PICK f : f = Sent(mail)
    OBVIOUS
  <2>6. f[id] = m.money
    BY <2>4, <2>5
  <2>7. f[id] \in Int
    BY <1>4, <2>6
  <2>8. SumFunctionOnSet(f, {id}) = f[id]
    BY <2>7, SumOfOne
  <2> QED BY <2>3, <2>5, <2>6, <2>8
<1>7. IsFiniteSet(DOMAIN drafts) /\ \A k \in DOMAIN drafts : drafts[k] \in SignedMails
  BY <1>1, <1>3, SentBackTypes
<1>8. \A k \in Unused : rows[k] = NoMail
  BY <1>1, <1>4, <1>5 DEF Unused
<1>9. /\ SumFunction(Sent(Inserted(rows, New(drafts)))) = SumFunction(Sent(rows)) + DraftMoney(drafts)
      /\ DraftMoney(drafts) \in Int
  BY <1>2, <1>4, <1>7, <1>8, NewSum
<1>10. DraftMoney(drafts) = IF m.kind = "auction" THEN 0 ELSE m.money
  <2>1. CASE m.kind = "auction"
    BY <1>1, <2>1, DraftMoneyShort DEF SentBack
  <2>2. CASE m.kind # "auction"
    <3>1. PICK d : d = Draft(m.receiver, m.sender, m.money, 0, m.items, "returned")
      OBVIOUS
    <3>2. drafts = <<d>> /\ d.money = m.money
      BY <1>1, <2>2, <3>1 DEF SentBack, Draft
    <3>3. DraftMoney(<<d>>) = m.money
      BY <1>4, <3>2, DraftMoneyShort
    <3> QED BY <2>2, <3>2, <3>3
  <2> QED BY <2>1, <2>2
<1>11. SumFunction(Sent(mail')) = SumFunction(Sent(rows)) + DraftMoney(drafts)
  BY <1>2, <1>9
<1> QED BY <1>2, <1>4, <1>6, <1>10, <1>11, PartTypes DEF Total

LEMMA TakeItemMoney ==
  ASSUME MailInv, AuctionInv, BoxesTrue, NEW p \in Players, NEW id \in MailIds, NEW i \in Items,
         HandleMailTakeItem(p, id, i), auction' = auction
  PROVE  Total' = Total
<1>1. PICK m, rest, drafts, taken, rows :
        /\ m = box[p][id] /\ rest = Without(m, i) /\ drafts = Payment(m) /\ taken = m.items \ rest.items
        /\ rows = _SaveMail(p, mail, id, rest, taken)
  OBVIOUS
<1>2. /\ Open(p, id) /\ purse[p] >= m.cod /\ Room(drafts)
      /\ purse' = [purse EXCEPT ![p] = Debit(purse[p], m.cod)]
      /\ mail' = Inserted(rows, New(drafts)) /\ sunk' = sunk + DeletedMoney(p)
  BY <1>1 DEF HandleMailTakeItem
<1>3. m \in SignedMails
  BY <1>1, <1>2, OpenMail
<1>4. rest \in SignedMails /\ rest.cod = 0 /\ rest.money = m.money /\ m.cod \in Nat /\ m.money \in Nat
  BY <1>1, <1>3, WithoutType, MailFields
<1>5. /\ SumFunction(Sent(rows)) = SumFunction(Sent(mail)) - DeletedMoney(p) - mail[id].money + rest.money
      /\ mail[id] = box[p][id]
  BY <1>1, <1>2, <1>4, SavedSum
<1>6. rows \in Rows
  BY <1>1, <1>4, SavedRows
<1>7. SumFunction(purse') = SumFunction(purse) - m.cod
  BY <1>2, <1>4, PaidSum DEF MailInv, MailPartsOK, Money
<1>8. IsFiniteSet(DOMAIN drafts) /\ \A k \in DOMAIN drafts : drafts[k] \in SignedMails
  BY <1>1, <1>3, PaymentTypes
<1>9. \A k \in Unused : rows[k] = NoMail
  BY <1>1 DEF Unused, _SaveMail
<1>10. SumFunction(Sent(Inserted(rows, New(drafts)))) = SumFunction(Sent(rows)) + DraftMoney(drafts)
  BY <1>2, <1>6, <1>8, <1>9, NewSum
<1>11. DraftMoney(drafts) = m.cod
  <2>1. CASE m.cod > 0
    <3>1. PICK d : d = Draft(m.receiver, m.sender, m.cod, 0, {}, "payment")
      OBVIOUS
    <3>2. drafts = <<d>> /\ d.money = m.cod
      BY <1>1, <2>1, <3>1 DEF Payment, Draft
    <3> QED BY <1>4, <3>2, DraftMoneyShort
  <2>2. CASE m.cod = 0
    BY <1>1, <2>2, DraftMoneyShort DEF Payment
  <2> QED BY <1>4, <2>1, <2>2
<1>12. SumFunction(Sent(mail')) = SumFunction(Sent(mail)) - DeletedMoney(p) + m.cod
  <2>1. SumFunction(Sent(mail')) = SumFunction(Sent(rows)) + m.cod
    BY <1>2, <1>10, <1>11
  <2>2. SumFunction(Sent(rows)) = SumFunction(Sent(mail)) - DeletedMoney(p) - m.money + m.money
    BY <1>1, <1>4, <1>5
  <2> QED BY <1>4, <2>1, <2>2, PartTypes, DeletedTypes
<1> QED BY <1>2, <1>4, <1>7, <1>12, PartTypes, DeletedTypes DEF Total

LEMMA TakeMoneyMoney ==
  ASSUME MailInv, AuctionInv, BoxesTrue, NEW p \in Players, NEW id \in MailIds,
         HandleMailTakeMoney(p, id), auction' = auction
  PROVE  Total' = Total
<1>1. PICK m, rest, paid :
        m = box[p][id] /\ rest = [m EXCEPT !.money = 0] /\ paid = Credit(purse[p], m.money)
  OBVIOUS
<1>2. /\ Open(p, id) /\ m.money > 0 /\ paid # purse[p]
      /\ purse' = [purse EXCEPT ![p] = paid] /\ mail' = _SaveMail(p, mail, id, rest, {})
      /\ sunk' = sunk + DeletedMoney(p)
  BY <1>1 DEF HandleMailTakeMoney
<1>3. m \in SignedMails /\ mail[id] = m
  BY <1>1, <1>2, TrueMail DEF Open, InWorld, Connected
<1>4. /\ m \in Mails /\ (m.kind # "normal" => m.cod = 0) /\ (m.kind = "auction" => m.cod = 0) /\ (m.kind # "auction" => m.sender \in Players)
      /\ m.money \in Nat
  BY <1>3, MailFields, AsksOnce
<1>5. /\ rest \in Mails /\ rest.kind = m.kind /\ rest.sender = m.sender /\ rest.cod = m.cod
      /\ rest.money = 0
  BY <1>1, <1>4 DEF Mails
<1>6. rest \in SignedMails
  BY <1>4, <1>5 DEF SignedMails, Signed
<1>7. SumFunction(Sent(mail')) = SumFunction(Sent(mail)) - DeletedMoney(p) - m.money + 0
  BY <1>2, <1>3, <1>5, <1>6, SavedSum
<1>8. PICK coins, next : coins = purse /\ next = purse'
  OBVIOUS
<1>9. coins \in [Players -> Money] /\ coins[p] \in Nat
  BY <1>8 DEF MailInv, MailPartsOK, Money
<1>10. paid \in Money /\ paid = coins[p] + m.money
  BY <1>1, <1>2, <1>4, <1>8, <1>9, PurseTypes DEF Credit
<1>11. SumFunction(next) = SumFunction(coins) - coins[p] + paid /\ SumFunction(coins) \in Int
  BY <1>2, <1>8, <1>9, <1>10, PurseSum
<1>12. SumFunction(purse') = SumFunction(purse) + m.money
  BY <1>4, <1>8, <1>9, <1>10, <1>11
<1> QED BY <1>2, <1>4, <1>7, <1>12, PartTypes, DeletedTypes DEF Total

LEMMA LogoutMoney ==
  ASSUME MailInv, AuctionInv, BoxesTrue, NEW p \in Players, Logout(p), auction' = auction
  PROVE  Total' = Total
<1>1. PICK next, D : next = mail' /\ D = deleted[p]
  OBVIOUS
<1>2. /\ next = [id \in MailIds |-> IF id \in D THEN NoMail ELSE mail[id]]
      /\ purse' = purse /\ sunk' = sunk + DeletedMoney(p)
  BY <1>1 DEF Logout, memory
<1>3. mail \in Rows /\ next \in Rows /\ D \in SUBSET MailIds
  BY <1>1, <1>2, DeletedTypes DEF MailInv, Rows
<1>4. \A k \in MailIds \ D : Sent(next)[k] = Sent(mail)[k]
  BY <1>2, <1>3, SentTypes
<1>5. \A k \in D : next[k] = NoMail
  BY <1>2, <1>3
<1>6. SumFunction(Sent(next)) = SumFunction(Sent(mail)) - SumFunctionOnSet(Sent(mail), D)
  BY <1>3, <1>4, <1>5, ClearedSum
<1>7. SumFunctionOnSet(Sent(mail), D) = DeletedMoney(p)
  BY <1>1, DeletedSum
<1> QED BY <1>1, <1>2, <1>6, <1>7, PartTypes, DeletedTypes DEF Total

\* So do logouts, time and the processing of old mails.
LEMMA ExpireMoney ==
  ASSUME MailInv, AuctionInv, NEW id \in MailIds, Expire(id), auction' = auction
  PROVE  Total' = Total
<1>1. PICK next : next = mail'
  OBVIOUS
<1>2. next = [mail EXCEPT ![id] = Aged(@)] /\ purse' = purse /\ sunk' = sunk /\ mail \in Rows
  BY <1>1, ExpireStep DEF MailInv
<1>3. mail[id] # NoMail /\ mail[id] \in SignedMails
  BY <1>2, ExpireStep, MailboxType
<1>4. Aged(mail[id]) \in SignedMails /\ Aged(mail[id]) # NoMail /\ Aged(mail[id]).money = mail[id].money
  <2>1. PICK m \in SignedMails : m = mail[id]
    BY <1>3
  <2>2. m # NoMail /\ m \in SignedMails \cup {NoMail}
    BY <2>1, MailFields
  <2>3. Aged(m) \in SignedMails /\ Aged(m).money = m.money
    BY <2>2, AgedType
  <2>4. Aged(m) # NoMail
    BY <2>3, MailFields
  <2> QED BY <2>1, <2>3, <2>4
<1>5. next \in Rows /\ next[id] = Aged(mail[id]) /\ \A k \in MailIds \ {id} : next[k] = mail[k]
  BY <1>2, <1>4 DEF Rows
<1>6. ASSUME NEW k \in MailIds PROVE Sent(next)[k] = Sent(mail)[k]
  <2>1. next[k] = NoMail <=> mail[k] = NoMail
    BY <1>3, <1>4, <1>5
  <2>2. mail[k] # NoMail => next[k].money = mail[k].money
    BY <1>4, <1>5
  <2>3. Sent(next)[k] = IF next[k] = NoMail THEN 0 ELSE next[k].money
    BY <1>5, SentTypes
  <2>4. Sent(mail)[k] = IF mail[k] = NoMail THEN 0 ELSE mail[k].money
    BY <1>2, SentTypes
  <2> QED BY <2>1, <2>2, <2>3, <2>4
<1>7. SumFunction(Sent(next)) = SumFunction(Sent(mail))
  BY <1>2, <1>5, <1>6, SameSum
<1> QED BY <1>1, <1>2, <1>7 DEF Total

LEMMA StrippedSum ==
  ASSUME NEW rows \in Rows, NEW gone
  PROVE  SumFunction(Sent(Stripped(rows, gone))) = SumFunction(Sent(rows))
<1>1. PICK next \in Rows : next = Stripped(rows, gone)
  BY StrippedType
<1>2. ASSUME NEW k \in MailIds PROVE Sent(next)[k] = Sent(rows)[k]
  <2>1. CASE rows[k] = NoMail
    BY <1>1, <2>1, SentTypes DEF Stripped
  <2>2. CASE rows[k] # NoMail
    <3>1. PICK r \in SignedMails : next[k] = Tidy(r) /\ r.money = rows[k].money
      BY <1>1, <2>2, StrippedRow
    <3>2. r.money \in Nat /\ r # NoMail
      BY MailFields
    <3>3. Sent(next)[k] = r.money
      BY <1>1, <3>1, <3>2, SentTypes DEF Tidy, Carries
    <3> QED BY <2>2, <3>1, <3>3, SentTypes
  <2> QED BY <2>1, <2>2
<1> QED BY <1>1, <1>2, SameSum

LEMMA ProcessedMoney ==
  ASSUME MailInv, AuctionInv, NEW done \in SUBSET OldRows,
         SumFunction(Sent(mail')) = SumFunction(Sent(ProcessedRows(done))),
         sunk' = sunk + RowsMoney(DeletableRows(done)), purse' = purse, auction' = auction
  PROVE  Total' = Total
BY ProcessedSum, PartTypes DEF Total

\* The mails that are posted take their money with them.
LEMMA PostMoney ==
  ASSUME MailInv, NEW drafts, IsFiniteSet(DOMAIN drafts),
         \A k \in DOMAIN drafts : drafts[k] \in SignedMails, Post(drafts)
  PROVE  /\ SumFunction(Sent(mail')) = SumFunction(Sent(mail)) + DraftMoney(drafts)
         /\ DraftMoney(drafts) \in Int
<1>1. mail \in Rows /\ Room(drafts) /\ mail' = Inserted(mail, New(drafts))
  BY DEF MailInv, Post
<1>2. \A id \in Unused : mail[id] = NoMail
  BY DEF Unused
<1>3. /\ SumFunction(Sent(Inserted(mail, New(drafts)))) = SumFunction(Sent(mail)) + DraftMoney(drafts)
      /\ DraftMoney(drafts) \in Int
  BY <1>1, <1>2, NewSum
<1> QED BY <1>1, <1>3

\* The actions of the auction house keep the total.
LEMMA SellMoney ==
  ASSUME MailInv, AuctionInv, NEW p \in Players, NEW i \in Items, NEW start \in Prices, NEW price \in Prices \cup {0},
         HandleAuctionSellItem(p, i, start, price)
  PROVE  Total' = Total
<1>1. PICK a, x : a = (CHOOSE b \in Free : TRUE) /\ x = NewAuction(p, i, start, price)
  OBVIOUS
<1>2. /\ Free # {} /\ purse[p] >= Deposit /\ mail' = mail /\ sunk' = sunk
      /\ purse' = [purse EXCEPT ![p] = Debit(purse[p], Deposit)]
      /\ auction' = [auction EXCEPT ![a] = x]
  BY <1>1 DEF HandleAuctionSellItem
<1>3. a \in AuctionIds /\ auction[a] = NoAuction
  BY <1>1, <1>2 DEF Free, Live
<1>4. x \in Auctions /\ x.bid = 0 /\ x.deposit = Deposit
  <2>1. start \in Nat /\ price \in Nat /\ Deposit \in Nat
    BY AuctionAssumption, MailAssumption
  <2> QED BY <1>1, <2>1 DEF NewAuction, Auctions
<1>5. Deposit \in Nat /\ Deposit <= purse[p]
  BY <1>2, AuctionAssumption DEF MailInv, MailPartsOK, Money
<1>6. SumFunction(purse') = SumFunction(purse) - Deposit
  BY <1>2, <1>5, PaidSum
<1>7. PICK xs, next : xs = auction /\ next = auction'
  OBVIOUS
<1>8. xs \in AuctionRows /\ next = [xs EXCEPT ![a] = x]
  BY <1>2, <1>7 DEF AuctionInv, AuctionRows
<1>9. SumFunction(Paid(next)) = SumFunction(Paid(xs)) - Paid(xs)[a] + x.bid + x.deposit
  BY <1>3, <1>4, <1>8, PaidEntered
<1>10. Paid(xs)[a] = 0
  BY <1>3, <1>7, <1>8, PaidTypes
<1>11. SumFunction(Paid(auction')) = SumFunction(Paid(auction)) + Deposit
  <2>1. SumFunction(Paid(auction)) \in Int
    BY PartTypes
  <2> QED BY <1>4, <1>5, <1>7, <1>9, <1>10, <2>1
<1> QED BY <1>2, <1>5, <1>6, <1>11, PartTypes DEF Total

\* A bid costs what is not given back to the earlier bidder.
LEMMA OutbidMoney ==
  ASSUME NEW p \in Players, NEW x \in Auctions, x.bidder = None => x.bid = 0, NEW sum \in Nat
  PROVE  /\ DraftMoney(Outbid(p, x)) \in Int
         /\ Due(p, x, sum) = sum - x.bid + DraftMoney(Outbid(p, x))
         /\ DraftMoney(Outbid(p, x)) = IF x.bidder \in {None, p} THEN 0 ELSE x.bid
<1>1. x.bid \in Nat /\ p # None
  BY MailAssumption DEF Auctions
<1>2. CASE x.bidder \in {None, p}
  <2>1. DraftMoney(Outbid(p, x)) = 0
    BY <1>2, DraftMoneyShort DEF Outbid
  <2> QED BY <1>1, <1>2, <2>1 DEF Due
<1>3. CASE x.bidder \notin {None, p}
  <2>1. PICK d : d = OutbiddedMail(x)
    OBVIOUS
  <2>2. d.money = x.bid /\ Outbid(p, x) = <<d>>
    BY <1>3, <2>1 DEF Outbid, OutbiddedMail, FromAuction, Draft
  <2>3. DraftMoney(Outbid(p, x)) = x.bid
    BY <1>1, <2>2, DraftMoneyShort
  <2> QED BY <1>1, <1>3, <2>3 DEF Due
<1> QED BY <1>2, <1>3

LEMMA PlaceBidMoney ==
  ASSUME MailInv, AuctionInv, NEW p \in Players, NEW a \in Live, NEW price \in Prices, PlaceBid(p, a, price)
  PROVE  Total' = Total
<1>1. PICK x, raised, drafts, due :
        /\ x = auction[a] /\ raised = [x EXCEPT !.bidder = p, !.bid = price]
        /\ drafts = Outbid(p, x) /\ due = Due(p, x, price)
  OBVIOUS
<1>2. /\ CanBid(p, x, price) /\ Post(drafts) /\ sunk' = sunk
      /\ purse' = [purse EXCEPT ![p] = Debit(purse[p], due)]
      /\ auction' = [auction EXCEPT ![a] = raised]
  BY <1>1 DEF PlaceBid, Pays
<1>3. x \in Auctions /\ a \in AuctionIds /\ (x.bidder = None => x.bid = 0)
  BY <1>1, LiveAuction
<1>4. price \in Nat /\ x.bid \in Nat /\ x.deposit \in Nat
  BY <1>3, AuctionAssumption DEF Auctions
<1>5. due \in Nat /\ due <= purse[p]
  BY <1>1, <1>2, DueType
<1>6. raised \in Auctions /\ raised.bid = price /\ raised.deposit = x.deposit
  BY <1>1, <1>3, <1>4 DEF Auctions
<1>7. SumFunction(purse') = SumFunction(purse) - due
  BY <1>2, <1>5, PaidSum
<1>8. due = price - x.bid + DraftMoney(drafts) /\ DraftMoney(drafts) \in Int
  BY <1>1, <1>3, <1>4, OutbidMoney
<1>9. SumFunction(Sent(mail')) = SumFunction(Sent(mail)) + DraftMoney(drafts)
  <2>1. IsFiniteSet(DOMAIN drafts) /\ \A k \in DOMAIN drafts : drafts[k] \in SignedMails
    BY <1>1, <1>3, OutbidTypes
  <2> QED BY <1>2, <2>1, PostMoney
<1>10. PICK xs, next : xs = auction /\ next = auction'
  OBVIOUS
<1>11. xs \in AuctionRows /\ next = [xs EXCEPT ![a] = raised]
  BY <1>2, <1>10 DEF AuctionInv, AuctionRows
<1>12. SumFunction(Paid(next)) = SumFunction(Paid(xs)) - Paid(xs)[a] + raised.bid + raised.deposit
  BY <1>3, <1>6, <1>11, PaidEntered
<1>13. Paid(xs)[a] = x.bid + x.deposit
  <2>1. xs[a] # NoAuction /\ xs[a] = x
    BY <1>1, <1>10 DEF Live
  <2> QED BY <1>3, <1>11, <2>1, PaidTypes
<1>14. SumFunction(Paid(auction')) = SumFunction(Paid(auction)) - x.bid + price
  <2>1. SumFunction(Paid(auction)) \in Int
    BY PartTypes
  <2> QED BY <1>4, <1>6, <1>10, <1>12, <1>13, <2>1
<1> QED BY <1>2, <1>4, <1>5, <1>7, <1>8, <1>9, <1>14, PartTypes DEF Total

\* An auction that is closed is paid out.
LEMMA OneClosed ==
  ASSUME AuctionInv, NEW a \in Live, Close({a})
  PROVE  SumFunction(Paid(auction')) = SumFunction(Paid(auction)) - auction[a].bid - auction[a].deposit
<1>1. PICK xs, next, f, x : xs = auction /\ next = auction' /\ f = Paid(xs) /\ x = auction[a]
  OBVIOUS
<1>2. /\ a \in AuctionIds /\ x # NoAuction /\ xs \in AuctionRows
      /\ next = [b \in AuctionIds |-> IF b \in {a} THEN NoAuction ELSE xs[b]]
  BY <1>1 DEF AuctionInv, AuctionRows, Live, Close
<1>3. SumFunction(Paid(next)) = SumFunction(Paid(xs)) - SumFunctionOnSet(Paid(xs), {a})
  BY <1>2, PaidClosed
<1>4. f[a] = x.bid + x.deposit /\ f[a] \in Int
  BY <1>1, <1>2, PaidTypes
<1>5. SumFunctionOnSet(f, {a}) = f[a]
  BY <1>4, SumOfOne
<1>6. SumFunction(Paid(xs)) \in Int /\ x.bid \in Nat /\ x.deposit \in Nat
  BY <1>1, <1>2, PaidTypes DEF AuctionRows, Auctions
<1> QED BY <1>1, <1>3, <1>4, <1>5, <1>6

LEMMA BuyoutMoney ==
  ASSUME MailInv, AuctionInv, NEW p \in Players, NEW a \in Live, NEW price \in Prices, Buyout(p, a, price)
  PROVE  Total' = Total
<1>1. PICK x, sold, drafts, due :
        /\ x = auction[a] /\ sold = [x EXCEPT !.bidder = p, !.bid = x.buyout]
        /\ drafts = Outbid(p, x) \o Outcome(sold) /\ due = Due(p, x, x.buyout)
  OBVIOUS
<1>2. /\ CanBid(p, x, price) /\ x.buyout # 0 /\ price >= x.buyout
      /\ Post(drafts) /\ sunk' = sunk + AuctionCut(sold)
      /\ purse' = [purse EXCEPT ![p] = Debit(purse[p], due)] /\ Close({a})
  BY <1>1 DEF Buyout, Pays
<1>3. x \in Auctions /\ a \in AuctionIds /\ (x.bidder = None => x.bid = 0)
  BY <1>1, LiveAuction
<1>4. x.bid \in Nat /\ x.deposit \in Nat /\ x.buyout \in Nat
  BY <1>3 DEF Auctions
<1>5. due \in Nat /\ due <= purse[p]
  <2>1. x.buyout <= price
    BY <1>2, <1>4, AuctionAssumption
  <2> QED BY <1>1, <1>2, <2>1, DueType
<1>6. /\ sold \in Auctions /\ sold.bid = x.buyout /\ sold.deposit = x.deposit /\ sold.bidder = p
      /\ AuctionCut(sold) \in Nat
  <2>1. sold \in Auctions /\ sold.bid = x.buyout /\ sold.deposit = x.deposit /\ sold.bidder = p
    BY <1>1, <1>3, <1>4 DEF Auctions
  <2> QED BY <2>1, CutBound
<1>7. SumFunction(purse') = SumFunction(purse) - due
  BY <1>2, <1>5, PaidSum
<1>8. PICK back : back = DraftMoney(Outbid(p, x))
  OBVIOUS
<1>9. due = x.buyout - x.bid + back /\ back = IF x.bidder \in {None, p} THEN 0 ELSE x.bid
  BY <1>1, <1>3, <1>4, <1>8, OutbidMoney
<1>10. DraftMoney(drafts) = back + x.buyout + x.deposit - AuctionCut(sold)
  <2>1. PICK d, e, f : d = OutbiddedMail(x) /\ e = SuccessfulMail(sold) /\ f = WonMail(sold)
    OBVIOUS
  <2>2. d.money = x.bid /\ e.money = Profit(sold) /\ f.money = 0
    BY <2>1 DEF OutbiddedMail, SuccessfulMail, WonMail, FromAuction, Draft
  <2>3. Profit(sold) = x.buyout + x.deposit - AuctionCut(sold)
    BY <1>6 DEF Profit
  <2>4. drafts = IF x.bidder \in {None, p} THEN <<e, f>> ELSE <<d, e, f>>
    <3>1. x \in Auctions /\ sold \in Auctions /\ sold.bidder = p
      BY <1>3, <1>6
    <3>2. Outbid(p, x) \o Outcome(sold) =
            IF x.bidder \in {None, p} THEN <<SuccessfulMail(sold), WonMail(sold)>>
            ELSE <<OutbiddedMail(x), SuccessfulMail(sold), WonMail(sold)>>
      BY <3>1, BuyoutMails
    <3> QED BY <1>1, <2>1, <3>2
  <2>5. d.money \in Int /\ e.money \in Int /\ f.money \in Int
    BY <1>4, <1>6, <2>2, <2>3
  <2>6. DraftMoney(<<e, f>>) = e.money + f.money /\ DraftMoney(<<d, e, f>>) = d.money + e.money + f.money
    BY <2>5, DraftMoneyShort
  <2>7. CASE x.bidder \in {None, p}
    BY <1>4, <1>6, <1>9, <2>2, <2>3, <2>4, <2>6, <2>7
  <2>8. CASE x.bidder \notin {None, p}
    BY <1>4, <1>6, <1>9, <2>2, <2>3, <2>4, <2>6, <2>8
  <2> QED BY <2>7, <2>8
<1>11. SumFunction(Sent(mail')) = SumFunction(Sent(mail)) + DraftMoney(drafts)
  <2>1. IsFiniteSet(DOMAIN drafts) /\ \A k \in DOMAIN drafts : drafts[k] \in SignedMails
    BY <1>1, <1>3, <1>6, BuyoutTypes
  <2> QED BY <1>2, <2>1, PostMoney
<1>12. SumFunction(Paid(auction')) = SumFunction(Paid(auction)) - x.bid - x.deposit
  BY <1>1, <1>2, OneClosed
<1>13. back \in Int
  BY <1>4, <1>9
<1> QED BY <1>2, <1>4, <1>6, <1>7, <1>9, <1>10, <1>11, <1>12, <1>13, PartTypes DEF Total

LEMMA CancelMoney ==
  ASSUME MailInv, AuctionInv, NEW p \in Players, NEW a \in Live, HandleAuctionRemoveItem(p, a)
  PROVE  Total' = Total
<1>1. PICK x, due, drafts :
        /\ x = auction[a] /\ due = (IF x.bidder = None THEN 0 ELSE AuctionCut(x)) /\ drafts = Refunds(x)
  OBVIOUS
<1>2. /\ purse[p] >= due /\ Post(drafts) /\ Close({a}) /\ sunk' = sunk + due + x.deposit
      /\ purse' = [purse EXCEPT ![p] = Debit(purse[p], due)]
  BY <1>1 DEF HandleAuctionRemoveItem, Pays, Refunds
<1>3. x \in Auctions /\ a \in AuctionIds /\ (x.bidder = None => x.bid = 0)
  BY <1>1, LiveAuction
<1>4. x.bid \in Nat /\ x.deposit \in Nat
  BY <1>3 DEF Auctions
<1>5. due \in Nat /\ due <= purse[p]
  <2>1. due \in Nat
    BY <1>1, <1>3, CutBound
  <2>2. purse[p] \in Nat
    BY DEF MailInv, MailPartsOK, Money
  <2> QED BY <1>2, <2>1, <2>2
<1>6. SumFunction(purse') = SumFunction(purse) - due
  BY <1>2, <1>5, PaidSum
<1>7. DraftMoney(drafts) = x.bid
  <2>1. PICK d, e : d = OutbiddedMail(x) /\ e = ExpiredMail(x)
    OBVIOUS
  <2>2. d.money = x.bid /\ e.money = 0
    BY <2>1 DEF OutbiddedMail, ExpiredMail, FromAuction, Draft
  <2>3. drafts = IF x.bidder = None THEN <<e>> ELSE <<d, e>>
    BY <1>1, <2>1, RefundMails
  <2>4. d.money \in Int /\ e.money \in Int
    BY <1>4, <2>2
  <2>5. DraftMoney(<<e>>) = e.money /\ DraftMoney(<<d, e>>) = d.money + e.money
    BY <2>4, DraftMoneyShort
  <2>6. CASE x.bidder = None
    BY <1>3, <2>2, <2>3, <2>5, <2>6
  <2>7. CASE x.bidder # None
    BY <1>4, <2>2, <2>3, <2>5, <2>7
  <2> QED BY <2>6, <2>7
<1>8. SumFunction(Sent(mail')) = SumFunction(Sent(mail)) + DraftMoney(drafts)
  <2>1. IsFiniteSet(DOMAIN drafts) /\ \A k \in DOMAIN drafts : drafts[k] \in SignedMails
    BY <1>1, <1>3, RefundTypes
  <2> QED BY <1>2, <2>1, PostMoney
<1>9. SumFunction(Paid(auction')) = SumFunction(Paid(auction)) - x.bid - x.deposit
  BY <1>1, <1>2, OneClosed
<1> QED BY <1>2, <1>4, <1>5, <1>6, <1>7, <1>8, <1>9, PartTypes DEF Total

\* What has been paid for auctions is what their ends send and what the house keeps.
LEMMA OutcomesMoney ==
  ASSUME AuctionInv, NEW done \in SUBSET Live
  PROVE  SumFunctionOnSet(Paid(auction), done) =
           DraftMoney(Outcomes(done)) + SumFunction([a \in done |-> HouseShare(auction[a])])
<1> DEFINE outcome(a) == Outcome(auction[a])
<1>1. PICK N, h, f, g, share, first :
        /\ N = DOMAIN Outcomes(done) /\ h = [k \in N |-> Outcomes(done)[k].money]
        /\ f = Paid(auction) /\ g = [a \in done |-> outcome(a)[1].money]
        /\ share = [a \in done |-> HouseShare(auction[a])]
        /\ first = {k \in N : k[2] = 1}
  OBVIOUS
<1>2. /\ IsFiniteSet(done) /\ IsFiniteSet(N) /\ N = UNION {{a} \X DOMAIN outcome(a) : a \in done}
      /\ \A k \in N : /\ k[1] \in done /\ k[2] \in DOMAIN outcome(k[1]) /\ k = <<k[1], k[2]>>
                      /\ h[k] = outcome(k[1])[k[2]].money
  BY <1>1, OutcomesTypes
<1>3. ASSUME NEW a \in done
      PROVE  /\ 1 \in DOMAIN outcome(a) /\ DOMAIN outcome(a) \subseteq {1, 2}
             /\ outcome(a)[1].money = (IF auction[a].bidder = None THEN 0 ELSE Profit(auction[a]))
             /\ outcome(a)[1].money \in Nat
             /\ 2 \in DOMAIN outcome(a) => outcome(a)[2].money = 0
             /\ f[a] = outcome(a)[1].money + HouseShare(auction[a])
             /\ HouseShare(auction[a]) \in Nat
  <2>1. PICK x : x = auction[a]
    OBVIOUS
  <2>2. x \in Auctions /\ a \in AuctionIds /\ (x.bidder = None => x.bid = 0) /\ x # NoAuction
    BY <2>1, LiveAuction DEF Live
  <2>3. /\ AuctionCut(x) \in Nat /\ Profit(x) \in Nat /\ HouseShare(x) \in Nat
        /\ x.bid \in Nat /\ x.deposit \in Nat
    BY <2>2, CutBound DEF Auctions
  <2>4. f[a] = x.bid + x.deposit
    BY <1>1, <2>1, <2>2, PaidTypes DEF AuctionInv, AuctionRows
  <2>5. CASE x.bidder = None
    <3>1. outcome(a) = <<ExpiredMail(x)>> /\ ExpiredMail(x).money = 0
      BY <2>1, <2>5 DEF Outcome, ExpiredMail, FromAuction, Draft
    <3>2. DOMAIN outcome(a) = {1} /\ outcome(a)[1].money = 0
      BY <3>1
    <3> QED BY <2>1, <2>2, <2>3, <2>4, <2>5, <3>2 DEF HouseShare
  <2>6. CASE x.bidder # None
    <3>1. /\ outcome(a) = <<SuccessfulMail(x), WonMail(x)>>
          /\ SuccessfulMail(x).money = Profit(x) /\ WonMail(x).money = 0
      BY <2>1, <2>6 DEF Outcome, SuccessfulMail, WonMail, FromAuction, Draft
    <3>2. DOMAIN outcome(a) = {1, 2} /\ outcome(a)[1].money = Profit(x) /\ outcome(a)[2].money = 0
      BY <3>1
    <3>3. HouseShare(x) = AuctionCut(x) /\ f[a] = Profit(x) + AuctionCut(x)
      BY <2>3, <2>4, <2>6 DEF HouseShare, Profit
    <3> QED BY <2>1, <2>3, <2>6, <3>2, <3>3
  <2> QED BY <2>5, <2>6
<1> HIDE DEF outcome
<1>4. first \in SUBSET N /\ IsFiniteSet(first)
  BY <1>1, <1>2, FS_Subset
<1>5. \A k \in N : k[2] = 1 \/ k[2] = 2
  BY <1>2, <1>3
<1>6. ASSUME NEW k \in first PROVE h[k] = g[k[1]] /\ h[k] \in Int /\ k[1] \in done
  <2>1. k \in N /\ k[2] = 1 /\ k[1] \in done
    BY <1>1, <1>2
  <2>2. h[k] = outcome(k[1])[1].money
    BY <1>2, <2>1
  <2>3. outcome(k[1])[1].money \in Nat /\ g[k[1]] = outcome(k[1])[1].money
    BY <1>1, <1>3, <2>1
  <2> QED BY <2>1, <2>2, <2>3
<1>7. ASSUME NEW k \in N \ first PROVE h[k] = 0
  <2>1. k \in N /\ k[2] = 2 /\ k[1] \in done /\ k[2] \in DOMAIN outcome(k[1])
    BY <1>1, <1>2, <1>5
  <2>2. h[k] = outcome(k[1])[2].money
    BY <1>2, <2>1
  <2> QED BY <1>3, <2>1, <2>2
<1>8. SumFunctionOnSet(h, N) = SumFunctionOnSet(h, first)
  BY <1>2, <1>4, <1>6, <1>7, SumOnSubset
<1>9. PICK b : b = [k \in first |-> k[1]]
  OBVIOUS
<1>10. SumFunctionOnSet(h, first) = SumFunctionOnSet(g, done)
  <2>1. b \in [first -> done] /\ \A k \in first : b[k] = k[1]
    BY <1>6, <1>9
  <2>2. ASSUME NEW y \in first, NEW z \in first, b[y] = b[z] PROVE y = z
    <3>1. y = <<y[1], y[2]>> /\ z = <<z[1], z[2]>> /\ y[2] = 1 /\ z[2] = 1 /\ y[1] = z[1]
      BY <1>1, <1>2, <1>4, <2>1, <2>2
    <3> QED BY <3>1
  <2>3. ASSUME NEW a \in done PROVE \E k \in first : b[k] = a
    <3>1. <<a, 1>> \in {a} \X DOMAIN outcome(a)
      BY <1>3
    <3>2. <<a, 1>> \in N
      BY <1>2, <3>1
    <3>3. <<a, 1>> \in first
      BY <1>1, <3>2
    <3> QED BY <2>1, <3>3
  <2>4. \A k \in first : h[k] = g[b[k]] /\ h[k] \in Int
    BY <1>6, <2>1
  <2>5. \A y \in first, z \in first : b[y] = b[z] => y = z
    BY <2>2
  <2> QED BY <1>2, <1>4, <2>1, <2>3, <2>4, <2>5, SumReindex
<1>11. \A a \in done : g[a] \in Int /\ share[a] \in Int /\ f[a] = g[a] + share[a]
  BY <1>1, <1>3
<1>12. SumFunctionOnSet(f, done) = SumFunctionOnSet(g, done) + SumFunctionOnSet(share, done)
  BY <1>2, <1>11, SumPlus
<1>13. SumFunction(share) = SumFunctionOnSet(share, done)
  BY <1>1 DEF SumFunction
<1>14. DraftMoney(Outcomes(done)) = SumFunctionOnSet(h, N)
  BY <1>1 DEF DraftMoney, SumFunction
<1> QED BY <1>1, <1>8, <1>10, <1>12, <1>13, <1>14

LEMMA UpdateMoney ==
  ASSUME MailInv, AuctionInv, NEW done \in SUBSET Live, Update(done)
  PROVE  Total' = Total
<1>1. PICK drafts, shares : drafts = Outcomes(done) /\ shares = SumFunction([a \in done |-> HouseShare(auction[a])])
  OBVIOUS
<1>2. Post(drafts) /\ Close(done) /\ sunk' = sunk + shares /\ purse' = purse
  BY <1>1 DEF Update, memory
<1>3. IsFiniteSet(DOMAIN drafts) /\ \A k \in DOMAIN drafts : drafts[k] \in SignedMails
  BY <1>1, OutcomesTypes
<1>4. SumFunction(Sent(mail')) = SumFunction(Sent(mail)) + DraftMoney(drafts) /\ DraftMoney(drafts) \in Int
  BY <1>2, <1>3, PostMoney
<1>5. PICK xs, next : xs = auction /\ next = auction'
  OBVIOUS
<1>6. /\ xs \in AuctionRows /\ done \in SUBSET AuctionIds
      /\ next = [a \in AuctionIds |-> IF a \in done THEN NoAuction ELSE xs[a]]
  BY <1>2, <1>5 DEF AuctionInv, AuctionRows, Live, Close
<1>7. SumFunction(Paid(next)) = SumFunction(Paid(xs)) - SumFunctionOnSet(Paid(xs), done)
  BY <1>6, PaidClosed
<1>8. SumFunctionOnSet(Paid(auction), done) = DraftMoney(drafts) + shares
  BY <1>1, OutcomesMoney
<1>9. SumFunction(Paid(auction')) = SumFunction(Paid(auction)) - DraftMoney(drafts) - shares
  <2>1. SumFunction(Paid(auction)) \in Int /\ shares \in Nat
    BY <1>1, PartTypes, SharesType
  <2> QED BY <1>4, <1>5, <1>7, <1>8, <2>1
<1>10. shares \in Nat
  BY <1>1, SharesType
<1> QED BY <1>2, <1>4, <1>9, <1>10, PartTypes DEF Total

\* A crash, unless it falls into the processing of mails by rows that are out of date: some old
\* mails have been processed, and another one may have lost items.
LEMMA CrashStep ==
  ASSUME MailInv, SeenInv, MailCrash, ~crossed'
  PROVE  \E done \in SUBSET OldRows, gone \in SUBSET Items :
           /\ mail' = Stripped(ProcessedRows(done), gone) /\ sunk' = sunk + RowsMoney(DeletableRows(done))
           /\ wasted' = wasted \cup RowsGoods(DeletableRows(done)) \cup gone
           /\ \/ gone = {}
              \/ \E id \in OldRows : id \notin done /\ ~Returnable(mail[id]) /\ gone \subseteq mail[id].items
<1>1. PICK done, part, gone :
        /\ done \in SUBSET Old /\ part \in {{}} \cup {{id} : id \in Deletable(Old \ done)} /\ gone \in SUBSET GoodsIn(part)
        /\ mail' = Stripped(Processed(done), gone) /\ sunk' = sunk + MoneyIn(Deletable(done))
        /\ wasted' = wasted \cup GoodsIn(Deletable(done)) \cup gone
        /\ crossed' = (crossed \/ Outdated(done \cup part))
  BY DEF MailCrash
<1>3. \A id \in done \cup part : seen[id] = mail[id]
  BY <1>1 DEF Outdated
<1>4. ~Outdated(done)
  BY <1>3 DEF Outdated
<1>5. /\ done \in SUBSET OldRows /\ Processed(done) = ProcessedRows(done)
      /\ MoneyIn(Deletable(done)) = RowsMoney(DeletableRows(done))
      /\ GoodsIn(Deletable(done)) = RowsGoods(DeletableRows(done))
  BY <1>1, <1>4, TrueOld
<1>6. gone \in SUBSET Items
  <2>1. part \in SUBSET Old
    BY <1>1 DEF Deletable
  <2> QED BY <1>1, <2>1, SeenTypes
<1>7. gone = {} \/ \E id \in OldRows : id \notin done /\ ~Returnable(mail[id]) /\ gone \subseteq mail[id].items
  <2>1. CASE part = {}
    BY <1>1, <2>1 DEF GoodsIn
  <2>2. CASE part # {}
    <3>1. PICK id \in Deletable(Old \ done) : part = {id}
      BY <1>1, <2>2
    <3>2. id \in Old /\ id \notin done /\ ~Returnable(seen[id])
      BY DEF Deletable
    <3>3. seen[id] = mail[id]
      BY <1>3, <3>1
    <3>4. id \in OldRows /\ gone \subseteq mail[id].items
      BY <1>1, <3>1, <3>2, <3>3 DEF Old, OldRows, GoodsIn
    <3> QED BY <3>2, <3>3, <3>4
  <2> QED BY <2>1, <2>2
<1> QED BY <1>1, <1>5, <1>6, <1>7

LEMMA CrashMoney ==
  ASSUME MailInv, SeenInv, AuctionInv, Crash, ~crossed'
  PROVE  Total' = Total
<1>1. PICK done \in SUBSET OldRows, gone \in SUBSET Items :
        /\ mail' = Stripped(ProcessedRows(done), gone) /\ sunk' = sunk + RowsMoney(DeletableRows(done))
  BY CrashStep DEF Crash
<1>2. purse' = purse /\ auction' = auction
  BY DEF Crash, MailCrash, MailInv, AuctionInv
<1>3. SumFunction(Sent(mail')) = SumFunction(Sent(ProcessedRows(done)))
  BY <1>1, OldTypes, StrippedSum
<1> QED BY <1>1, <1>2, <1>3, ProcessedMoney

-----------------------------------------------------------------------------
(****************************************************************************)
(* The mailboxes of connected players match the table.                      *)
(****************************************************************************)

\* No mail is empty.
Carried(rows) == \A id \in MailIds : rows[id] # NoMail => Carries(rows[id])

LEMMA NewCarried ==
  ASSUME NEW drafts, IsFiniteSet(DOMAIN drafts), Room(drafts), NEW rows, Carried(rows)
  PROVE  Carried(Inserted(rows, New(drafts)))
<1>1. PICK new : new = New(drafts)
  OBVIOUS
<1>2. PICK ids : Numbered(drafts, new, ids)
  BY <1>1, NewMails
<1>3. \A id \in DOMAIN new : Carries(new[id])
  <2>1. ASSUME NEW id \in DOMAIN new PROVE Carries(new[id])
    <3>1. PICK k \in Carrying(drafts) : ids[k] = id
      BY <1>2 DEF Numbered
    <3>2. new[id] = drafts[k]
      BY <1>2, <3>1 DEF Numbered
    <3> QED BY <3>2 DEF Carrying
  <2> QED BY <2>1
<1>4. \A id \in MailIds : Inserted(rows, new)[id] = IF id \in DOMAIN new THEN new[id] ELSE rows[id]
  BY DEF Inserted
<1> QED BY <1>1, <1>3, <1>4 DEF Carried

\* Deliveries go to connected players, under numbers that nobody uses.
LEMMA NewBoxes ==
  ASSUME NEW drafts, IsFiniteSet(DOMAIN drafts), Room(drafts), NEW boxes, NEW rows,
         BoxesMatch(where, boxes, rows), \A q \in Players : \A k \in Unused : boxes[q][k] = NoMail,
         NEW found, \A q \in found : where[q] # "offline"
  PROVE  BoxesMatch(where, Delivered(boxes, New(drafts), found), Inserted(rows, New(drafts)))
<1>1. PICK new : new = New(drafts)
  OBVIOUS
<1>2. DOMAIN new \subseteq Unused
  BY <1>1, NewMails
<1>3. ASSUME NEW p \in Players, NEW id \in MailIds, Delivered(boxes, new, found)[p][id] # NoMail
      PROVE  /\ where[p] # "offline" /\ Delivered(boxes, new, found)[p][id].receiver = p
             /\ \/ Inserted(rows, new)[id] = Delivered(boxes, new, found)[p][id]
                \/ (where[p] = "loading" /\ Delivered(boxes, new, found)[p][id].old)
  <2>1. Inserted(rows, new)[id] = IF id \in DOMAIN new THEN new[id] ELSE rows[id]
    BY DEF Inserted
  <2>2. Delivered(boxes, new, found)[p][id] =
          IF id \in DOMAIN new /\ new[id].receiver = p /\ p \in found THEN new[id] ELSE boxes[p][id]
    BY DEF Delivered
  <2>3. CASE id \in DOMAIN new
    <3>1. boxes[p][id] = NoMail
      BY <1>2, <2>3
    <3> QED BY <1>3, <2>1, <2>2, <2>3, <3>1
  <2>4. CASE id \notin DOMAIN new
    <3>1. Delivered(boxes, new, found)[p][id] = boxes[p][id] /\ Inserted(rows, new)[id] = rows[id]
      BY <2>1, <2>2, <2>4
    <3> QED BY <1>3, <3>1 DEF BoxesMatch
  <2> QED BY <2>3, <2>4
<1> QED BY <1>1, <1>3 DEF BoxesMatch

\* The mailboxes are true, and no mail is empty.
Matched == BoxesTrue /\ Carried(mail)

\* Posting mails keeps Matched, and so does each handler of mails.
LEMMA PostMatched ==
  ASSUME MailInv, Matched, NEW drafts, IsFiniteSet(DOMAIN drafts), Post(drafts), where' = where
  PROVE  Matched'
<1>1. Room(drafts) /\ mail' = Inserted(mail, New(drafts)) /\ box' = Delivered(box, New(drafts), Connected)
  BY DEF Post
<1>2. Carried(mail')
  BY <1>1, NewCarried DEF Matched
<1>3. (\A q \in Players : \A k \in Unused : box[q][k] = NoMail) /\ \A q \in Connected : where[q] # "offline"
  BY DEF Unused, Connected
<1>4. BoxesMatch(where, box, mail)
  BY DEF Matched, BoxesTrue
<1>5. BoxesMatch(where, Delivered(box, New(drafts), Connected), Inserted(mail, New(drafts)))
  BY <1>1, <1>3, <1>4, NewBoxes
<1> QED BY <1>1, <1>2, <1>5 DEF Matched, BoxesTrue

LEMMA SendMatched ==
  ASSUME MailInv, Matched, NEW p \in Players, NEW q \in Players, NEW things \in SUBSET bag[p],
         NEW sum \in Sums, NEW onDelivery \in CODs, HandleSendMail(p, q, things, sum, onDelivery)
  PROVE  Matched'
<1>1. PICK d, drafts :
        /\ d = Draft(p, q, sum, IF things = {} THEN 0 ELSE onDelivery, things, "normal")
        /\ drafts = <<d>>
  OBVIOUS
<1>2. Post(drafts) /\ where' = where
  BY <1>1 DEF HandleSendMail, Post
<1>3. IsFiniteSet(DOMAIN drafts)
  BY <1>1, ShortDomains
<1> QED BY <1>2, <1>3, PostMatched

LEMMA DeleteMatched ==
  ASSUME Matched, NEW p \in Players, NEW id \in MailIds, HandleMailDelete(p, id)
  PROVE  Matched'
BY DEF HandleMailDelete, Matched, BoxesTrue

LEMMA ReturnMatched ==
  ASSUME MailInv, Matched, NEW p \in Players, NEW id \in MailIds, HandleMailReturnToSender(p, id)
  PROVE  Matched'
<1>1. PICK m, drafts, rows, boxes :
        /\ m = box[p][id] /\ drafts = SentBack(m)
        /\ rows = [mail EXCEPT ![id] = NoMail] /\ boxes = [box EXCEPT ![p][id] = NoMail]
  OBVIOUS
<1>2. /\ Open(p, id) /\ Room(drafts) /\ mail' = Inserted(rows, New(drafts))
      /\ box' = Delivered(boxes, New(drafts), InWorld) /\ where' = where
  BY <1>1 DEF HandleMailReturnToSender
<1>3. mail[id] = m /\ m \in SignedMails /\ m.receiver = p
  BY <1>1, <1>2, TrueMail DEF Open, InWorld, Connected, Matched
<1>4. IsFiniteSet(DOMAIN drafts)
  BY <1>1, <1>3, SentBackTypes
<1>5. /\ rows[id] = NoMail /\ \A k \in MailIds \ {id} : rows[k] = mail[k]
      /\ \A q \in Players, k \in MailIds : boxes[q][k] = IF q = p /\ k = id THEN NoMail ELSE box[q][k]
  BY <1>1 DEF MailInv, MailPartsOK, Mailbox
<1>6. Carried(rows)
  BY <1>5 DEF Matched, Carried
<1>7. BoxesMatch(where, boxes, rows)
  <2>1. ASSUME NEW q \in Players, NEW k \in MailIds, boxes[q][k] # NoMail
        PROVE  /\ where[q] # "offline" /\ boxes[q][k].receiver = q
               /\ rows[k] = boxes[q][k] \/ (where[q] = "loading" /\ boxes[q][k].old)
    <3>1. boxes[q][k] = box[q][k] /\ ~(q = p /\ k = id)
      BY <1>5, <2>1
    <3>2. /\ where[q] # "offline" /\ box[q][k].receiver = q
          /\ mail[k] = box[q][k] \/ (where[q] = "loading" /\ box[q][k].old)
      BY <2>1, <3>1 DEF Matched, BoxesTrue, BoxesMatch
    <3>3. CASE k = id
      BY <1>3, <3>1, <3>2, <3>3
    <3>4. CASE k # id
      BY <1>5, <3>1, <3>2, <3>4
    <3> QED BY <3>3, <3>4
  <2> QED BY <2>1 DEF BoxesMatch
<1>8. \A q \in Players : \A k \in Unused : boxes[q][k] = NoMail
  BY <1>5 DEF Unused
<1>9. \A q \in InWorld : where[q] # "offline"
  BY DEF InWorld
<1>10. BoxesMatch(where, Delivered(boxes, New(drafts), InWorld), Inserted(rows, New(drafts)))
  BY <1>2, <1>4, <1>7, <1>8, <1>9, NewBoxes
<1>11. Carried(Inserted(rows, New(drafts)))
  BY <1>2, <1>4, <1>6, NewCarried
<1> QED BY <1>2, <1>10, <1>11 DEF Matched, BoxesTrue

\* The table after p has saved his mailbox, where the mail id is what is left of it.
SavedAs(p, id, rest, rows) ==
  \A k \in MailIds : rows[k] =
    IF k \in deleted[p] THEN NoMail ELSE IF k = id THEN Tidy(rest) ELSE mail[k]

LEMMA SavedParts ==
  ASSUME MailInv, Matched, NEW p \in Players, NEW id \in MailIds, Open(p, id),
         NEW rest \in SignedMails, NEW taken,
         \A k \in MailIds \ {id} : mail[k] # NoMail => mail[k].items \cap taken = {},
         NEW own, own = box[p][id],
         NEW changed, changed = [own EXCEPT !.items = @ \ taken, !.money = rest.money, !.cod = rest.cod],
         changed = rest
  PROVE  SavedAs(p, id, rest, _SaveMail(p, mail, id, rest, taken))
<1>1. mail[id] = box[p][id] /\ mail[id] # NoMail
  BY TrueMail DEF Open, InWorld, Connected, Matched
<1>2. ASSUME NEW k \in MailIds
      PROVE  _SaveMail(p, mail, id, rest, taken)[k] =
               IF k \in deleted[p] THEN NoMail ELSE IF k = id THEN Tidy(rest) ELSE mail[k]
  <2>1. CASE k \in deleted[p] \/ mail[k] = NoMail
    BY <1>1, <2>1 DEF _SaveMail
  <2>2. CASE k = id /\ k \notin deleted[p]
    <3>1. own \in Mails /\ own = mail[k] /\ own # NoMail /\ rest \in Mails
      BY <1>1, <2>2, MailboxType, MailFields DEF MailInv
    <3>2. PICK r \in Mails :
            /\ _SaveMail(p, mail, id, rest, taken)[k] = Tidy(r) /\ r.items = own.items \ taken
            /\ r.sender = own.sender /\ r.receiver = own.receiver
            /\ r.money = rest.money /\ r.cod = rest.cod /\ r.old = rest.old
            /\ r.kind = Checked(own, rest.kind)
      <4>1. mail[k] # NoMail
        BY <2>2, <3>1
      <4>2. PICK r : IsSaved(p, k, id, rest, taken, r)
        BY <2>2, <4>1, SavedRow
      <4> QED BY <2>2, <3>1, <4>2 DEF IsSaved
    <3>3. /\ rest.items = own.items \ taken /\ rest.sender = own.sender /\ rest.receiver = own.receiver
          /\ rest.kind = own.kind
      BY <3>1 DEF Mails
    <3>4. r.kind = rest.kind
      BY <3>2, <3>3 DEF Checked
    <3>5. r = rest
      BY <3>1, <3>2, <3>3, <3>4, SameMail
    <3> QED BY <2>2, <3>2, <3>5
  <2>3. CASE k # id /\ k \notin deleted[p] /\ mail[k] # NoMail
    <3>1. PICK m \in Mails : m = mail[k]
      BY <2>3, MailboxType, MailFields DEF MailInv
    <3>2. m.items \cap taken = {} /\ Carries(m)
      BY <2>3, <3>1 DEF Matched, Carried
    <3>3. PICK r : r = [m EXCEPT !.items = @ \ taken]
      OBVIOUS
    <3>4. _SaveMail(p, mail, id, rest, taken)[k] = Tidy(r)
      BY <2>3, <3>1, <3>3 DEF _SaveMail
    <3>5. m.items \ taken = m.items
      BY <3>2
    <3>6. r = m
      BY <3>3, <3>5 DEF Mails
    <3> QED BY <2>3, <3>1, <3>2, <3>4, <3>6 DEF Tidy
  <2> QED BY <2>1, <2>2, <2>3
<1> QED BY <1>2 DEF SavedAs

\* A saved mailbox matches the table.
LEMMA SavedMatched ==
  ASSUME MailInv, Matched, NEW p \in Players, NEW id \in MailIds, Open(p, id),
         NEW rest \in SignedMails, rest.receiver = p, NEW rows, NEW boxes,
         SavedAs(p, id, rest, rows), boxes = [box EXCEPT ![p] = Kept(p, id, rest)]
  PROVE  BoxesMatch(where, boxes, rows) /\ Carried(rows)
<1>1. /\ mail[id] = box[p][id] /\ mail[id] # NoMail /\ mail[id].receiver = p
      /\ id \notin deleted[p] /\ where[p] = "world"
  BY TrueMail DEF Open, InWorld, Connected, Matched
<1>2. Tidy(rest) # NoMail => Tidy(rest) = rest /\ Carries(rest)
  BY DEF Tidy
<1>3. Carried(rows)
  BY <1>2 DEF Matched, Carried, SavedAs
<1>4. \A q \in Players : q # p => boxes[q] = box[q]
  BY DEF MailInv, MailPartsOK
<1>5. \A k \in MailIds : boxes[p][k] = IF k \in deleted[p] THEN NoMail ELSE IF k = id THEN Tidy(rest) ELSE box[p][k]
  BY DEF MailInv, MailPartsOK, Kept
<1>6. ASSUME NEW q \in Players, NEW k \in MailIds, boxes[q][k] # NoMail
      PROVE  /\ where[q] # "offline" /\ boxes[q][k].receiver = q
             /\ rows[k] = boxes[q][k] \/ (where[q] = "loading" /\ boxes[q][k].old)
  <2>1. CASE q = p
    <3>1. k \notin deleted[p] /\ (k # id => boxes[p][k] = box[p][k] /\ rows[k] = mail[k])
      BY <1>5, <1>6, <2>1 DEF SavedAs
    <3>2. CASE k = id
      BY <1>1, <1>2, <1>5, <1>6, <2>1, <3>1, <3>2 DEF SavedAs
    <3>3. CASE k # id
      BY <1>1, <1>6, <2>1, <3>1, <3>3 DEF Matched, BoxesTrue, BoxesMatch
    <3> QED BY <3>2, <3>3
  <2>2. CASE q # p
    <3>1. boxes[q][k] = box[q][k]
      BY <1>4, <2>2
    <3>2. /\ where[q] # "offline" /\ box[q][k].receiver = q
          /\ mail[k] = box[q][k] \/ (where[q] = "loading" /\ box[q][k].old)
      BY <1>6, <3>1 DEF Matched, BoxesTrue, BoxesMatch
    <3>3. CASE mail[k] = box[q][k]
      <4>1. k # id /\ k \notin deleted[p]
        BY <1>1, <2>2, <3>2, <3>3, TrueDeleted DEF Matched
      <4> QED BY <3>1, <3>2, <3>3, <4>1 DEF SavedAs
    <3>4. CASE where[q] = "loading" /\ box[q][k].old
      BY <3>1, <3>2, <3>4
    <3> QED BY <3>2, <3>3, <3>4
  <2> QED BY <2>1, <2>2
<1> QED BY <1>3, <1>6 DEF BoxesMatch

\* The item that is taken is in no other mail, so that no other row changes.
LEMMA TakeItemSaves ==
  ASSUME MailInv, Matched, NEW p \in Players, NEW id \in MailIds, NEW i \in Items, HandleMailTakeItem(p, id, i),
         \A k \in MailIds \ {id} : mail[k] # NoMail => i \notin mail[k].items,
         NEW m, m = box[p][id], NEW rest, rest = Without(m, i)
  PROVE  /\ Open(p, id) /\ m \in SignedMails /\ mail[id] = m /\ m.receiver = p
         /\ rest \in SignedMails /\ rest.receiver = p
         /\ SavedAs(p, id, rest, _SaveMail(p, mail, id, rest, m.items \ rest.items))
<1>1. Open(p, id)
  BY DEF HandleMailTakeItem
<1>2. PICK taken : taken = m.items \ rest.items
  OBVIOUS
<1>3. m \in SignedMails /\ mail[id] = m /\ m.receiver = p /\ m.items \in SUBSET Items
  BY <1>1, TrueMail, MailFields DEF Open, InWorld, Connected, Matched
<1>4. rest \in SignedMails /\ rest.receiver = p /\ taken \subseteq {i}
  BY <1>2, <1>3, WithoutType
<1>5. \A k \in MailIds \ {id} : mail[k] # NoMail => mail[k].items \cap taken = {}
  BY <1>4
<1>6. PICK changed : changed = [m EXCEPT !.items = @ \ taken, !.money = rest.money, !.cod = rest.cod]
  OBVIOUS
<1>7. changed = rest
  <2>1. m \in Mails
    BY <1>3, MailFields
  <2>2. rest.items = m.items \ {i} /\ rest.money = m.money /\ rest.cod = 0
    BY <1>3, WithoutType
  <2>3. m.items \ taken = m.items \ {i}
    BY <1>2, <2>2
  <2> QED BY <1>6, <2>1, <2>2, <2>3 DEF Without, Mails
<1>8. SavedAs(p, id, rest, _SaveMail(p, mail, id, rest, taken))
  BY <1>1, <1>4, <1>5, <1>6, <1>7, SavedParts
<1> QED BY <1>1, <1>2, <1>3, <1>4, <1>8

LEMMA TakeItemMatched ==
  ASSUME MailInv, Matched, NEW p \in Players, NEW id \in MailIds, NEW i \in Items, HandleMailTakeItem(p, id, i),
         \A k \in MailIds \ {id} : mail[k] # NoMail => i \notin mail[k].items
  PROVE  Matched'
<1>1. PICK m, rest, drafts, taken, rows, boxes :
        /\ m = box[p][id] /\ rest = Without(m, i) /\ drafts = Payment(m) /\ taken = m.items \ rest.items
        /\ rows = _SaveMail(p, mail, id, rest, taken) /\ boxes = [box EXCEPT ![p] = Kept(p, id, rest)]
  OBVIOUS
<1>2. /\ Open(p, id) /\ Room(drafts) /\ where' = where
      /\ mail' = Inserted(rows, New(drafts)) /\ box' = Delivered(boxes, New(drafts), InWorld)
  BY <1>1 DEF HandleMailTakeItem
<1>3. m \in SignedMails /\ rest \in SignedMails /\ rest.receiver = p
  BY <1>1, TakeItemSaves
<1>4. SavedAs(p, id, rest, rows)
  BY <1>1, TakeItemSaves
<1>5. BoxesMatch(where, boxes, rows) /\ Carried(rows)
  <2>1. boxes = [box EXCEPT ![p] = Kept(p, id, rest)] /\ Open(p, id)
    BY <1>1, <1>2
  <2> QED BY <1>3, <1>4, <2>1, SavedMatched
<1>6. IsFiniteSet(DOMAIN drafts)
  BY <1>1, <1>3, PaymentTypes
<1>7. \A q \in Players : \A k \in Unused : boxes[q][k] = NoMail
  <2>1. ASSUME NEW q \in Players, NEW k \in Unused PROVE boxes[q][k] = NoMail
    <3>1. k \in MailIds /\ k # id /\ box[q][k] = NoMail
      BY <1>2 DEF Unused, Open
    <3>2. boxes[q][k] = IF q = p THEN Kept(p, id, rest)[k] ELSE box[q][k]
      BY <1>1 DEF MailInv, MailPartsOK
    <3> QED BY <3>1, <3>2 DEF Kept
  <2> QED BY <2>1
<1>8. \A q \in InWorld : where[q] # "offline"
  BY DEF InWorld
<1>9. BoxesMatch(where, Delivered(boxes, New(drafts), InWorld), Inserted(rows, New(drafts)))
  BY <1>2, <1>5, <1>6, <1>7, <1>8, NewBoxes
<1>10. Carried(Inserted(rows, New(drafts)))
  BY <1>2, <1>5, <1>6, NewCarried
<1> QED BY <1>2, <1>9, <1>10 DEF Matched, BoxesTrue

LEMMA TakeMoneySaves ==
  ASSUME MailInv, Matched, NEW p \in Players, NEW id \in MailIds, HandleMailTakeMoney(p, id),
         NEW m, m = box[p][id], NEW rest, rest = [m EXCEPT !.money = 0]
  PROVE  /\ Open(p, id) /\ m \in SignedMails /\ mail[id] = m /\ m.receiver = p
         /\ rest \in SignedMails /\ rest.receiver = p /\ rest.sender = m.sender
         /\ rest.cod = m.cod /\ rest.items = m.items
         /\ SavedAs(p, id, rest, _SaveMail(p, mail, id, rest, {}))
<1>1. Open(p, id)
  BY DEF HandleMailTakeMoney
<1>2. m \in SignedMails /\ mail[id] = m /\ m.receiver = p
  BY <1>1, TrueMail DEF Open, InWorld, Connected, Matched
<1>3. /\ m \in Mails /\ (m.kind # "normal" => m.cod = 0) /\ (m.kind = "auction" => m.cod = 0) /\ (m.kind # "auction" => m.sender \in Players)
  BY <1>2, MailFields, AsksOnce
<1>4. /\ rest \in Mails /\ rest.kind = m.kind /\ rest.sender = m.sender /\ rest.cod = m.cod
      /\ rest.receiver = p /\ rest.items = m.items
  BY <1>2, <1>3 DEF Mails
<1>5. rest \in SignedMails
  BY <1>3, <1>4 DEF SignedMails, Signed
<1>6. PICK changed : changed = [m EXCEPT !.items = @ \ {}, !.money = rest.money, !.cod = rest.cod]
  OBVIOUS
<1>7. changed = rest
  <2>1. m.items \ {} = m.items
    OBVIOUS
  <2> QED BY <1>3, <1>4, <1>6, <2>1 DEF Mails
<1>8. SavedAs(p, id, rest, _SaveMail(p, mail, id, rest, {}))
  <2>1. \A k \in MailIds \ {id} : mail[k] # NoMail => mail[k].items \cap {} = {}
    OBVIOUS
  <2> QED BY <1>1, <1>5, <1>6, <1>7, <2>1, SavedParts
<1> QED BY <1>1, <1>2, <1>4, <1>5, <1>8

LEMMA TakeMoneyMatched ==
  ASSUME MailInv, Matched, NEW p \in Players, NEW id \in MailIds, HandleMailTakeMoney(p, id)
  PROVE  Matched'
<1>1. PICK m, rest, rows, boxes :
        /\ m = box[p][id] /\ rest = [m EXCEPT !.money = 0]
        /\ rows = _SaveMail(p, mail, id, rest, {}) /\ boxes = [box EXCEPT ![p] = Kept(p, id, rest)]
  OBVIOUS
<1>2. Open(p, id) /\ where' = where /\ mail' = rows /\ box' = boxes
  BY <1>1 DEF HandleMailTakeMoney
<1>3. rest \in SignedMails /\ rest.receiver = p /\ SavedAs(p, id, rest, rows)
  BY <1>1, <1>2, TakeMoneySaves
<1>4. BoxesMatch(where, boxes, rows) /\ Carried(rows)
  <2>1. boxes = [box EXCEPT ![p] = Kept(p, id, rest)] /\ Open(p, id)
    BY <1>1, <1>2
  <2> QED BY <1>3, <2>1, SavedMatched
<1> QED BY <1>2, <1>4 DEF Matched, BoxesTrue

\* Logins, logouts and map changes.
LEMMA LoginQueriesMatched ==
  ASSUME MailInv, Matched, NEW p \in Players, LoginQueries(p)
  PROVE  Matched'
<1>1. /\ mail' = mail /\ where' = [where EXCEPT ![p] = "loading"] /\ where[p] = "offline"
      /\ box' = [box EXCEPT ![p] = [id \in MailIds |->
           IF mail[id] # NoMail /\ mail[id].receiver = p THEN mail[id] ELSE NoMail]]
  BY DEF LoginQueries
<1>2. where'[p] = "loading" /\ \A q \in Players \ {p} : where'[q] = where[q]
  BY <1>1 DEF MailInv, MailPartsOK
<1>3. /\ \A q \in Players \ {p} : box'[q] = box[q]
      /\ \A id \in MailIds : box'[p][id] = IF mail[id] # NoMail /\ mail[id].receiver = p THEN mail[id] ELSE NoMail
  BY <1>1 DEF MailInv, MailPartsOK
<1>4. BoxesMatch(where', box', mail')
  BY <1>1, <1>2, <1>3 DEF Matched, BoxesTrue, BoxesMatch
<1> QED BY <1>1, <1>4 DEF Matched, BoxesTrue

LEMMA LoginMatched ==
  ASSUME MailInv, Matched, NEW p \in Players, LoginFromDB(p)
  PROVE  Matched'
<1>1. /\ mail' = mail /\ where' = [where EXCEPT ![p] = "world"]
      /\ box' = [box EXCEPT ![p] = Loaded(p)]
  BY DEF LoginFromDB
<1>2. where'[p] = "world" /\ \A q \in Players \ {p} : where'[q] = where[q]
  BY <1>1 DEF MailInv, MailPartsOK
<1>3. /\ \A q \in Players \ {p} : box'[q] = box[q]
      /\ \A id \in MailIds : box'[p][id] = IF box[p][id] # NoMail /\ box[p][id].old THEN NoMail ELSE box[p][id]
  BY <1>1 DEF MailInv, MailPartsOK, Loaded
<1>4. BoxesMatch(where', box', mail')
  <2>1. ASSUME NEW q \in Players, NEW id \in MailIds, box'[q][id] # NoMail
        PROVE  /\ where'[q] # "offline" /\ box'[q][id].receiver = q
               /\ mail'[id] = box'[q][id] \/ (where'[q] = "loading" /\ box'[q][id].old)
    <3>1. CASE q = p
      <4>1. box'[p][id] = box[p][id] /\ ~box[p][id].old
        BY <1>3, <2>1, <3>1
      <4> QED BY <1>1, <1>2, <2>1, <3>1, <4>1 DEF Matched, BoxesTrue, BoxesMatch
    <3>2. CASE q # p
      BY <1>1, <1>2, <1>3, <2>1, <3>2 DEF Matched, BoxesTrue, BoxesMatch
    <3> QED BY <3>1, <3>2
  <2> QED BY <2>1 DEF BoxesMatch
<1> QED BY <1>1, <1>4 DEF Matched, BoxesTrue

LEMMA LogoutMatched ==
  ASSUME MailInv, Matched, NEW p \in Players, Logout(p)
  PROVE  Matched'
<1>1. /\ mail' = [id \in MailIds |-> IF id \in deleted[p] THEN NoMail ELSE mail[id]]
      /\ where' = [where EXCEPT ![p] = "offline"] /\ box' = [box EXCEPT ![p] = Empty]
  BY DEF Logout
<1>2. \A q \in Players \ {p} : where'[q] = where[q] /\ box'[q] = box[q]
  BY <1>1 DEF MailInv, MailPartsOK
<1>3. \A id \in MailIds : box'[p][id] = NoMail
  BY <1>1 DEF MailInv, MailPartsOK, Empty
<1>4. BoxesMatch(where', box', mail')
  <2>1. ASSUME NEW q \in Players, NEW id \in MailIds, box'[q][id] # NoMail
        PROVE  /\ where'[q] # "offline" /\ box'[q][id].receiver = q
               /\ mail'[id] = box'[q][id] \/ (where'[q] = "loading" /\ box'[q][id].old)
    <3>1. q # p
      BY <1>3, <2>1
    <3>2. box'[q] = box[q] /\ where'[q] = where[q] /\ box[q][id] # NoMail
      BY <1>2, <2>1, <3>1
    <3>3. /\ where[q] # "offline" /\ box[q][id].receiver = q
          /\ mail[id] = box[q][id] \/ (where[q] = "loading" /\ box[q][id].old)
      BY <3>2 DEF Matched, BoxesTrue, BoxesMatch
    <3>4. mail[id] = box[q][id] => id \notin deleted[p]
      BY <3>1, <3>3, TrueDeleted DEF Matched
    <3> QED BY <1>1, <3>2, <3>3, <3>4
  <2> QED BY <2>1 DEF BoxesMatch
<1>5. Carried(mail')
  BY <1>1 DEF Matched, Carried
<1> QED BY <1>4, <1>5 DEF Matched, BoxesTrue

LEMMA TravelMatched ==
  ASSUME MailInv, Matched, NEW p \in Players, TeleportFar(p) \/ WorldportAck(p)
  PROVE  Matched'
<1>1. /\ mail' = mail /\ box' = box
      /\ \E w \in {"world", "between"} : where' = [where EXCEPT ![p] = w]
      /\ where[p] \in {"world", "between"}
  BY DEF TeleportFar, WorldportAck, InWorld
<1>2. \A q \in Players : /\ where'[q] = "offline" => where[q] = "offline"
                         /\ where[q] = "loading" => where'[q] = "loading"
  BY <1>1 DEF MailInv, MailPartsOK
<1>3. BoxesMatch(where', box', mail')
  BY <1>1, <1>2 DEF Matched, BoxesTrue, BoxesMatch
<1> QED BY <1>1, <1>3 DEF Matched, BoxesTrue

\* Time passes for the row and its copies.
LEMMA ExpireMatched ==
  ASSUME MailInv, Matched, NEW id \in MailIds, Expire(id)
  PROVE  Matched'
<1>1. PICK rows, boxes : rows = mail' /\ boxes = box'
  OBVIOUS
<1>2. /\ mail[id] # NoMail /\ rows = [mail EXCEPT ![id] = Aged(@)]
      /\ boxes = [p \in Players |-> [box[p] EXCEPT ![id] = Aged(@)]] /\ where' = where
  BY <1>1, ExpireStep
<1>3. \A k \in MailIds : rows[k] = IF k = id THEN Aged(mail[id]) ELSE mail[k]
  BY <1>2 DEF MailInv, Rows
<1>4. \A p \in Players, k \in MailIds : boxes[p][k] = IF k = id THEN Aged(box[p][id]) ELSE box[p][k]
  BY <1>2 DEF MailInv, Rows
<1>5. ASSUME NEW m \in SignedMails \cup {NoMail}, m # NoMail
      PROVE  Aged(m).receiver = m.receiver /\ Aged(m).old /\ Aged(m).money = m.money /\ Aged(m).items = m.items
  BY <1>5, AgedType
<1>6. BoxesMatch(where, boxes, rows)
  <2>1. ASSUME NEW p \in Players, NEW k \in MailIds, boxes[p][k] # NoMail
        PROVE  /\ where[p] # "offline" /\ boxes[p][k].receiver = p
               /\ rows[k] = boxes[p][k] \/ (where[p] = "loading" /\ boxes[p][k].old)
    <3>1. CASE k = id
      <4>1. PICK m : m = box[p][id]
        OBVIOUS
      <4>2. m \in SignedMails \cup {NoMail} /\ boxes[p][k] = Aged(m)
        BY <1>4, <3>1, <4>1 DEF MailInv, Rows
      <4>3. m # NoMail
        BY <2>1, <4>2 DEF Aged
      <4>4. Aged(m).receiver = m.receiver /\ Aged(m).old
        BY <1>5, <4>2, <4>3
      <4>5. /\ where[p] # "offline" /\ m.receiver = p
            /\ mail[id] = m \/ where[p] = "loading"
        BY <4>1, <4>3 DEF Matched, BoxesTrue, BoxesMatch
      <4> QED BY <1>3, <3>1, <4>2, <4>4, <4>5
    <3>2. CASE k # id
      <4>1. boxes[p][k] = box[p][k] /\ rows[k] = mail[k]
        BY <1>3, <1>4, <3>2
      <4> QED BY <2>1, <4>1 DEF Matched, BoxesTrue, BoxesMatch
    <3> QED BY <3>1, <3>2
  <2> QED BY <2>1 DEF BoxesMatch
<1>7. Carried(rows)
  <2>1. Carries(Aged(mail[id]))
    <3>1. PICK m : m = mail[id]
      OBVIOUS
    <3>2. m \in SignedMails \cup {NoMail} /\ m # NoMail /\ Carries(m)
      BY <1>2, <3>1 DEF MailInv, Rows, Matched, Carried
    <3> QED BY <1>5, <3>1, <3>2 DEF Carries
  <2> QED BY <1>3, <2>1 DEF Matched, Carried
<1> QED BY <1>1, <1>2, <1>6, <1>7 DEF Matched, BoxesTrue

LEMMA ProcessedCarried ==
  ASSUME MailInv, Matched, NEW done \in SUBSET OldRows
  PROVE  Carried(ProcessedRows(done))
<1>1. ASSUME NEW k \in MailIds, ProcessedRows(done)[k] # NoMail
      PROVE  Carries(ProcessedRows(done)[k])
  <2>1. CASE k \notin done
    <3>1. ProcessedRows(done)[k] = mail[k]
      BY <2>1 DEF ProcessedRows
    <3> QED BY <1>1, <3>1 DEF Matched, Carried
  <2>2. CASE k \in done
    <3>1. PICK m \in Mails : m = mail[k] /\ m # NoMail
      BY <2>2, OldTypes, MailFields
    <3>2. ProcessedRows(done)[k] = ReturnedRow(m) /\ Returnable(m)
      BY <1>1, <2>2, <3>1 DEF ProcessedRows
    <3>3. ReturnedRow(m).items = m.items
      BY <3>1 DEF ReturnedRow, Returned, Checked, Mails
    <3> QED BY <3>2, <3>3 DEF Carries, Returnable
  <2> QED BY <2>1, <2>2
<1> QED BY <1>1 DEF Carried

\* The processing of old mails, unless some are out of date or in the mailbox of a player between
\* two maps.
LEMMA OldMailsStep ==
  ASSUME ReturnOrDeleteOldMails, ~crossed'
  PROVE  /\ Old \in SUBSET OldRows /\ mail' = ProcessedRows(Old) /\ sunk' = sunk + RowsMoney(DeletableRows(Old))
         /\ wasted' = wasted \cup RowsGoods(DeletableRows(Old))
         /\ UNCHANGED <<where, purse, bag, box, deleted, dbPurse, dbBag>>
         /\ \A id \in Old, p \in Players : where[p] = "between" => box[p][id] = NoMail
<1>1. ~Outdated(Old) /\ ~Missed(Old)
  BY DEF ReturnOrDeleteOldMails
<1>2. PICK done \in SUBSET Old : done = Old
  OBVIOUS
<1>3. /\ done \in SUBSET OldRows /\ Processed(done) = ProcessedRows(done)
      /\ MoneyIn(Deletable(done)) = RowsMoney(DeletableRows(done))
      /\ GoodsIn(Deletable(done)) = RowsGoods(DeletableRows(done))
  BY <1>1, <1>2, TrueOld
<1>4. \A id \in Old, p \in Players : where[p] = "between" => box[p][id] = NoMail
  BY <1>1 DEF Missed
<1> QED BY <1>2, <1>3, <1>4 DEF ReturnOrDeleteOldMails, memory, tables

\* They are in the mailboxes of those who are loading only, who drop them.
LEMMA OldMailsMatched ==
  ASSUME MailInv, Matched, ReturnOrDeleteOldMails, ~crossed'
  PROVE  Matched'
<1>1. /\ Old \in SUBSET OldRows /\ mail' = ProcessedRows(Old) /\ box' = box /\ where' = where
      /\ \A id \in Old, p \in Players : where[p] = "between" => box[p][id] = NoMail
  BY OldMailsStep
<1>2. Carried(mail')
  BY <1>1, ProcessedCarried
<1>3. BoxesMatch(where, box, mail')
  <2>1. ASSUME NEW p \in Players, NEW k \in MailIds, box[p][k] # NoMail
        PROVE  /\ where[p] # "offline" /\ box[p][k].receiver = p
               /\ mail'[k] = box[p][k] \/ (where[p] = "loading" /\ box[p][k].old)
    <3>1. /\ where[p] # "offline" /\ box[p][k].receiver = p
          /\ mail[k] = box[p][k] \/ (where[p] = "loading" /\ box[p][k].old)
      BY <2>1 DEF Matched, BoxesTrue, BoxesMatch
    <3>2. CASE k \notin Old
      BY <1>1, <3>1, <3>2 DEF ProcessedRows
    <3>3. CASE k \in Old /\ mail[k] = box[p][k]
      <4>1. p \notin InWorld /\ box[p][k].old
        BY <1>1, <3>1, <3>3 DEF OldRows
      <4>2. where[p] = "loading"
        BY <1>1, <2>1, <3>1, <3>3, <4>1 DEF InWorld, MailInv, MailPartsOK, Places
      <4> QED BY <3>1, <4>1, <4>2
    <3> QED BY <3>1, <3>2, <3>3
  <2> QED BY <2>1 DEF BoxesMatch
<1> QED BY <1>1, <1>2, <1>3 DEF Matched, BoxesTrue

LEMMA CrashMatched ==
  ASSUME MailInv, SeenInv, Matched, MailCrash, ~crossed'
  PROVE  Matched'
<1>1. PICK done \in SUBSET OldRows, gone \in SUBSET Items : mail' = Stripped(ProcessedRows(done), gone)
  BY CrashStep
<1>2. Carried(mail')
  <2>1. ASSUME NEW rows, NEW k \in MailIds, Stripped(rows, gone)[k] # NoMail PROVE Carries(Stripped(rows, gone)[k])
    BY <2>1 DEF Stripped, Tidy
  <2> QED BY <1>1, <2>1 DEF Carried
<1>3. \A p \in Players, k \in MailIds : box'[p][k] = NoMail
  BY DEF MailCrash, Empty
<1>4. BoxesMatch(where', box', mail')
  BY <1>3 DEF BoxesMatch
<1> QED BY <1>2, <1>4 DEF Matched, BoxesTrue

-----------------------------------------------------------------------------
(****************************************************************************)
(* Items: each is in one place.                                             *)
(****************************************************************************)

\* The players that have an item.
Holders(things, i) == {p \in Players : i \in things[p]}

\* The auctions of an item.
Auctioned(xs, i) == {a \in AuctionIds : xs[a] # NoAuction /\ xs[a].item = i}

\* The mails that have an item.
Mailed(rows, i) == {id \in MailIds : rows[id] # NoMail /\ i \in rows[id].items}

\* Exactly one.
Single(S) == \E x \in S : S = {x}

\* The item i is lost, or in one bag, one auction or one mail.
Placed(things, xs, rows, gone, i) ==
  IF i \in gone THEN Holders(things, i) = {} /\ Auctioned(xs, i) = {} /\ Mailed(rows, i) = {}
  ELSE \/ Single(Holders(things, i)) /\ Auctioned(xs, i) = {} /\ Mailed(rows, i) = {}
       \/ Holders(things, i) = {} /\ Single(Auctioned(xs, i)) /\ Mailed(rows, i) = {}
       \/ Holders(things, i) = {} /\ Auctioned(xs, i) = {} /\ Single(Mailed(rows, i))

\* Each item is in one place.
EachPlaced == \A i \in Items : Placed(bag, auction, mail, wasted, i)

\* The places of an item, as OnePlace counts them.
SpotSet(H, U, M) ==
  {<<"bag", p>> : p \in H} \cup {<<"auction", a>> : a \in U} \cup {<<"mail", id>> : id \in M}

LEMMA OneSpot ==
  ASSUME NEW H, NEW U, NEW M, NEW S, S = SpotSet(H, U, M)
  PROVE  /\ S = {} <=> H = {} /\ U = {} /\ M = {}
         /\ Single(S) <=> \/ Single(H) /\ U = {} /\ M = {}
                          \/ H = {} /\ Single(U) /\ M = {}
                          \/ H = {} /\ U = {} /\ Single(M)
<1> USE DEF SpotSet
<1>1. S = {} <=> H = {} /\ U = {} /\ M = {}
  OBVIOUS
<1>2. ASSUME NEW s \in S, S = {s}
      PROVE  \/ Single(H) /\ U = {} /\ M = {}
             \/ H = {} /\ Single(U) /\ M = {}
             \/ H = {} /\ U = {} /\ Single(M)
  <2>1. \A p \in H : s = <<"bag", p>>
    BY <1>2
  <2>2. \A a \in U : s = <<"auction", a>>
    BY <1>2
  <2>3. \A id \in M : s = <<"mail", id>>
    BY <1>2
  <2>4. (\E p \in H : TRUE) \/ (\E a \in U : TRUE) \/ (\E id \in M : TRUE)
    BY <1>2
  <2>5. CASE \E p \in H : TRUE
    BY <2>1, <2>2, <2>3, <2>5 DEF Single
  <2>6. CASE \E a \in U : TRUE
    BY <2>1, <2>2, <2>3, <2>6 DEF Single
  <2>7. CASE \E id \in M : TRUE
    BY <2>1, <2>2, <2>3, <2>7 DEF Single
  <2> QED BY <2>4, <2>5, <2>6, <2>7
<1>3. ASSUME NEW p \in H, H = {p}, U = {}, M = {} PROVE S = {<<"bag", p>>}
  BY <1>3
<1>4. ASSUME NEW a \in U, U = {a}, H = {}, M = {} PROVE S = {<<"auction", a>>}
  BY <1>4
<1>5. ASSUME NEW id \in M, M = {id}, U = {}, H = {} PROVE S = {<<"mail", id>>}
  BY <1>5
<1>6. (Single(H) /\ U = {} /\ M = {}) => Single(S)
  BY <1>3 DEF Single
<1>7. (H = {} /\ Single(U) /\ M = {}) => Single(S)
  BY <1>4 DEF Single
<1>8. (H = {} /\ U = {} /\ Single(M)) => Single(S)
  BY <1>5 DEF Single
<1>9. Single(S) => \/ Single(H) /\ U = {} /\ M = {}
                   \/ H = {} /\ Single(U) /\ M = {}
                   \/ H = {} /\ U = {} /\ Single(M)
  BY <1>2 DEF Single
<1> QED BY <1>1, <1>6, <1>7, <1>8, <1>9

\* The property in terms of players, auctions and mails.
LEMMA PlacedIsOnePlace ==
  ASSUME NEW things, NEW xs, NEW i
  PROVE  Placed(things, xs, mail, wasted, i) <=> InOnePlace(things, xs, i)
<1>1. PICK S : S = Spots(things, xs, i)
  OBVIOUS
<1>2. S = {<<"bag", p>> : p \in Holders(things, i)} \cup {<<"auction", a>> : a \in Auctioned(xs, i)}
          \cup {<<"mail", id>> : id \in Mailed(mail, i)}
  BY <1>1 DEF Spots, Holders, Auctioned, Mailed
<1>3. InOnePlace(things, xs, i) <=> IF i \in wasted THEN S = {} ELSE Single(S)
  BY <1>1 DEF InOnePlace, Single
<1>4. PICK H, U, M : H = Holders(things, i) /\ U = Auctioned(xs, i) /\ M = Mailed(mail, i)
  OBVIOUS
<1>5. S = SpotSet(H, U, M)
  BY <1>2, <1>4 DEF SpotSet
<1>6. S = {} <=> H = {} /\ U = {} /\ M = {}
  BY <1>5, OneSpot
<1>7. Single(S) <=> \/ Single(H) /\ U = {} /\ M = {}
                    \/ H = {} /\ Single(U) /\ M = {}
                    \/ H = {} /\ U = {} /\ Single(M)
  BY <1>5, OneSpot
<1> QED BY <1>3, <1>4, <1>6, <1>7 DEF Placed

\* What mails that are sent do to an item: none of them has it, or one of them.
LEMMA NewMailed ==
  ASSUME NEW drafts, IsFiniteSet(DOMAIN drafts), Room(drafts),
         \A k \in DOMAIN drafts : drafts[k] \in SignedMails,
         NEW rows \in Rows, \A id \in Unused : rows[id] = NoMail, NEW i,
         NEW next, next = Inserted(rows, New(drafts))
  PROVE  /\ (\A k \in DOMAIN drafts : i \notin drafts[k].items) => Mailed(next, i) = Mailed(rows, i)
         /\ \A k \in DOMAIN drafts :
              /\ i \in drafts[k].items /\ Mailed(rows, i) = {}
              /\ \A j \in DOMAIN drafts : i \in drafts[j].items => j = k
              => Single(Mailed(next, i))
<1>1. PICK new : new = New(drafts)
  OBVIOUS
<1>2. PICK ids : Numbered(drafts, new, ids)
  BY <1>1, NewMails
<1>3. \A id \in DOMAIN new : id \in MailIds /\ rows[id] = NoMail
  BY <1>1, NewMails DEF Unused
<1>4. \A id \in MailIds : next[id] = IF id \in DOMAIN new THEN new[id] ELSE rows[id]
  BY <1>1 DEF Inserted
<1>5. \A id \in DOMAIN new : \E k \in DOMAIN drafts : ids[k] = id /\ new[id] = drafts[k] /\ k \in Carrying(drafts)
  BY <1>2 DEF Numbered, Carrying
<1>6. \A k \in DOMAIN drafts : drafts[k] # NoMail
  BY MailFields
<1>7. ASSUME \A k \in DOMAIN drafts : i \notin drafts[k].items
      PROVE  Mailed(next, i) = Mailed(rows, i)
  <2>1. ASSUME NEW id \in MailIds PROVE id \in Mailed(next, i) <=> id \in Mailed(rows, i)
    <3>1. CASE id \in DOMAIN new
      BY <1>3, <1>4, <1>5, <1>7, <3>1 DEF Mailed
    <3>2. CASE id \notin DOMAIN new
      BY <1>4, <3>2 DEF Mailed
    <3> QED BY <3>1, <3>2
  <2> QED BY <2>1 DEF Mailed
<1>8. ASSUME NEW k \in DOMAIN drafts, i \in drafts[k].items, Mailed(rows, i) = {},
             \A j \in DOMAIN drafts : i \in drafts[j].items => j = k
      PROVE  Single(Mailed(next, i))
  <2>1. k \in Carrying(drafts)
    BY <1>8 DEF Carrying, Carries
  <2>2. ids[k] \in DOMAIN new /\ new[ids[k]] = drafts[k]
    BY <1>2, <2>1 DEF Numbered
  <2>3. ids[k] \in Mailed(next, i)
    BY <1>3, <1>4, <1>6, <1>8, <2>2 DEF Mailed
  <2>4. ASSUME NEW id \in Mailed(next, i) PROVE id = ids[k]
    <3>1. id \in MailIds /\ next[id] # NoMail /\ i \in next[id].items
      BY <2>4 DEF Mailed
    <3>2. id \in DOMAIN new
      BY <1>4, <1>8, <3>1 DEF Mailed
    <3>3. PICK j \in DOMAIN drafts : ids[j] = id /\ new[id] = drafts[j]
      BY <1>5, <3>2
    <3>4. j = k
      BY <1>4, <1>8, <3>1, <3>2, <3>3
    <3> QED BY <3>3, <3>4
  <2>5. Mailed(next, i) = {ids[k]}
    BY <2>3, <2>4
  <2> QED BY <2>3, <2>5 DEF Single
<1> QED BY <1>7, <1>8

\* Nothing happens to an item.
LEMMA PlacedSame ==
  ASSUME NEW things, NEW xs, NEW rows, NEW gone, NEW i, Placed(things, xs, rows, gone, i),
         NEW things2, NEW xs2, NEW rows2, NEW gone2,
         Holders(things2, i) = Holders(things, i), Auctioned(xs2, i) = Auctioned(xs, i),
         Mailed(rows2, i) = Mailed(rows, i), i \in gone2 <=> i \in gone
  PROVE  Placed(things2, xs2, rows2, gone2, i)
BY DEF Placed

\* Some mails are deleted, with what is in them.
LEMMA PlacedDropped ==
  ASSUME NEW things, NEW xs, NEW rows, NEW gone, NEW i, Placed(things, xs, rows, gone, i),
         NEW D, NEW rows2, Mailed(rows2, i) = Mailed(rows, i) \ D,
         NEW gone2, i \in gone2 <=> i \in gone \/ \E k \in D : k \in Mailed(rows, i)
  PROVE  Placed(things, xs, rows2, gone2, i)
<1>1. CASE \E k \in D : k \in Mailed(rows, i)
  <2>1. i \notin gone /\ Single(Mailed(rows, i)) /\ Holders(things, i) = {} /\ Auctioned(xs, i) = {}
    BY <1>1 DEF Placed
  <2>2. Mailed(rows2, i) = {}
    BY <1>1, <2>1 DEF Single
  <2> QED BY <1>1, <2>1, <2>2 DEF Placed
<1>2. CASE ~ \E k \in D : k \in Mailed(rows, i)
  <2>1. Mailed(rows2, i) = Mailed(rows, i)
    BY <1>2
  <2> QED BY <1>2, <2>1, PlacedSame
<1> QED BY <1>1, <1>2

\* Where an item is when it is found somewhere.
LEMMA PlacedThere ==
  ASSUME NEW things, NEW xs, NEW rows, NEW gone, NEW i, Placed(things, xs, rows, gone, i)
  PROVE  /\ \A p \in Holders(things, i) :
              i \notin gone /\ Holders(things, i) = {p} /\ Auctioned(xs, i) = {} /\ Mailed(rows, i) = {}
         /\ \A a \in Auctioned(xs, i) :
              i \notin gone /\ Holders(things, i) = {} /\ Auctioned(xs, i) = {a} /\ Mailed(rows, i) = {}
         /\ \A id \in Mailed(rows, i) :
              i \notin gone /\ Holders(things, i) = {} /\ Auctioned(xs, i) = {} /\ Mailed(rows, i) = {id}
BY DEF Placed, Single

\* The handlers of mails keep each item in its place, or move it.
LEMMA SendPlaced ==
  ASSUME MailInv, EachPlaced, NEW p \in Players, NEW q \in Players, NEW things \in SUBSET bag[p],
         NEW sum \in Sums, NEW onDelivery \in CODs, HandleSendMail(p, q, things, sum, onDelivery),
         auction' = auction
  PROVE  EachPlaced'
<1> DEFINE draft == Draft(p, q, sum, IF things = {} THEN 0 ELSE onDelivery, things, "normal")
<1>1. sum \in Nat /\ onDelivery \in Nat /\ things \in SUBSET Items
  BY MailAssumption DEF MailInv, MailPartsOK
<1>2. PICK d, drafts : d = draft /\ drafts = <<d>>
  OBVIOUS
<1>3. /\ Room(drafts) /\ mail' = Inserted(mail, New(drafts)) /\ wasted' = wasted
      /\ bag' = [bag EXCEPT ![p] = @ \ things]
  BY <1>2 DEF HandleSendMail
<1>4. d \in SignedMails /\ d.items = things
  <2>1. draft \in SignedMails
    BY <1>1, DraftType DEF Kinds
  <2> QED BY <1>2, <2>1 DEF Draft
<1> HIDE DEF draft
<1>5. /\ IsFiniteSet(DOMAIN drafts) /\ (\A k \in DOMAIN drafts : drafts[k] \in SignedMails)
      /\ DOMAIN drafts = {1} /\ drafts[1] = d
  BY <1>2, <1>4, ShortDomains
<1>6. mail \in Rows /\ \A id \in Unused : mail[id] = NoMail
  BY DEF MailInv, Unused
<1>7. PICK next : next = mail'
  OBVIOUS
<1>8. next = Inserted(mail, New(drafts))
  BY <1>3, <1>7
<1>9. ASSUME NEW i \in Items PROVE Placed(bag', auction', next, wasted', i)
  <2>1. Placed(bag, auction, mail, wasted, i)
    BY DEF EachPlaced
  <2>2. Auctioned(auction', i) = Auctioned(auction, i)
    OBVIOUS
  <2>3. CASE i \in things
    <3>1. p \in Holders(bag, i)
      BY <2>3 DEF Holders
    <3>2. i \notin wasted /\ Holders(bag, i) = {p} /\ Auctioned(auction, i) = {} /\ Mailed(mail, i) = {}
      BY <2>1, <3>1, PlacedThere
    <3>3. Holders(bag', i) = {}
      BY <1>3, <2>3, <3>2 DEF Holders, MailInv, MailPartsOK
    <3>4. 1 \in DOMAIN drafts /\ i \in drafts[1].items /\ \A j \in DOMAIN drafts : i \in drafts[j].items => j = 1
      BY <1>4, <1>5, <2>3
    <3>5. Single(Mailed(next, i))
      BY <1>3, <1>5, <1>6, <1>8, <3>2, <3>4, NewMailed
    <3> QED BY <1>3, <2>2, <3>2, <3>3, <3>5 DEF Placed
  <2>4. CASE i \notin things
    <3>1. Holders(bag', i) = Holders(bag, i)
      BY <1>3, <2>4 DEF Holders, MailInv, MailPartsOK
    <3>2. Mailed(next, i) = Mailed(mail, i)
      BY <1>3, <1>4, <1>5, <1>6, <1>8, <2>4, NewMailed
    <3>3. i \in wasted' <=> i \in wasted
      BY <1>3
    <3> QED BY <2>1, <2>2, <3>1, <3>2, <3>3, PlacedSame
  <2> QED BY <2>3, <2>4
<1> QED BY <1>7, <1>9 DEF EachPlaced

LEMMA ReturnPlaced ==
  ASSUME MailInv, BoxesTrue, EachPlaced, NEW p \in Players, NEW id \in MailIds,
         HandleMailReturnToSender(p, id), auction' = auction
  PROVE  EachPlaced'
<1>1. PICK m, drafts, rows, next :
        /\ m = box[p][id] /\ drafts = SentBack(m)
        /\ rows = [mail EXCEPT ![id] = NoMail] /\ next = mail'
  OBVIOUS
<1>2. /\ Open(p, id) /\ Room(drafts) /\ next = Inserted(rows, New(drafts)) /\ bag' = bag
      /\ wasted' = wasted \cup (IF m.kind = "auction" THEN m.items ELSE {})
  BY <1>1 DEF HandleMailReturnToSender, memory
<1>3. mail[id] = m /\ m \in SignedMails /\ m # NoMail
  BY <1>1, <1>2, TrueMail DEF Open, InWorld, Connected
<1>4. mail \in Rows /\ rows \in Rows /\ rows[id] = NoMail /\ \A k \in MailIds \ {id} : rows[k] = mail[k]
  BY <1>1 DEF MailInv, Rows
<1>5. IsFiniteSet(DOMAIN drafts) /\ \A k \in DOMAIN drafts : drafts[k] \in SignedMails
  BY <1>1, <1>3, SentBackTypes
<1>6. \A k \in Unused : rows[k] = NoMail
  BY <1>4 DEF Unused
<1>7. /\ m.kind = "auction" => DOMAIN drafts = {}
      /\ m.kind # "auction" => DOMAIN drafts = {1} /\ drafts[1].items = m.items
  BY <1>1 DEF SentBack, Draft
<1>8. \A i \in Items : Mailed(rows, i) = Mailed(mail, i) \ {id}
  BY <1>4 DEF Mailed
<1>9. \A i \in Items : id \in Mailed(mail, i) <=> i \in m.items
  BY <1>3 DEF Mailed
<1>10. ASSUME NEW i \in Items PROVE Placed(bag', auction', next, wasted', i)
  <2>1. Placed(bag, auction, mail, wasted, i)
    BY DEF EachPlaced
  <2>2. CASE i \in m.items
    <3>1. i \notin wasted /\ Holders(bag, i) = {} /\ Auctioned(auction, i) = {} /\ Mailed(mail, i) = {id}
      BY <1>9, <2>1, <2>2, PlacedThere
    <3>2. Mailed(rows, i) = {}
      BY <1>8, <3>1
    <3>3. CASE m.kind = "auction"
      <4>1. \A k \in DOMAIN drafts : i \notin drafts[k].items
        BY <1>7, <3>3
      <4>2. Mailed(next, i) = {}
        BY <1>2, <1>4, <1>5, <1>6, <3>2, <4>1, NewMailed
      <4> QED BY <1>2, <2>2, <3>1, <3>3, <4>2 DEF Placed
    <3>4. CASE m.kind # "auction"
      <4>1. 1 \in DOMAIN drafts /\ i \in drafts[1].items /\ \A j \in DOMAIN drafts : i \in drafts[j].items => j = 1
        BY <1>7, <2>2, <3>4
      <4>2. Single(Mailed(next, i))
        BY <1>2, <1>4, <1>5, <1>6, <3>2, <4>1, NewMailed
      <4> QED BY <1>2, <3>1, <3>4, <4>2 DEF Placed
    <3> QED BY <3>3, <3>4
  <2>3. CASE i \notin m.items
    <3>1. \A k \in DOMAIN drafts : i \notin drafts[k].items
      BY <1>7, <2>3
    <3>2. Mailed(next, i) = Mailed(rows, i)
      BY <1>2, <1>4, <1>5, <1>6, <3>1, NewMailed
    <3>3. Mailed(next, i) = Mailed(mail, i)
      BY <1>8, <1>9, <2>3, <3>2
    <3>4. i \in wasted' <=> i \in wasted
      BY <1>2, <2>3
    <3>5. Holders(bag', i) = Holders(bag, i) /\ Auctioned(auction', i) = Auctioned(auction, i)
      BY <1>2
    <3> QED BY <2>1, <3>3, <3>4, <3>5, PlacedSame
  <2> QED BY <2>2, <2>3
<1> QED BY <1>1, <1>10 DEF EachPlaced

\* The items that are in the mails when a mailbox has been saved, and those that are gone.
LEMMA SavedMailed ==
  ASSUME MailInv, NEW p \in Players, NEW id, NEW rest \in SignedMails, NEW taken, NEW i
  PROVE  Mailed(_SaveMail(p, mail, id, rest, taken), i) =
           {k \in Mailed(mail, i) : k \notin deleted[p] /\ i \notin taken}
<1>1. ASSUME NEW k \in MailIds
      PROVE  k \in Mailed(_SaveMail(p, mail, id, rest, taken), i)
             <=> k \in Mailed(mail, i) /\ k \notin deleted[p] /\ i \notin taken
  <2>1. CASE k \in deleted[p] \/ mail[k] = NoMail
    <3>1. _SaveMail(p, mail, id, rest, taken)[k] = NoMail
      BY <2>1 DEF _SaveMail
    <3> QED BY <2>1, <3>1 DEF Mailed
  <2>2. CASE k \notin deleted[p] /\ mail[k] # NoMail
    <3>1. PICK m \in Mails : m = mail[k]
      BY <2>2, MailboxType, MailFields DEF MailInv
    <3>3. PICK r \in Mails : _SaveMail(p, mail, id, rest, taken)[k] = Tidy(r) /\ r.items = m.items \ taken
      <4>1. PICK r : IsSaved(p, k, id, rest, taken, r)
        BY <2>2, SavedRow
      <4> QED BY <3>1, <4>1 DEF IsSaved
    <3>5. CASE Carries(r)
      <4>1. Tidy(r) = r
        BY <3>5 DEF Tidy
      <4>2. r # NoMail
        BY MailNames
      <4> QED BY <2>2, <3>1, <3>3, <4>1, <4>2 DEF Mailed
    <3>6. CASE ~Carries(r)
      <4>1. Tidy(r) = NoMail /\ i \notin m.items \ taken
        BY <3>3, <3>6 DEF Tidy, Carries
      <4> QED BY <2>2, <3>1, <3>3, <4>1 DEF Mailed
    <3> QED BY <3>5, <3>6
  <2> QED BY <2>1, <2>2
<1> QED BY <1>1 DEF Mailed

LEMMA DeletedGoodsIn ==
  ASSUME MailInv, BoxesTrue, NEW p \in Players, NEW i
  PROVE  i \in DeletedGoods(p) <=> \E k \in deleted[p] : k \in Mailed(mail, i)
<1>1. \A k \in deleted[p] : mail[k] = box[p][k] /\ k \in MailIds /\ mail[k] # NoMail
  BY TrueDeleted, MailFields
<1> QED BY <1>1 DEF DeletedGoods, Mailed

LEMMA TakeMoneyPlaced ==
  ASSUME MailInv, BoxesTrue, EachPlaced, NEW p \in Players, NEW id \in MailIds, HandleMailTakeMoney(p, id),
         auction' = auction
  PROVE  EachPlaced'
<1>1. PICK rest, next : rest = [box[p][id] EXCEPT !.money = 0] /\ next = mail'
  OBVIOUS
<1>2. /\ bag' = bag /\ wasted' = wasted \cup DeletedGoods(p) /\ next = _SaveMail(p, mail, id, rest, {})
  BY <1>1 DEF HandleMailTakeMoney
<1>4. rest \in SignedMails
  <2>1. PICK m \in SignedMails : m = box[p][id]
    BY OpenMail DEF HandleMailTakeMoney
  <2>2. /\ m \in Mails /\ (m.kind # "normal" => m.cod = 0) /\ (m.kind = "auction" => m.cod = 0) /\ (m.kind # "auction" => m.sender \in Players)
    BY MailFields, AsksOnce
  <2>3. /\ rest \in Mails /\ rest.kind = m.kind /\ rest.sender = m.sender /\ rest.cod = m.cod
    BY <1>1, <2>1, <2>2 DEF Mails
  <2> QED BY <2>2, <2>3 DEF SignedMails, Signed
<1>3. ASSUME NEW i \in Items PROVE Placed(bag', auction', next, wasted', i)
  <2>1. Placed(bag, auction, mail, wasted, i)
    BY DEF EachPlaced
  <2>2. Mailed(next, i) = Mailed(mail, i) \ deleted[p]
    BY <1>2, <1>4, SavedMailed
  <2>3. i \in wasted' <=> i \in wasted \/ \E k \in deleted[p] : k \in Mailed(mail, i)
    BY <1>2, DeletedGoodsIn
  <2> QED BY <1>2, <2>1, <2>2, <2>3, PlacedDropped
<1> QED BY <1>1, <1>3 DEF EachPlaced

LEMMA LogoutPlaced ==
  ASSUME MailInv, BoxesTrue, EachPlaced, NEW p \in Players, Logout(p), auction' = auction
  PROVE  EachPlaced'
<1>1. PICK next : next = mail'
  OBVIOUS
<1>2. /\ bag' = bag /\ wasted' = wasted \cup DeletedGoods(p)
      /\ next = [id \in MailIds |-> IF id \in deleted[p] THEN NoMail ELSE mail[id]]
  BY <1>1 DEF Logout, memory
<1>3. ASSUME NEW i \in Items PROVE Placed(bag', auction', next, wasted', i)
  <2>1. Placed(bag, auction, mail, wasted, i)
    BY DEF EachPlaced
  <2>2. Mailed(next, i) = Mailed(mail, i) \ deleted[p]
    BY <1>2 DEF Mailed
  <2>3. i \in wasted' <=> i \in wasted \/ \E k \in deleted[p] : k \in Mailed(mail, i)
    BY <1>2, DeletedGoodsIn
  <2> QED BY <1>2, <2>1, <2>2, <2>3, PlacedDropped
<1> QED BY <1>1, <1>3 DEF EachPlaced

LEMMA TakeItemPlaced ==
  ASSUME MailInv, BoxesTrue, EachPlaced, NEW p \in Players, NEW id \in MailIds, NEW i \in Items,
         HandleMailTakeItem(p, id, i), auction' = auction
  PROVE  EachPlaced'
<1>1. PICK m, rest, drafts, taken, rows, next :
        /\ m = box[p][id] /\ rest = Without(m, i) /\ drafts = Payment(m) /\ taken = m.items \ rest.items
        /\ rows = _SaveMail(p, mail, id, rest, taken) /\ next = mail'
  OBVIOUS
<1>2. /\ Open(p, id) /\ i \in m.items /\ Room(drafts) /\ next = Inserted(rows, New(drafts))
      /\ bag' = [bag EXCEPT ![p] = @ \cup {i}] /\ wasted' = wasted \cup DeletedGoods(p)
  BY <1>1 DEF HandleMailTakeItem
<1>3. mail[id] = m /\ m \in SignedMails /\ m # NoMail /\ id \notin deleted[p]
  BY <1>1, <1>2, TrueMail DEF Open, InWorld, Connected
<1>4. rest \in SignedMails /\ rest.cod = 0 /\ taken = {i}
  <2>1. rest.items = m.items \ {i}
    BY <1>1, <1>3, WithoutType
  <2> QED BY <1>1, <1>2, <1>3, <2>1, WithoutType
<1>5. rows \in Rows
  BY <1>1, <1>4, SavedRows
<1>6. IsFiniteSet(DOMAIN drafts) /\ \A k \in DOMAIN drafts : drafts[k] \in SignedMails
  BY <1>1, <1>3, PaymentTypes
<1>7. \A k \in Unused : rows[k] = NoMail
  BY <1>1 DEF Unused, _SaveMail
<1>8. \A j \in Items : \A k \in DOMAIN drafts : j \notin drafts[k].items
  <2>1. CASE m.cod > 0
    <3>1. PICK d : d = Draft(m.receiver, m.sender, m.cod, 0, {}, "payment")
      OBVIOUS
    <3>2. DOMAIN drafts = {1} /\ drafts[1] = d /\ d.items = {}
      BY <1>1, <2>1, <3>1 DEF Payment, Draft
    <3> QED BY <3>2
  <2>2. CASE ~(m.cod > 0)
    BY <1>1, <2>2 DEF Payment
  <2> QED BY <2>1, <2>2
<1>9. ASSUME NEW j \in Items PROVE Placed(bag', auction', next, wasted', j)
  <2>1. Placed(bag, auction, mail, wasted, j)
    BY DEF EachPlaced
  <2>2. Mailed(next, j) = Mailed(rows, j)
    BY <1>2, <1>5, <1>6, <1>7, <1>8, NewMailed
  <2>3. Mailed(rows, j) = {k \in Mailed(mail, j) : k \notin deleted[p] /\ j \notin taken}
    BY <1>1, <1>4, SavedMailed
  <2>4. j \in wasted' <=> j \in wasted \/ \E k \in deleted[p] : k \in Mailed(mail, j)
    BY <1>2, DeletedGoodsIn
  <2>5. CASE j = i
    <3>1. id \in Mailed(mail, j)
      BY <1>2, <1>3, <2>5 DEF Mailed
    <3>2. j \notin wasted /\ Holders(bag, j) = {} /\ Auctioned(auction, j) = {} /\ Mailed(mail, j) = {id}
      BY <2>1, <3>1, PlacedThere
    <3>3. j \notin wasted'
      BY <1>3, <2>4, <3>2
    <3>4. Mailed(next, j) = {}
      BY <1>4, <2>2, <2>3, <2>5
    <3>5. Holders(bag', j) = {p}
      BY <1>2, <2>5, <3>2 DEF Holders, MailInv, MailPartsOK
    <3> QED BY <3>2, <3>3, <3>4, <3>5 DEF Placed, Single
  <2>6. CASE j # i
    <3>1. Holders(bag', j) = Holders(bag, j)
      BY <1>2, <2>6 DEF Holders, MailInv, MailPartsOK
    <3>2. Mailed(next, j) = Mailed(mail, j) \ deleted[p]
      BY <1>4, <2>2, <2>3, <2>6
    <3>3. Placed(bag, auction, next, wasted', j)
      BY <2>1, <2>4, <3>2, PlacedDropped
    <3>4. Auctioned(auction', j) = Auctioned(auction, j)
      OBVIOUS
    <3> QED BY <3>1, <3>3, <3>4, PlacedSame
  <2> QED BY <2>5, <2>6
<1> QED BY <1>1, <1>9 DEF EachPlaced

\* Time and the processing of old mails.
LEMMA ExpirePlaced ==
  ASSUME MailInv, EachPlaced, NEW id \in MailIds, Expire(id), auction' = auction
  PROVE  EachPlaced'
<1>1. PICK next : next = mail'
  OBVIOUS
<1>2. mail[id] # NoMail /\ next = [mail EXCEPT ![id] = Aged(@)] /\ bag' = bag /\ wasted' = wasted
  BY <1>1, ExpireStep
<1>3. \A k \in MailIds : next[k] = IF k = id THEN Aged(mail[id]) ELSE mail[k]
  BY <1>2 DEF MailInv, Rows
<1>4. Aged(mail[id]) # NoMail /\ Aged(mail[id]).items = mail[id].items
  <2>1. PICK m : m = mail[id]
    OBVIOUS
  <2>2. m \in SignedMails \cup {NoMail} /\ m # NoMail
    BY <1>2, <2>1 DEF MailInv, Rows
  <2>3. Aged(m) \in SignedMails /\ Aged(m).items = m.items
    BY <2>2, AgedType
  <2> QED BY <2>1, <2>3, MailFields
<1>5. ASSUME NEW i \in Items PROVE Placed(bag', auction', next, wasted', i)
  <2>1. Mailed(next, i) = Mailed(mail, i)
    BY <1>2, <1>3, <1>4 DEF Mailed
  <2> QED BY <1>2, <2>1, PlacedSame DEF EachPlaced
<1> QED BY <1>1, <1>5 DEF EachPlaced

LEMMA ProcessedPlaced ==
  ASSUME MailInv, EachPlaced, NEW done \in SUBSET OldRows
  PROVE  \A i \in Items : Placed(bag, auction, ProcessedRows(done), wasted \cup RowsGoods(DeletableRows(done)), i)
<1>1. PICK next, D, gone : /\ next = ProcessedRows(done) /\ D = DeletableRows(done)
                           /\ gone = wasted \cup RowsGoods(DeletableRows(done))
  OBVIOUS
<1>2. \A k \in done : k \in MailIds /\ mail[k] # NoMail /\ mail[k] \in Mails
  BY OldTypes, MailFields
<1>3. D \subseteq done /\ \A k \in done : k \in D <=> ~Returnable(mail[k])
  BY <1>1 DEF DeletableRows
<1>4. ASSUME NEW k \in MailIds, NEW i
      PROVE  k \in Mailed(next, i) <=> k \in Mailed(mail, i) /\ k \notin D
  <2>1. CASE k \notin done
    <3>1. next[k] = mail[k]
      BY <1>1, <2>1 DEF ProcessedRows
    <3> QED BY <1>3, <2>1, <3>1 DEF Mailed
  <2>2. CASE k \in D
    <3>1. next[k] = NoMail
      BY <1>1, <1>3, <2>2 DEF ProcessedRows
    <3> QED BY <2>2, <3>1 DEF Mailed
  <2>3. CASE k \in done /\ k \notin D
    <3>1. PICK m \in Mails : m = mail[k] /\ m # NoMail
      BY <1>2, <2>3
    <3>2. next[k] = ReturnedRow(m) /\ Returnable(m)
      BY <1>1, <1>3, <2>3, <3>1 DEF ProcessedRows
    <3>3. ReturnedRow(m).items = m.items
      BY <3>1 DEF ReturnedRow, Returned, Checked, Mails
    <3>4. next[k] # NoMail
      <4>1. next[k] \in SignedMails
        BY <2>3, <3>1, <3>2, OldTypes
      <4> QED BY <4>1, MailFields
    <3> QED BY <2>3, <3>1, <3>2, <3>3, <3>4 DEF Mailed
  <2> QED BY <1>3, <2>1, <2>2, <2>3
<1>5. ASSUME NEW i \in Items PROVE Placed(bag, auction, next, gone, i)
  <2>1. Placed(bag, auction, mail, wasted, i)
    BY DEF EachPlaced
  <2>2. Mailed(next, i) = Mailed(mail, i) \ D
    <3>1. \A k \in MailIds : k \in Mailed(next, i) <=> k \in Mailed(mail, i) /\ k \notin D
      BY <1>4
    <3> QED BY <3>1 DEF Mailed
  <2>3. i \in gone <=> i \in wasted \/ \E k \in D : k \in Mailed(mail, i)
    BY <1>1, <1>2, <1>3 DEF RowsGoods, Mailed
  <2> QED BY <2>1, <2>2, <2>3, PlacedDropped
<1> QED BY <1>1, <1>5

\* Items that were in mails are lost.
LEMMA StrippedPlaced ==
  ASSUME NEW things, NEW xs, NEW rows \in Rows, NEW lost, NEW gone, NEW i, Placed(things, xs, rows, lost, i),
         i \in gone => Mailed(rows, i) # {}
  PROVE  Placed(things, xs, Stripped(rows, gone), lost \cup gone, i)
<1>1. PICK next, D : next = Stripped(rows, gone) /\ D = IF i \in gone THEN MailIds ELSE {}
  OBVIOUS
<1>2. ASSUME NEW k \in MailIds
      PROVE  k \in Mailed(next, i) <=> k \in Mailed(rows, i) /\ k \notin D
  <2>1. CASE rows[k] = NoMail
    BY <1>1, <2>1 DEF Stripped, Mailed
  <2>2. CASE rows[k] # NoMail
    <3>1. PICK r \in SignedMails : next[k] = Tidy(r) /\ r.items = rows[k].items \ gone
      BY <1>1, <2>2, StrippedRow
    <3>2. r # NoMail /\ (i \in r.items => Carries(r))
      BY MailFields DEF Carries
    <3> QED BY <1>1, <2>2, <3>1, <3>2 DEF Tidy, Mailed
  <2> QED BY <2>1, <2>2
<1>3. Mailed(next, i) = Mailed(rows, i) \ D
  BY <1>2 DEF Mailed
<1>4. i \in lost \cup gone <=> i \in lost \/ \E k \in D : k \in Mailed(rows, i)
  BY <1>1 DEF Mailed
<1> QED BY <1>1, <1>3, <1>4, PlacedDropped

\* A crash.
LEMMA CrashPlaced ==
  ASSUME MailInv, SeenInv, EachPlaced, MailCrash, ~crossed', bag' = bag, auction' = auction
  PROVE  EachPlaced'
<1>1. PICK done \in SUBSET OldRows, gone \in SUBSET Items :
        /\ mail' = Stripped(ProcessedRows(done), gone)
        /\ wasted' = wasted \cup RowsGoods(DeletableRows(done)) \cup gone
        /\ \/ gone = {}
           \/ \E id \in OldRows : id \notin done /\ ~Returnable(mail[id]) /\ gone \subseteq mail[id].items
  BY CrashStep
<1>2. PICK rows, lost : /\ rows \in Rows /\ rows = ProcessedRows(done)
                        /\ lost = wasted \cup RowsGoods(DeletableRows(done))
  BY OldTypes
<1>3. ASSUME NEW i \in Items PROVE Placed(bag', auction', mail', wasted', i)
  <2>1. Placed(bag, auction, rows, lost, i)
    BY <1>2, ProcessedPlaced
  <2>2. ASSUME i \in gone PROVE Mailed(rows, i) # {}
    <3>1. PICK id \in OldRows : id \notin done /\ i \in mail[id].items
      BY <1>1, <2>2
    <3>2. id \in MailIds /\ mail[id] # NoMail /\ rows[id] = mail[id]
      BY <1>2, <3>1 DEF OldRows, ProcessedRows
    <3> QED BY <3>1, <3>2 DEF Mailed
  <2>3. Placed(bag, auction, Stripped(rows, gone), lost \cup gone, i)
    BY <1>2, <2>1, <2>2, StrippedPlaced
  <2> QED BY <1>1, <1>2, <2>3
<1> QED BY <1>3 DEF EachPlaced

\* The actions of the auction house.
LEMMA SellPlaced ==
  ASSUME MailInv, AuctionInv, EachPlaced, NEW p \in Players, NEW i \in Items, NEW start \in Prices,
         NEW price \in Prices \cup {0}, HandleAuctionSellItem(p, i, start, price)
  PROVE  EachPlaced'
<1>1. PICK a, x, next :
        /\ a = (CHOOSE b \in Free : TRUE) /\ x = NewAuction(p, i, start, price) /\ next = auction'
  OBVIOUS
<1>2. /\ Free # {} /\ i \in bag[p] /\ mail' = mail /\ wasted' = wasted
      /\ bag' = [bag EXCEPT ![p] = @ \ {i}] /\ next = [auction EXCEPT ![a] = x]
  BY <1>1 DEF HandleAuctionSellItem
<1>3. a \in AuctionIds /\ auction[a] = NoAuction
  BY <1>1, <1>2 DEF Free, Live
<1>4. x # NoAuction /\ x.item = i
  <2>1. start \in Nat /\ price \in Nat /\ Deposit \in Nat
    BY AuctionAssumption, MailAssumption
  <2>2. x \in Auctions /\ x.item = i
    BY <1>1, <2>1 DEF NewAuction, Auctions
  <2> QED BY <2>2, AuctionNames
<1>5. \A b \in AuctionIds : next[b] = IF b = a THEN x ELSE auction[b]
  BY <1>2 DEF AuctionInv
<1>6. ASSUME NEW j \in Items PROVE Placed(bag', next, mail', wasted', j)
  <2>1. Placed(bag, auction, mail, wasted, j)
    BY DEF EachPlaced
  <2>2. CASE j = i
    <3>1. p \in Holders(bag, j)
      BY <1>2, <2>2 DEF Holders
    <3>2. j \notin wasted /\ Holders(bag, j) = {p} /\ Auctioned(auction, j) = {} /\ Mailed(mail, j) = {}
      BY <2>1, <3>1, PlacedThere
    <3>3. Holders(bag', j) = {}
      BY <1>2, <2>2, <3>2 DEF Holders, MailInv, MailPartsOK
    <3>4. Auctioned(next, j) = {a}
      BY <1>3, <1>4, <1>5, <2>2, <3>2 DEF Auctioned
    <3> QED BY <1>2, <3>2, <3>3, <3>4 DEF Placed, Single
  <2>3. CASE j # i
    <3>1. Holders(bag', j) = Holders(bag, j)
      BY <1>2, <2>3 DEF Holders, MailInv, MailPartsOK
    <3>2. Auctioned(next, j) = Auctioned(auction, j)
      BY <1>3, <1>4, <1>5, <2>3 DEF Auctioned
    <3> QED BY <1>2, <2>1, <3>1, <3>2, PlacedSame
  <2> QED BY <2>2, <2>3
<1> QED BY <1>1, <1>6 DEF EachPlaced

LEMMA OutbidItems ==
  ASSUME NEW p, NEW x
  PROVE  \A k \in DOMAIN Outbid(p, x) : Outbid(p, x)[k].items = {}
<1>1. PICK d : d = OutbiddedMail(x)
  OBVIOUS
<1>2. d.items = {}
  BY <1>1 DEF OutbiddedMail, FromAuction, Draft
<1>3. CASE x.bidder \notin {None, p}
  <2>1. Outbid(p, x) = <<d>>
    BY <1>1, <1>3 DEF Outbid
  <2> QED BY <1>2, <2>1
<1>4. CASE x.bidder \in {None, p}
  <2>1. DOMAIN Outbid(p, x) = {}
    BY <1>4 DEF Outbid
  <2> QED BY <2>1
<1> QED BY <1>3, <1>4

LEMMA PlaceBidPlaced ==
  ASSUME MailInv, AuctionInv, EachPlaced, NEW p \in Players, NEW a \in Live, NEW price \in Prices, PlaceBid(p, a, price)
  PROVE  EachPlaced'
<1>1. PICK x, raised, drafts, rows, next :
        /\ x = auction[a] /\ raised = [x EXCEPT !.bidder = p, !.bid = price]
        /\ drafts = Outbid(p, x) /\ rows = mail' /\ next = auction'
  OBVIOUS
<1>2. /\ Room(drafts) /\ rows = Inserted(mail, New(drafts)) /\ next = [auction EXCEPT ![a] = raised]
      /\ bag' = bag /\ wasted' = wasted
  BY <1>1 DEF PlaceBid, Post
<1>3. x \in Auctions /\ a \in AuctionIds /\ x # NoAuction
  BY <1>1, LiveAuction DEF Live
<1>4. raised # NoAuction /\ raised.item = x.item
  <2>1. price \in Nat
    BY AuctionAssumption, MailAssumption
  <2>2. raised \in Auctions /\ raised.item = x.item
    BY <1>1, <1>3, <2>1 DEF Auctions
  <2> QED BY <2>2, AuctionNames
<1>5. IsFiniteSet(DOMAIN drafts) /\ \A k \in DOMAIN drafts : drafts[k] \in SignedMails
  BY <1>1, <1>3, OutbidTypes
<1>6. mail \in Rows /\ \A id \in Unused : mail[id] = NoMail
  BY DEF MailInv, Unused
<1>7. ASSUME NEW i \in Items PROVE Placed(bag', next, rows, wasted', i)
  <2>1. \A k \in DOMAIN drafts : i \notin drafts[k].items
    BY <1>1, OutbidItems
  <2>2. Mailed(rows, i) = Mailed(mail, i)
    BY <1>2, <1>5, <1>6, <2>1, NewMailed
  <2>3. Auctioned(next, i) = Auctioned(auction, i)
    <3>1. \A b \in AuctionIds : next[b] = IF b = a THEN raised ELSE auction[b]
      BY <1>2 DEF AuctionInv
    <3> QED BY <1>1, <1>3, <1>4, <3>1 DEF Auctioned
  <2> QED BY <1>2, <2>2, <2>3, PlacedSame DEF EachPlaced
<1> QED BY <1>1, <1>7 DEF EachPlaced

\* One auction ends, and one mail has its item.
LEMMA EndedPlaced ==
  ASSUME MailInv, AuctionInv, EachPlaced, NEW a \in Live, Close({a}), NEW drafts, IsFiniteSet(DOMAIN drafts),
         \A k \in DOMAIN drafts : drafts[k] \in SignedMails, Post(drafts), bag' = bag, wasted' = wasted,
         NEW n \in DOMAIN drafts, drafts[n].items = {auction[a].item},
         \A k \in DOMAIN drafts : k # n => drafts[k].items = {}
  PROVE  EachPlaced'
<1>1. PICK rows, next : rows = mail' /\ next = auction'
  OBVIOUS
<1>2. /\ Room(drafts) /\ rows = Inserted(mail, New(drafts))
      /\ next = [b \in AuctionIds |-> IF b \in {a} THEN NoAuction ELSE auction[b]]
  BY <1>1 DEF Post, Close
<1>3. a \in AuctionIds /\ auction[a] # NoAuction
  BY DEF Live
<1>4. mail \in Rows /\ \A id \in Unused : mail[id] = NoMail
  BY DEF MailInv, Unused
<1>5. \A i \in Items : Auctioned(next, i) = Auctioned(auction, i) \ {a}
  BY <1>2 DEF Auctioned
<1>6. ASSUME NEW i \in Items PROVE Placed(bag', next, rows, wasted', i)
  <2>1. Placed(bag, auction, mail, wasted, i)
    BY DEF EachPlaced
  <2>2. CASE i = auction[a].item
    <3>1. a \in Auctioned(auction, i)
      BY <1>3, <2>2 DEF Auctioned
    <3>2. i \notin wasted /\ Holders(bag, i) = {} /\ Auctioned(auction, i) = {a} /\ Mailed(mail, i) = {}
      BY <2>1, <3>1, PlacedThere
    <3>3. i \in drafts[n].items /\ \A k \in DOMAIN drafts : i \in drafts[k].items => k = n
      BY <2>2
    <3>4. Single(Mailed(rows, i))
      BY <1>2, <1>4, <3>2, <3>3, NewMailed
    <3>5. Auctioned(next, i) = {}
      BY <1>5, <3>2
    <3> QED BY <3>2, <3>4, <3>5 DEF Placed
  <2>3. CASE i # auction[a].item
    <3>1. \A k \in DOMAIN drafts : i \notin drafts[k].items
      BY <2>3
    <3>2. Mailed(rows, i) = Mailed(mail, i)
      BY <1>2, <1>4, <3>1, NewMailed
    <3>3. Auctioned(next, i) = Auctioned(auction, i)
      BY <1>5, <2>3 DEF Auctioned
    <3> QED BY <2>1, <3>2, <3>3, PlacedSame
  <2> QED BY <2>2, <2>3
<1> QED BY <1>1, <1>6 DEF EachPlaced

LEMMA BuyoutPlaced ==
  ASSUME MailInv, AuctionInv, EachPlaced, NEW p \in Players, NEW a \in Live, NEW price \in Prices, Buyout(p, a, price)
  PROVE  EachPlaced'
<1>1. PICK x, sold, drafts :
        /\ x = auction[a] /\ sold = [x EXCEPT !.bidder = p, !.bid = x.buyout]
        /\ drafts = Outbid(p, x) \o Outcome(sold)
  OBVIOUS
<1>2. Post(drafts) /\ Close({a}) /\ bag' = bag /\ wasted' = wasted
  BY <1>1 DEF Buyout
<1>3. x \in Auctions
  BY <1>1, LiveAuction
<1>4. sold \in Auctions /\ sold.bidder = p /\ sold.item = x.item
  BY <1>1, <1>3 DEF Auctions
<1>5. IsFiniteSet(DOMAIN drafts) /\ \A k \in DOMAIN drafts : drafts[k] \in SignedMails
  BY <1>1, <1>3, <1>4, BuyoutTypes
<1>6. PICK d, e, f : d = OutbiddedMail(x) /\ e = SuccessfulMail(sold) /\ f = WonMail(sold)
  OBVIOUS
<1>7. d.items = {} /\ e.items = {} /\ f.items = {x.item}
  BY <1>4, <1>6 DEF OutbiddedMail, SuccessfulMail, WonMail, FromAuction, Draft
<1>8. drafts = <<e, f>> \/ drafts = <<d, e, f>>
  <2>1. Outbid(p, x) \o Outcome(sold) =
          IF x.bidder \in {None, p} THEN <<SuccessfulMail(sold), WonMail(sold)>>
          ELSE <<OutbiddedMail(x), SuccessfulMail(sold), WonMail(sold)>>
    BY <1>3, <1>4, BuyoutMails
  <2> QED BY <1>1, <1>6, <2>1
<1>9. \E n \in DOMAIN drafts :
        drafts[n].items = {auction[a].item} /\ \A k \in DOMAIN drafts : k # n => drafts[k].items = {}
  <2>1. CASE drafts = <<e, f>>
    <3>1. DOMAIN drafts = {1, 2} /\ drafts[1] = e /\ drafts[2] = f
      BY <2>1
    <3> QED BY <1>1, <1>7, <3>1
  <2>2. CASE drafts = <<d, e, f>>
    <3>1. DOMAIN drafts = {1, 2, 3} /\ drafts[1] = d /\ drafts[2] = e /\ drafts[3] = f
      BY <2>2
    <3> QED BY <1>1, <1>7, <3>1
  <2> QED BY <1>8, <2>1, <2>2
<1> QED BY <1>2, <1>5, <1>9, EndedPlaced

LEMMA CancelPlaced ==
  ASSUME MailInv, AuctionInv, EachPlaced, NEW p \in Players, NEW a \in Live, HandleAuctionRemoveItem(p, a)
  PROVE  EachPlaced'
<1>1. PICK x, drafts : x = auction[a] /\ drafts = Refunds(x)
  OBVIOUS
<1>2. Post(drafts) /\ Close({a}) /\ bag' = bag /\ wasted' = wasted
  BY <1>1 DEF HandleAuctionRemoveItem, Refunds
<1>3. x \in Auctions
  BY <1>1, LiveAuction
<1>5. IsFiniteSet(DOMAIN drafts) /\ \A k \in DOMAIN drafts : drafts[k] \in SignedMails
  BY <1>1, <1>3, RefundTypes
<1>6. PICK d, e : d = OutbiddedMail(x) /\ e = ExpiredMail(x)
  OBVIOUS
<1>7. d.items = {} /\ e.items = {x.item}
  BY <1>6 DEF OutbiddedMail, ExpiredMail, FromAuction, Draft
<1>8. drafts = <<e>> \/ drafts = <<d, e>>
  <2>1. Refunds(x) = IF x.bidder = None THEN <<ExpiredMail(x)>> ELSE <<OutbiddedMail(x), ExpiredMail(x)>>
    BY RefundMails
  <2> QED BY <1>1, <1>6, <2>1
<1>9. \E n \in DOMAIN drafts :
        drafts[n].items = {auction[a].item} /\ \A k \in DOMAIN drafts : k # n => drafts[k].items = {}
  <2>1. CASE drafts = <<e>>
    <3>1. DOMAIN drafts = {1} /\ drafts[1] = e
      BY <2>1
    <3> QED BY <1>1, <1>7, <3>1
  <2>2. CASE drafts = <<d, e>>
    <3>1. DOMAIN drafts = {1, 2} /\ drafts[1] = d /\ drafts[2] = e
      BY <2>2
    <3> QED BY <1>1, <1>7, <3>1
  <2> QED BY <1>8, <2>1, <2>2
<1> QED BY <1>2, <1>5, <1>9, EndedPlaced

\* Of the mails about an auction that ends, one has the item.
LEMMA OutcomeItems ==
  ASSUME NEW x
  PROVE  \E n \in DOMAIN Outcome(x) :
           /\ Outcome(x)[n].items = {x.item}
           /\ \A k \in DOMAIN Outcome(x) : k # n => Outcome(x)[k].items = {}
<1>1. PICK e, f, g : e = ExpiredMail(x) /\ f = SuccessfulMail(x) /\ g = WonMail(x)
  OBVIOUS
<1>2. e.items = {x.item} /\ f.items = {} /\ g.items = {x.item}
  BY <1>1 DEF ExpiredMail, SuccessfulMail, WonMail, FromAuction, Draft
<1>3. CASE x.bidder = None
  <2>1. Outcome(x) = <<e>>
    BY <1>1, <1>3 DEF Outcome
  <2>2. DOMAIN Outcome(x) = {1} /\ Outcome(x)[1] = e
    BY <2>1
  <2> QED BY <1>2, <2>2
<1>4. CASE x.bidder # None
  <2>1. Outcome(x) = <<f, g>>
    BY <1>1, <1>4 DEF Outcome
  <2>2. DOMAIN Outcome(x) = {1, 2} /\ Outcome(x)[1] = f /\ Outcome(x)[2] = g
    BY <2>1
  <2> QED BY <1>2, <2>2
<1> QED BY <1>3, <1>4

LEMMA UpdatePlaced ==
  ASSUME MailInv, AuctionInv, EachPlaced, NEW done \in SUBSET Live, Update(done)
  PROVE  EachPlaced'
<1>1. PICK rows, next, drafts : rows = mail' /\ next = auction' /\ drafts = Outcomes(done)
  OBVIOUS
<1>2. /\ Room(drafts) /\ rows = Inserted(mail, New(drafts)) /\ bag' = bag /\ wasted' = wasted
      /\ next = [b \in AuctionIds |-> IF b \in done THEN NoAuction ELSE auction[b]]
  BY <1>1 DEF Update, Post, Close, memory
<1>3. mail \in Rows /\ \A id \in Unused : mail[id] = NoMail
  BY DEF MailInv, Unused
<1>4. /\ IsFiniteSet(DOMAIN drafts)
      /\ DOMAIN drafts = UNION {{a} \X DOMAIN Outcome(auction[a]) : a \in done}
      /\ \A k \in DOMAIN drafts :
           /\ k[1] \in done /\ k[2] \in DOMAIN Outcome(auction[k[1]]) /\ k = <<k[1], k[2]>>
           /\ drafts[k] = Outcome(auction[k[1]])[k[2]] /\ drafts[k] \in SignedMails
  BY <1>1, OutcomesTypes
<1>5. \A a \in done : a \in AuctionIds /\ auction[a] # NoAuction
  BY DEF Live
<1>6. \A i \in Items : Auctioned(next, i) = Auctioned(auction, i) \ done
  BY <1>2 DEF Auctioned
<1>7. ASSUME NEW k \in DOMAIN drafts, NEW i \in drafts[k].items
      PROVE  auction[k[1]].item = i
  <2>1. PICK n \in DOMAIN Outcome(auction[k[1]]) :
          /\ Outcome(auction[k[1]])[n].items = {auction[k[1]].item}
          /\ \A l \in DOMAIN Outcome(auction[k[1]]) : l # n => Outcome(auction[k[1]])[l].items = {}
    BY OutcomeItems
  <2> QED BY <1>4, <1>7, <2>1
<1>8. ASSUME NEW i \in Items PROVE Placed(bag', next, rows, wasted', i)
  <2>1. Placed(bag, auction, mail, wasted, i)
    BY DEF EachPlaced
  <2>2. CASE \E a \in done : auction[a].item = i
    <3>1. PICK a \in done : auction[a].item = i
      BY <2>2
    <3>2. a \in Auctioned(auction, i)
      BY <1>5, <3>1 DEF Auctioned
    <3>3. i \notin wasted /\ Holders(bag, i) = {} /\ Auctioned(auction, i) = {a} /\ Mailed(mail, i) = {}
      BY <2>1, <3>2, PlacedThere
    <3>4. PICK n \in DOMAIN Outcome(auction[a]) :
            /\ Outcome(auction[a])[n].items = {i}
            /\ \A l \in DOMAIN Outcome(auction[a]) : l # n => Outcome(auction[a])[l].items = {}
      BY <3>1, OutcomeItems
    <3>5. PICK k : k = <<a, n>>
      OBVIOUS
    <3>6. k \in DOMAIN drafts
      <4>1. k \in {a} \X DOMAIN Outcome(auction[a])
        BY <3>5
      <4> QED BY <1>4, <3>1, <4>1
    <3>7. i \in drafts[k].items
      BY <1>4, <3>4, <3>5, <3>6
    <3>8. ASSUME NEW j \in DOMAIN drafts, i \in drafts[j].items PROVE j = k
      <4>1. auction[j[1]].item = i /\ j[1] \in done
        BY <1>4, <1>7, <3>8
      <4>2. j[1] = a
        BY <1>5, <3>3, <4>1 DEF Auctioned
      <4>3. j[2] = n
        BY <1>4, <3>4, <3>8, <4>2
      <4> QED BY <1>4, <3>5, <4>2, <4>3
    <3>9. Single(Mailed(rows, i))
      BY <1>2, <1>3, <1>4, <3>3, <3>6, <3>7, <3>8, NewMailed
    <3>10. Auctioned(next, i) = {}
      BY <1>6, <3>1, <3>3
    <3> QED BY <1>2, <3>3, <3>9, <3>10 DEF Placed
  <2>3. CASE \A a \in done : auction[a].item # i
    <3>1. \A k \in DOMAIN drafts : i \notin drafts[k].items
      BY <1>4, <1>7, <2>3
    <3>2. Mailed(rows, i) = Mailed(mail, i)
      BY <1>2, <1>3, <1>4, <3>1, NewMailed
    <3>3. Auctioned(next, i) = Auctioned(auction, i)
      BY <1>6, <2>3 DEF Auctioned
    <3> QED BY <1>2, <2>1, <3>2, <3>3, PlacedSame
  <2> QED BY <2>2, <2>3
<1> QED BY <1>1, <1>8 DEF EachPlaced

-----------------------------------------------------------------------------
(****************************************************************************)
(* The invariant, and the theorems.                                         *)
(****************************************************************************)

\* The inductive invariant.
IInv ==
  /\ MailInv /\ AuctionInv /\ Matched /\ EachPlaced
  /\ Total = SumFunction(InitPurse)

\* The initial states.
LEMMA InitInv == Init => IInv
<1> SUFFICES ASSUME Init PROVE IInv
  OBVIOUS
<1> USE DEF Init, MailInit
<1>1. \A id \in MailIds : mail[id] = NoMail /\ \A p \in Players : box[p][id] = NoMail
  BY DEF Empty
<1>2. \A a \in AuctionIds : auction[a] = NoAuction
  OBVIOUS
<1>3. mail \in Rows /\ box \in [Players -> Rows] /\ mail \in Mailbox /\ box \in [Players -> Mailbox]
  BY DEF Empty, Rows, Mailbox
<1>4. MailInv
  <2>1. InitPurse \in [Players -> Money] /\ InitBag \in [Players -> SUBSET Items]
    BY MailAssumption DEF Money
  <2>2. \A p \in Players : deleted[p] = {}
    OBVIOUS
  <2> QED BY <1>3, <2>1, <2>2 DEF MailInv, MailPartsOK, DeletedOpen, Places
<1>5. AuctionInv
  BY <1>2 DEF AuctionInv, BidsInRange, Live
<1>6. Matched
  <2> HIDE DEF Init, MailInit
  <2>1. BoxesMatch(where, box, mail)
    BY <1>1 DEF BoxesMatch
  <2>2. Carried(mail)
    BY <1>1 DEF Carried
  <2> QED BY <2>1, <2>2 DEF Matched, BoxesTrue
<1>7. EachPlaced
  <2>1. ASSUME NEW i \in Items PROVE Placed(bag, auction, mail, wasted, i)
    <3>1. PICK p \in Players : \A q \in Players : i \in InitBag[q] <=> q = p
      BY AuctionAssumption
    <3>2. Holders(bag, i) = {p}
      BY <3>1 DEF Holders
    <3>3. Auctioned(auction, i) = {} /\ Mailed(mail, i) = {}
      BY <1>1, <1>2 DEF Auctioned, Mailed
    <3>4. i \notin wasted
      OBVIOUS
    <3> QED BY <3>2, <3>3, <3>4 DEF Placed, Single
  <2> QED BY <2>1 DEF EachPlaced
<1>8. Total = SumFunction(InitPurse)
  <2>1. PICK f, g : f = Paid(auction) /\ g = Sent(mail)
    OBVIOUS
  <2>2. /\ DOMAIN f = AuctionIds /\ (\A a \in AuctionIds : f[a] = 0)
        /\ DOMAIN g = MailIds /\ \A id \in MailIds : g[id] = 0
    <3> HIDE DEF Init, MailInit
    <3>1. mail \in Rows /\ auction \in AuctionRows
      BY <1>4, <1>5 DEF MailInv, AuctionInv, AuctionRows
    <3> QED BY <1>1, <1>2, <2>1, <3>1, PaidTypes, SentTypes
  <2>3. SumFunctionOnSet(f, AuctionIds) = 0
    BY <2>2, SumZero, AuctionAssumption
  <2>4. SumFunctionOnSet(g, MailIds) = 0
    BY <2>2, SumZero, MailAssumption
  <2>5. SumFunction(f) = 0 /\ SumFunction(g) = 0
    BY <2>2, <2>3, <2>4 DEF SumFunction
  <2>6. SumFunction(purse) \in Int
    BY <1>4, <1>5, PartTypes
  <2>7. purse = InitPurse /\ sunk = 0
    OBVIOUS
  <2> QED BY <2>1, <2>5, <2>6, <2>7 DEF Total
<1> QED BY <1>4, <1>5, <1>6, <1>7, <1>8 DEF IInv

\* What a step leaves alone.
LEMMA AuctionsUnchanged ==
  ASSUME AuctionInv, auction' = auction, dbAuction' = dbAuction
  PROVE  AuctionInv'
BY DEF AuctionInv, BidsInRange, Live

LEMMA NothingMoves ==
  ASSUME EachPlaced, bag' = bag, purse' = purse, mail' = mail, auction' = auction, sunk' = sunk, wasted' = wasted
  PROVE  EachPlaced' /\ Total' = Total
BY DEF EachPlaced, Total

\* The classes of steps.
LEMMA MailHandlerInv ==
  ASSUME IInv, NEW p \in Players, MailHandler(p), UNCHANGED <<auction, dbAuction>>
  PROVE  IInv'
<1> USE DEF IInv
<1>1. AuctionInv' /\ BoxesTrue
  BY AuctionsUnchanged DEF Matched
<1>2. ASSUME NEW q \in Players, NEW things \in SUBSET bag[p], NEW sum \in Sums, NEW onDelivery \in CODs,
             HandleSendMail(p, q, things, sum, onDelivery)
      PROVE  IInv'
  BY <1>1, <1>2, SendType, SendMatched, SendPlaced, SendMoney
<1>3. ASSUME NEW id \in MailIds, HandleMailDelete(p, id) PROVE IInv'
  <2>1. EachPlaced' /\ Total' = Total
    BY <1>3, NothingMoves DEF HandleMailDelete, memory
  <2> QED BY <1>1, <1>3, <2>1, DeleteType, DeleteMatched
<1>4. ASSUME NEW id \in MailIds, HandleMailReturnToSender(p, id) PROVE IInv'
  BY <1>1, <1>4, ReturnType, ReturnMatched, ReturnPlaced, ReturnMoney
<1>5. ASSUME NEW id \in MailIds, HandleMailTakeMoney(p, id) PROVE IInv'
  <2>1. Open(p, id)
    BY <1>5 DEF HandleMailTakeMoney
  <2>2. mail[id] = box[p][id] /\ mail[id] \in SignedMails
    BY <1>1, <2>1, TrueMail DEF Open, InWorld, Connected
  <2>3. box[p][id].cod = 0 \/ mail[id] = NoMail \/ mail[id].kind # "auction"
    BY <2>2, MailFields
  <2>4. MailInv'
    BY <1>1, <1>5, <2>3, TakeMoneyType
  <2> QED BY <1>1, <1>5, <2>4, TakeMoneyMatched, TakeMoneyPlaced, TakeMoneyMoney
<1>6. ASSUME NEW id \in MailIds, NEW i \in Items, HandleMailTakeItem(p, id, i) PROVE IInv'
  <2>1. Open(p, id) /\ i \in box[p][id].items
    BY <1>6 DEF HandleMailTakeItem
  <2>2. mail[id] = box[p][id] /\ mail[id] # NoMail
    BY <1>1, <2>1, TrueMail DEF Open, InWorld, Connected
  <2>3. Placed(bag, auction, mail, wasted, i) /\ id \in Mailed(mail, i)
    BY <2>1, <2>2 DEF EachPlaced, Mailed
  <2>4. Mailed(mail, i) = {id}
    BY <2>3, PlacedThere
  <2>5. \A k \in MailIds \ {id} : mail[k] # NoMail => i \notin mail[k].items
    BY <2>4 DEF Mailed
  <2> QED BY <1>1, <1>6, <2>5, TakeItemType, TakeItemMatched, TakeItemPlaced, TakeItemMoney
<1> QED BY <1>2, <1>3, <1>4, <1>5, <1>6 DEF MailHandler

LEMMA MovesInv ==
  ASSUME IInv, NEW p \in Players, Moves(p), UNCHANGED <<auction, dbAuction>>
  PROVE  IInv'
<1> USE DEF IInv
<1>1. AuctionInv' /\ BoxesTrue
  BY AuctionsUnchanged DEF Matched
<1>2. CASE LoginQueries(p)
  <2>1. EachPlaced' /\ Total' = Total
    BY <1>2, NothingMoves DEF LoginQueries, memory
  <2> QED BY <1>1, <1>2, <2>1, LoginQueriesType, LoginQueriesMatched
<1>3. CASE LoginFromDB(p)
  <2>1. EachPlaced' /\ Total' = Total
    BY <1>3, NothingMoves DEF LoginFromDB, memory
  <2> QED BY <1>1, <1>3, <2>1, LoginType, LoginMatched
<1>4. CASE Logout(p)
  BY <1>1, <1>4, LogoutType, LogoutMatched, LogoutPlaced, LogoutMoney
<1>5. CASE TeleportFar(p) \/ WorldportAck(p)
  <2>1. EachPlaced' /\ Total' = Total
    BY <1>5, NothingMoves DEF TeleportFar, WorldportAck, memory
  <2> QED BY <1>1, <1>5, <2>1, TravelType, TravelMatched
<1> QED BY <1>2, <1>3, <1>4, <1>5 DEF Moves

\* A step that only the workers of the database take, or none.
LEMMA StillInv ==
  ASSUME IInv, UNCHANGED <<where, purse, bag, box, deleted, mail, dbPurse, dbBag, sunk, wasted>>,
         auction' = auction, dbAuction' = dbAuction
  PROVE  IInv'
<1>1. MailInv'
  BY DEF IInv, MailInv, MailPartsOK, DeletedOpen, Connected
<1>2. AuctionInv' /\ EachPlaced' /\ Total' = Total
  BY AuctionsUnchanged, NothingMoves DEF IInv
<1>3. Matched'
  BY DEF IInv, Matched, BoxesTrue
<1> QED BY <1>1, <1>2, <1>3 DEF IInv

LEMMA TimeInv ==
  ASSUME IInv, SeenInv, Time, ~crossed', UNCHANGED <<auction, dbAuction>>
  PROVE  IInv'
<1> USE DEF IInv
<1>1. AuctionInv'
  BY AuctionsUnchanged
<1>2. CASE ReturnOrDeleteOldMails
  <2>1. PICK done \in SUBSET OldRows :
          /\ mail' = ProcessedRows(done) /\ sunk' = sunk + RowsMoney(DeletableRows(done))
          /\ wasted' = wasted \cup RowsGoods(DeletableRows(done)) /\ purse' = purse /\ bag' = bag
    BY <1>2, OldMailsStep
  <2>2. EachPlaced'
    BY <2>1, ProcessedPlaced DEF EachPlaced
  <2>3. Total' = Total
    BY <2>1, ProcessedMoney
  <2> QED BY <1>1, <1>2, <2>2, <2>3, OldMailsType, OldMailsMatched
<1>3. ASSUME NEW id \in MailIds, Expire(id) PROVE IInv'
  BY <1>1, <1>3, ExpireType, ExpireMatched, ExpirePlaced, ExpireMoney
<1>4. CASE Execute
  BY <1>4, StillInv DEF Execute, memory, tables
<1> QED BY <1>2, <1>3, <1>4 DEF Time

LEMMA SellInv ==
  ASSUME IInv, NEW p \in Players, Sell(p)
  PROVE  IInv'
<1> USE DEF IInv
<1>1. ASSUME NEW i \in Items, NEW start \in Prices, NEW price \in Prices \cup {0},
             HandleAuctionSellItem(p, i, start, price)
      PROVE  IInv'
  <2>1. Matched'
    BY <1>1 DEF HandleAuctionSellItem, Matched, BoxesTrue
  <2> QED BY <1>1, <2>1, SellType, SellPlaced, SellMoney
<1> QED BY <1>1 DEF Sell

LEMMA BidInv ==
  ASSUME IInv, NEW p \in Players, Bid(p)
  PROVE  IInv'
<1> USE DEF IInv
<1>1. ASSUME NEW a \in Live, NEW price \in Prices, PlaceBid(p, a, price) PROVE IInv'
  <2>1. PICK drafts : drafts = Outbid(p, auction[a])
    OBVIOUS
  <2>2. IsFiniteSet(DOMAIN drafts)
    BY <2>1, LiveAuction, OutbidTypes
  <2>3. Post(drafts) /\ where' = where
    BY <1>1, <2>1 DEF PlaceBid
  <2>4. Matched'
    BY <2>2, <2>3, PostMatched
  <2> QED BY <1>1, <2>4, PlaceBidType, PlaceBidPlaced, PlaceBidMoney
<1>2. ASSUME NEW a \in Live, NEW price \in Prices, Buyout(p, a, price) PROVE IInv'
  <2>1. PICK x, sold, drafts :
          /\ x = auction[a] /\ sold = [x EXCEPT !.bidder = p, !.bid = x.buyout]
          /\ drafts = Outbid(p, x) \o Outcome(sold)
    OBVIOUS
  <2>2. x \in Auctions /\ sold \in Auctions /\ sold.bidder = p
    BY <2>1, LiveAuction DEF Auctions
  <2>3. IsFiniteSet(DOMAIN drafts)
    BY <2>1, <2>2, BuyoutTypes
  <2>4. Post(drafts) /\ where' = where
    BY <1>2, <2>1 DEF Buyout
  <2>5. Matched'
    BY <2>3, <2>4, PostMatched
  <2> QED BY <1>2, <2>5, BuyoutType, BuyoutPlaced, BuyoutMoney
<1> QED BY <1>1, <1>2 DEF Bid

LEMMA CancelInv ==
  ASSUME IInv, NEW p \in Players, Cancel(p)
  PROVE  IInv'
<1> USE DEF IInv
<1>1. ASSUME NEW a \in Live, HandleAuctionRemoveItem(p, a) PROVE IInv'
  <2>1. PICK drafts : drafts = Refunds(auction[a])
    OBVIOUS
  <2>2. IsFiniteSet(DOMAIN drafts)
    BY <2>1, LiveAuction, RefundTypes
  <2>3. Post(drafts) /\ where' = where
    BY <1>1, <2>1 DEF HandleAuctionRemoveItem, Refunds
  <2>4. Matched'
    BY <2>2, <2>3, PostMatched
  <2> QED BY <1>1, <2>4, CancelType, CancelPlaced, CancelMoney
<1> QED BY <1>1 DEF Cancel

LEMMA UpdateInv ==
  ASSUME IInv, NEW done \in SUBSET Live, Update(done)
  PROVE  IInv'
<1> USE DEF IInv
<1>1. PICK drafts : drafts = Outcomes(done)
  OBVIOUS
<1>2. IsFiniteSet(DOMAIN drafts)
  BY <1>1, OutcomesTypes
<1>3. Post(drafts) /\ where' = where
  BY <1>1 DEF Update
<1>4. Matched'
  BY <1>2, <1>3, PostMatched
<1> QED BY <1>4, UpdateType, UpdatePlaced, UpdateMoney

LEMMA CrashInv ==
  ASSUME IInv, SeenInv, Crash, ~crossed'
  PROVE  IInv'
<1> USE DEF IInv
<1>1. MailCrash /\ auction' = auction /\ dbAuction' = dbAuction /\ bag' = bag
  BY DEF Crash, MailCrash, AuctionInv, MailInv
<1>2. AuctionInv'
  BY <1>1, AuctionsUnchanged
<1>3. EachPlaced'
  BY <1>1, CrashPlaced
<1> QED BY <1>1, <1>2, <1>3, CrashType, CrashMatched, CrashMoney

LEMMA StutterInv ==
  ASSUME IInv, UNCHANGED vars
  PROVE  IInv'
<1>1. /\ UNCHANGED <<where, purse, bag, box, deleted, mail, dbPurse, dbBag, sunk, wasted>>
      /\ auction' = auction /\ dbAuction' = dbAuction
  BY DEF vars, mailVars, memory, tables
<1> QED BY <1>1, StillInv

\* Every step keeps the invariant, unless it changes a mail behind the back of a player.
LEMMA NextInv ==
  ASSUME IInv, SeenInv, [Next]_vars, ~crossed'
  PROVE  IInv'
<1>1. ASSUME NEW p \in Players, Acts(p) PROVE IInv'
  BY <1>1, MailHandlerInv, SellInv, BidInv, CancelInv DEF Acts
<1>2. ASSUME NEW p \in Players, Moves(p), UNCHANGED <<auction, dbAuction>> PROVE IInv'
  BY <1>2, MovesInv
<1>3. CASE Time /\ UNCHANGED <<auction, dbAuction>>
  BY <1>3, TimeInv
<1>4. ASSUME NEW done \in (SUBSET Live) \ {{}}, Update(done) PROVE IInv'
  BY <1>4, UpdateInv
<1>5. CASE Crash
  BY <1>5, CrashInv
<1>6. CASE UNCHANGED vars
  BY <1>6, StutterInv
<1> QED BY <1>1, <1>2, <1>3, <1>4, <1>5, <1>6 DEF Next

\* What the invariant says of the states that are reached.
LEMMA InvImplies ==
  ASSUME IInv
  PROVE  MoneyConserved /\ OnePlace /\ MailboxTrue
<1> USE DEF IInv
<1>2. MoneyConserved
  <2>1. dbPurse = purse /\ dbAuction = auction /\ Total = SumFunction(InitPurse)
    BY DEF MailInv, AuctionInv
  <2> QED BY <2>1 DEF MoneyConserved, Balance, Total
<1>3. OnePlace
  <2>1. dbBag = bag /\ dbAuction = auction
    BY DEF MailInv, AuctionInv
  <2> QED BY <2>1, PlacedIsOnePlace DEF OnePlace, EachPlaced
<1>4. MailboxTrue
  BY DEF MailboxTrue, LoggedInUnmodified, Matched, BoxesTrue, BoxesMatch, Connected
<1> QED BY <1>2, <1>3, <1>4

-----------------------------------------------------------------------------
(****************************************************************************)
(* The types alone, also after an old mail was changed behind the back of   *)
(* a player.  His mailbox then shows mails that have been returned or       *)
(* deleted, but what it takes for a mail of a player is not one of the      *)
(* auction house.                                                           *)
(****************************************************************************)

Agree(m, n) == m.kind = "auction" <=> n.kind = "auction"

\* The mails of some are mails of all.
Among(some, all) == \A id \in MailIds : some[id] = NoMail \/ (all[id] # NoMail /\ Agree(some[id], all[id]))

BoxesAgree(boxes, rows) ==
  \A p \in Players, id \in MailIds : boxes[p][id] # NoMail /\ rows[id] # NoMail => Agree(boxes[p][id], rows[id])

TypesInv == MailInv /\ AuctionInv /\ BoxesAgree(box, mail) /\ SeenInv

\* Mails that are taken away, and mails that are sent under numbers nobody uses.
LEMMA AgreeAmong ==
  ASSUME BoxesAgree(box, mail), NEW rows, Among(rows, mail), NEW boxes, \A q \in Players : Among(boxes[q], box[q])
  PROVE  BoxesAgree(boxes, rows)
BY DEF BoxesAgree, Among, Agree

LEMMA AgreeNew ==
  ASSUME BoxesAgree(box, mail), NEW rows, Among(rows, mail), NEW boxes, \A q \in Players : Among(boxes[q], box[q]),
         NEW drafts, IsFiniteSet(DOMAIN drafts), Room(drafts), NEW found
  PROVE  BoxesAgree(Delivered(boxes, New(drafts), found), Inserted(rows, New(drafts)))
<1>1. PICK new, after, there : /\ new = New(drafts) /\ after = Inserted(rows, new)
                               /\ there = Delivered(boxes, new, found)
  OBVIOUS
<1>2. DOMAIN new \subseteq Unused
  BY <1>1, NewMails
<1>3. ASSUME NEW p \in Players, NEW id \in MailIds, there[p][id] # NoMail, after[id] # NoMail
      PROVE  Agree(there[p][id], after[id])
  <2>1. after[id] = IF id \in DOMAIN new THEN new[id] ELSE rows[id]
    BY <1>1 DEF Inserted
  <2>2. there[p][id] = IF id \in DOMAIN new /\ new[id].receiver = p /\ p \in found THEN new[id] ELSE boxes[p][id]
    BY <1>1 DEF Delivered
  <2>3. CASE id \in DOMAIN new
    <3>1. box[p][id] = NoMail
      BY <1>2, <2>3 DEF Unused
    <3>2. boxes[p][id] = NoMail
      BY <3>1 DEF Among
    <3> QED BY <1>3, <2>1, <2>2, <2>3, <3>2 DEF Agree
  <2>4. CASE id \notin DOMAIN new
    <3>1. BoxesAgree(boxes, rows)
      BY AgreeAmong
    <3> QED BY <1>3, <2>1, <2>2, <2>4, <3>1 DEF BoxesAgree
  <2> QED BY <2>3, <2>4
<1> QED BY <1>1, <1>3 DEF BoxesAgree

LEMMA AmongItself ==
  ASSUME NEW rows
  PROVE  Among(rows, rows)
BY DEF Among, Agree

LEMMA PostAgree ==
  ASSUME BoxesAgree(box, mail), NEW drafts, IsFiniteSet(DOMAIN drafts), Post(drafts)
  PROVE  BoxesAgree(box', mail')
<1>1. Room(drafts) /\ mail' = Inserted(mail, New(drafts)) /\ box' = Delivered(box, New(drafts), Connected)
  BY DEF Post
<1> QED BY <1>1, AgreeNew, AmongItself

LEMMA SendAgree ==
  ASSUME BoxesAgree(box, mail), NEW p, NEW q, NEW things, NEW sum, NEW onDelivery,
         HandleSendMail(p, q, things, sum, onDelivery)
  PROVE  BoxesAgree(box', mail')
<1>1. PICK d, drafts :
        /\ d = Draft(p, q, sum, IF things = {} THEN 0 ELSE onDelivery, things, "normal")
        /\ drafts = <<d>>
  OBVIOUS
<1>2. Post(drafts)
  BY <1>1 DEF HandleSendMail, Post
<1>3. IsFiniteSet(DOMAIN drafts)
  BY <1>1, ShortDomains
<1> QED BY <1>2, <1>3, PostAgree

LEMMA ReturnAgree ==
  ASSUME MailInv, BoxesAgree(box, mail), NEW p \in Players, NEW id \in MailIds, HandleMailReturnToSender(p, id)
  PROVE  BoxesAgree(box', mail')
<1>1. PICK drafts, rows, boxes :
        /\ drafts = SentBack(box[p][id]) /\ rows = [mail EXCEPT ![id] = NoMail]
        /\ boxes = [box EXCEPT ![p][id] = NoMail]
  OBVIOUS
<1>2. /\ Room(drafts) /\ mail' = Inserted(rows, New(drafts)) /\ box' = Delivered(boxes, New(drafts), InWorld)
  BY <1>1 DEF HandleMailReturnToSender
<1>3. IsFiniteSet(DOMAIN drafts)
  BY <1>1, OpenMail, SentBackTypes DEF HandleMailReturnToSender
<1>4. Among(rows, mail)
  BY <1>1 DEF Among, Agree, MailInv, Rows
<1>5. \A q \in Players : Among(boxes[q], box[q])
  BY <1>1 DEF Among, Agree, MailInv, Rows
<1> QED BY <1>2, <1>3, <1>4, <1>5, AgreeNew

\* Saving a mailbox.
LEMMA SavedAmong ==
  ASSUME MailInv, BoxesAgree(box, mail), NEW p \in Players, NEW id \in MailIds, NEW rest \in SignedMails, NEW taken,
         box[p][id] # NoMail, rest.kind = box[p][id].kind
  PROVE  /\ Among(_SaveMail(p, mail, id, rest, taken), mail)
         /\ \A q \in Players : Among([box EXCEPT ![p] = Kept(p, id, rest)][q], box[q])
<1>1. ASSUME NEW k \in MailIds, _SaveMail(p, mail, id, rest, taken)[k] # NoMail
      PROVE  mail[k] # NoMail /\ Agree(_SaveMail(p, mail, id, rest, taken)[k], mail[k])
  <2>1. k \notin deleted[p] /\ mail[k] # NoMail
    BY <1>1 DEF _SaveMail
  <2>2. PICK r \in Mails :
          /\ _SaveMail(p, mail, id, rest, taken)[k] = Tidy(r)
          /\ k # id => r.kind = mail[k].kind
          /\ k = id => r.kind = Checked(mail[k], rest.kind)
    <3>1. PICK r : IsSaved(p, k, id, rest, taken, r)
      BY <2>1, SavedRow
    <3> QED BY <3>1 DEF IsSaved
  <2>3. k = id => Agree(box[p][k], mail[k])
    BY <2>1 DEF BoxesAgree
  <2> QED BY <1>1, <2>1, <2>2, <2>3 DEF Tidy, Agree, Checked
<1>2. ASSUME NEW q \in Players, NEW k \in MailIds, [box EXCEPT ![p] = Kept(p, id, rest)][q][k] # NoMail
      PROVE  box[q][k] # NoMail /\ Agree([box EXCEPT ![p] = Kept(p, id, rest)][q][k], box[q][k])
  <2>1. CASE q # p
    BY <1>2, <2>1 DEF MailInv, Agree
  <2>2. CASE q = p
    <3>1. Kept(p, id, rest)[k] # NoMail
      BY <1>2, <2>2 DEF MailInv
    <3>2. box[p][k] # NoMail /\ Agree(Kept(p, id, rest)[k], box[p][k])
      BY <3>1 DEF Kept, Tidy, Agree
    <3> QED BY <2>2, <3>2 DEF MailInv
  <2> QED BY <2>1, <2>2
<1> QED BY <1>1, <1>2 DEF Among

LEMMA TakeItemAgree ==
  ASSUME MailInv, BoxesAgree(box, mail), NEW p \in Players, NEW id \in MailIds, NEW i, HandleMailTakeItem(p, id, i)
  PROVE  BoxesAgree(box', mail')
<1>1. PICK m, drafts, rest, taken, rows, boxes :
        /\ m = box[p][id] /\ drafts = Payment(m) /\ rest = Without(m, i) /\ taken = m.items \ rest.items
        /\ rows = _SaveMail(p, mail, id, rest, taken) /\ boxes = [box EXCEPT ![p] = Kept(p, id, rest)]
  OBVIOUS
<1>2. /\ Room(drafts) /\ mail' = Inserted(rows, New(drafts)) /\ box' = Delivered(boxes, New(drafts), InWorld)
  BY <1>1 DEF HandleMailTakeItem
<1>3. m \in SignedMails /\ m # NoMail
  BY <1>1, OpenMail, MailFields DEF HandleMailTakeItem
<1>4. IsFiniteSet(DOMAIN drafts)
  BY <1>1, <1>3, PaymentTypes
<1>5. rest.kind = m.kind
  BY <1>1, <1>3, MailFields DEF Without, Mails
<1>6. rest \in SignedMails
  BY <1>1, <1>3, WithoutType
<1>7. Among(rows, mail) /\ \A q \in Players : Among(boxes[q], box[q])
  BY <1>1, <1>3, <1>5, <1>6, SavedAmong
<1> QED BY <1>2, <1>4, <1>7, AgreeNew

LEMMA TakeMoneyAgree ==
  ASSUME MailInv, BoxesAgree(box, mail), NEW p \in Players, NEW id \in MailIds, HandleMailTakeMoney(p, id)
  PROVE  BoxesAgree(box', mail')
<1>1. PICK m, rest, rows, boxes :
        /\ m = box[p][id] /\ rest = [m EXCEPT !.money = 0]
        /\ rows = _SaveMail(p, mail, id, rest, {}) /\ boxes = [box EXCEPT ![p] = Kept(p, id, rest)]
  OBVIOUS
<1>2. mail' = rows /\ box' = boxes
  BY <1>1 DEF HandleMailTakeMoney
<1>3. m \in SignedMails /\ m \in Mails /\ m # NoMail
  BY <1>1, OpenMail, MailFields DEF HandleMailTakeMoney
<1>4. rest \in SignedMails /\ rest.kind = m.kind
  <2>1. (m.kind # "normal" => m.cod = 0) /\ (m.kind = "auction" => m.cod = 0) /\ (m.kind # "auction" => m.sender \in Players)
    BY <1>3, MailFields, AsksOnce
  <2>2. rest \in Mails /\ rest.kind = m.kind /\ rest.cod = m.cod /\ rest.sender = m.sender
    BY <1>1, <1>3 DEF Mails
  <2> QED BY <2>1, <2>2 DEF SignedMails, Signed
<1>5. Among(rows, mail) /\ \A q \in Players : Among(boxes[q], box[q])
  BY <1>1, <1>3, <1>4, SavedAmong
<1> QED BY <1>2, <1>5, AgreeAmong

\* A mail of the auction house is not paid for: it can be saved with what its copy asks for.
LEMMA TakeMoneyKeepsTypes ==
  ASSUME MailInv, BoxesAgree(box, mail), NEW p \in Players, NEW id \in MailIds, HandleMailTakeMoney(p, id)
  PROVE  MailInv'
<1>1. box[p][id] \in SignedMails
  BY OpenMail DEF HandleMailTakeMoney
<1>2. box[p][id].cod = 0 \/ mail[id] = NoMail \/ mail[id].kind # "auction"
  BY <1>1, MailFields DEF BoxesAgree, Agree
<1> QED BY <1>2, TakeMoneyType

\* Logins, logouts and old mails.
LEMMA MovesAgree ==
  ASSUME MailInv, BoxesAgree(box, mail), NEW p \in Players, Moves(p)
  PROVE  BoxesAgree(box', mail')
<1>1. CASE LoginQueries(p)
  <2>1. PICK found : found = [id \in MailIds |-> IF mail[id] # NoMail /\ mail[id].receiver = p THEN mail[id] ELSE NoMail]
    OBVIOUS
  <2>2. mail' = mail /\ box' = [box EXCEPT ![p] = found]
    BY <1>1, <2>1 DEF LoginQueries
  <2>3. ASSUME NEW q \in Players, NEW id \in MailIds, box'[q][id] # NoMail, mail[id] # NoMail
        PROVE  Agree(box'[q][id], mail[id])
    BY <2>1, <2>2, <2>3 DEF BoxesAgree, Agree, MailInv
  <2> QED BY <2>2, <2>3 DEF BoxesAgree
<1>2. CASE LoginFromDB(p)
  <2>1. mail' = mail /\ box' = [box EXCEPT ![p] = Loaded(p)]
    BY <1>2 DEF LoginFromDB
  <2>2. \A q \in Players : Among(box'[q], box[q])
    BY <2>1 DEF Among, Agree, Loaded, MailInv
  <2> QED BY <2>1, <2>2, AgreeAmong, AmongItself
<1>3. CASE Logout(p)
  <2>1. /\ mail' = [id \in MailIds |-> IF id \in deleted[p] THEN NoMail ELSE mail[id]]
        /\ box' = [box EXCEPT ![p] = Empty]
    BY <1>3 DEF Logout
  <2>2. Among(mail', mail) /\ \A q \in Players : Among(box'[q], box[q])
    BY <2>1 DEF Among, Agree, Empty, MailInv
  <2> QED BY <2>2, AgreeAmong
<1>4. CASE TeleportFar(p) \/ WorldportAck(p)
  BY <1>4 DEF TeleportFar, WorldportAck
<1> QED BY <1>1, <1>2, <1>3, <1>4 DEF Moves

LEMMA ProcessedAmong ==
  ASSUME MailInv, SeenInv, NEW done \in SUBSET Old
  PROVE  Among(Processed(done), mail)
<1>1. ASSUME NEW id \in MailIds, Processed(done)[id] # NoMail
      PROVE  mail[id] # NoMail /\ Agree(Processed(done)[id], mail[id])
  <2>1. CASE id \notin done \/ mail[id] = NoMail
    BY <1>1, <2>1 DEF Processed, Agree
  <2>2. CASE id \in done /\ mail[id] # NoMail
    <3>1. mail[id] \in SignedMails /\ seen[id] \in SignedMails
      BY <2>2, SeenTypes, MailboxType DEF MailInv
    <3>2. Returnable(seen[id]) /\ Processed(done)[id] = Returned(mail[id], seen[id])
      BY <1>1, <2>2 DEF Processed
    <3> QED BY <2>2, <3>1, <3>2, ReturnedType DEF Agree
  <2> QED BY <2>1, <2>2
<1> QED BY <1>1 DEF Among

LEMMA TimeAgree ==
  ASSUME MailInv, SeenInv, BoxesAgree(box, mail), Time
  PROVE  BoxesAgree(box', mail')
<1>1. CASE ReturnOrDeleteOldMails
  <2>1. PICK done \in SUBSET Old : mail' = Processed(done) /\ box' = box
    BY <1>1 DEF ReturnOrDeleteOldMails
  <2> QED BY <2>1, ProcessedAmong, AmongItself, AgreeAmong
<1>2. ASSUME NEW id \in MailIds, Expire(id) PROVE BoxesAgree(box', mail')
  <2>1. /\ Among(mail', mail) /\ \A q \in Players : Among(box'[q], box[q])
    <3>1. \A k \in MailIds : mail'[k] = IF k = id THEN [mail[k] EXCEPT !.old = TRUE] ELSE mail[k]
      BY <1>2 DEF Expire, MailInv, Rows
    <3>2. \A q \in Players, k \in MailIds :
            box'[q][k] = IF k = id /\ box[q][k] # NoMail THEN [box[q][k] EXCEPT !.old = TRUE] ELSE box[q][k]
      BY <1>2 DEF Expire, MailInv, Rows
    <3>3. \A m \in Mails : [m EXCEPT !.old = TRUE].kind = m.kind
      BY DEF Mails
    <3>4. /\ \A k \in MailIds : mail[k] # NoMail => mail[k] \in Mails
          /\ \A q \in Players, k \in MailIds : box[q][k] # NoMail => box[q][k] \in Mails
      BY MailboxType, MailFields DEF MailInv
    <3>5. mail[id] # NoMail
      BY <1>2 DEF Expire
    <3> QED BY <3>1, <3>2, <3>3, <3>4, <3>5 DEF Among, Agree
  <2> QED BY <2>1, AgreeAmong
<1>3. CASE Execute
  BY <1>3 DEF Execute
<1> QED BY <1>1, <1>2, <1>3 DEF Time

LEMMA CrashAgree ==
  ASSUME MailInv, BoxesAgree(box, mail), MailCrash
  PROVE  BoxesAgree(box', mail')
BY DEF MailCrash, BoxesAgree, Empty

\* What the handlers of the auction house post.
LEMMA BidAgree ==
  ASSUME MailInv, AuctionInv, BoxesAgree(box, mail), NEW p \in Players, Bid(p)
  PROVE  BoxesAgree(box', mail')
<1>1. ASSUME NEW a \in Live, NEW price \in Prices, PlaceBid(p, a, price) PROVE BoxesAgree(box', mail')
  <2>1. PICK drafts : drafts = Outbid(p, auction[a])
    OBVIOUS
  <2>2. IsFiniteSet(DOMAIN drafts)
    BY <2>1, LiveAuction, OutbidTypes
  <2>3. Post(drafts)
    BY <1>1, <2>1 DEF PlaceBid
  <2> QED BY <2>2, <2>3, PostAgree
<1>2. ASSUME NEW a \in Live, NEW price \in Prices, Buyout(p, a, price) PROVE BoxesAgree(box', mail')
  <2>1. PICK x, sold, drafts :
          /\ x = auction[a] /\ sold = [x EXCEPT !.bidder = p, !.bid = x.buyout]
          /\ drafts = Outbid(p, x) \o Outcome(sold)
    OBVIOUS
  <2>2. x \in Auctions /\ sold \in Auctions /\ sold.bidder = p
    BY <2>1, LiveAuction DEF Auctions
  <2>3. IsFiniteSet(DOMAIN drafts)
    BY <2>1, <2>2, BuyoutTypes
  <2>4. Post(drafts)
    BY <1>2, <2>1 DEF Buyout
  <2> QED BY <2>3, <2>4, PostAgree
<1> QED BY <1>1, <1>2 DEF Bid

LEMMA CancelAgree ==
  ASSUME MailInv, AuctionInv, BoxesAgree(box, mail), NEW p \in Players, Cancel(p)
  PROVE  BoxesAgree(box', mail')
<1>1. PICK a \in Live : HandleAuctionRemoveItem(p, a)
  BY DEF Cancel
<1>2. PICK drafts : drafts = Refunds(auction[a])
  OBVIOUS
<1>3. IsFiniteSet(DOMAIN drafts)
  BY <1>2, LiveAuction, RefundTypes
<1>4. Post(drafts)
  BY <1>1, <1>2 DEF HandleAuctionRemoveItem, Refunds
<1> QED BY <1>3, <1>4, PostAgree

LEMMA UpdateAgree ==
  ASSUME MailInv, AuctionInv, BoxesAgree(box, mail), NEW done \in SUBSET Live, Update(done)
  PROVE  BoxesAgree(box', mail')
<1>1. PICK drafts : drafts = Outcomes(done)
  OBVIOUS
<1>2. IsFiniteSet(DOMAIN drafts)
  BY <1>1, OutcomesTypes
<1>3. Post(drafts)
  BY <1>1 DEF Update
<1> QED BY <1>2, <1>3, PostAgree

\* What the workers of the database have executed, and what is remembered of a mail that was
\* changed behind a player's back.
LEMMA SeenNext ==
  ASSUME MailInv, SeenInv, [Next]_vars, mail' \in Rows
  PROVE  SeenInv' /\ (crossed => crossed')
<1> USE DEF SeenInv
<1>1. ASSUME UNCHANGED <<seen, crossed>> PROVE SeenInv' /\ (crossed => crossed')
  BY <1>1
<1>2. ASSUME NEW p \in Players, MailHandler(p) PROVE UNCHANGED <<seen, crossed>>
  <2>1. ASSUME NEW q, NEW things, NEW sum, NEW cod, HandleSendMail(p, q, things, sum, cod)
        PROVE  UNCHANGED <<seen, crossed>>
    BY <2>1 DEF HandleSendMail
  <2>2. ASSUME NEW id, HandleMailDelete(p, id) PROVE UNCHANGED <<seen, crossed>>
    BY <2>2 DEF HandleMailDelete
  <2>3. ASSUME NEW id, HandleMailReturnToSender(p, id) PROVE UNCHANGED <<seen, crossed>>
    BY <2>3 DEF HandleMailReturnToSender
  <2>4. ASSUME NEW id, HandleMailTakeMoney(p, id) PROVE UNCHANGED <<seen, crossed>>
    BY <2>4 DEF HandleMailTakeMoney
  <2>5. ASSUME NEW id, NEW i, HandleMailTakeItem(p, id, i) PROVE UNCHANGED <<seen, crossed>>
    BY <2>5 DEF HandleMailTakeItem
  <2> QED BY <1>2, <2>1, <2>2, <2>3, <2>4, <2>5 DEF MailHandler
<1>3. ASSUME NEW p \in Players, Sell(p) \/ Bid(p) \/ Cancel(p) PROVE UNCHANGED <<seen, crossed>>
  BY <1>3 DEF Sell, HandleAuctionSellItem, Bid, PlaceBid, Buyout, Cancel, HandleAuctionRemoveItem
<1>4. ASSUME NEW p \in Players, Moves(p) PROVE UNCHANGED <<seen, crossed>>
  BY <1>4 DEF Moves, LoginQueries, LoginFromDB, Logout, TeleportFar, WorldportAck
<1>5. ASSUME NEW done, Update(done) PROVE UNCHANGED <<seen, crossed>>
  BY <1>5 DEF Update
<1>6. CASE ReturnOrDeleteOldMails
  BY <1>6 DEF ReturnOrDeleteOldMails
<1>7. CASE Execute
  BY <1>7 DEF Execute, MailInv
<1>8. ASSUME NEW id \in MailIds, Expire(id) PROVE SeenInv' /\ (crossed => crossed')
  <2>1. seen' = [seen EXCEPT ![id] = Aged(@)] /\ crossed' = crossed
    BY <1>8, ExpireStep
  <2>2. Aged(seen[id]) \in SignedMails \cup {NoMail}
    BY AgedType DEF Rows
  <2> QED BY <2>1, <2>2 DEF Rows
<1>9. CASE Crash
  <2>1. seen' = mail' /\ \E ids : crossed' = (crossed \/ Outdated(ids))
    BY <1>9 DEF Crash, MailCrash
  <2> QED BY <2>1
<1>10. CASE UNCHANGED vars
  BY <1>10 DEF vars, mailVars
<1> QED BY <1>1, <1>2, <1>3, <1>4, <1>5, <1>6, <1>7, <1>8, <1>9, <1>10 DEF Next, Acts, Time

\* Every step keeps the types.
LEMMA TypesNext ==
  ASSUME TypesInv, [Next]_vars
  PROVE  TypesInv'
<1> USE DEF TypesInv
<1> DEFINE Inv == MailInv /\ AuctionInv /\ BoxesAgree(box, mail)
<1>1. ASSUME NEW p \in Players, MailHandler(p), UNCHANGED <<auction, dbAuction>> PROVE Inv'
  <2>1. AuctionInv'
    BY <1>1, AuctionsUnchanged
  <2>2. ASSUME NEW id \in MailIds, HandleMailDelete(p, id) PROVE BoxesAgree(box', mail')
    BY <2>2 DEF HandleMailDelete
  <2>3. MailInv'
    BY <1>1, SendType, DeleteType, ReturnType, TakeMoneyKeepsTypes, TakeItemType DEF MailHandler
  <2>4. BoxesAgree(box', mail')
    BY <1>1, <2>2, SendAgree, ReturnAgree, TakeMoneyAgree, TakeItemAgree DEF MailHandler
  <2> QED BY <2>1, <2>3, <2>4
<1>2. ASSUME NEW p \in Players, Sell(p) PROVE Inv'
  <2>1. BoxesAgree(box', mail')
    BY <1>2 DEF Sell, HandleAuctionSellItem
  <2> QED BY <1>2, <2>1, SellType DEF Sell
<1>3. ASSUME NEW p \in Players, Bid(p) PROVE Inv'
  BY <1>3, PlaceBidType, BuyoutType, BidAgree DEF Bid
<1>4. ASSUME NEW p \in Players, Cancel(p) PROVE Inv'
  BY <1>4, CancelType, CancelAgree DEF Cancel
<1>5. ASSUME NEW p \in Players, Moves(p), UNCHANGED <<auction, dbAuction>> PROVE Inv'
  <2>1. AuctionInv'
    BY <1>5, AuctionsUnchanged
  <2> QED BY <1>5, <2>1, LoginQueriesType, LoginType, LogoutType, TravelType, MovesAgree DEF Moves
<1>6. ASSUME Time, UNCHANGED <<auction, dbAuction>> PROVE Inv'
  <2>1. AuctionInv'
    BY <1>6, AuctionsUnchanged
  <2>2. ASSUME Execute PROVE MailInv'
    BY <2>2 DEF Execute, memory, tables, MailInv, MailPartsOK, DeletedOpen, Connected
  <2>3. MailInv'
    BY <1>6, <2>2, OldMailsType, ExpireType DEF Time
  <2>4. BoxesAgree(box', mail')
    BY <1>6, TimeAgree
  <2> QED BY <2>1, <2>3, <2>4
<1>7. ASSUME NEW done \in SUBSET Live, Update(done) PROVE Inv'
  BY <1>7, UpdateType, UpdateAgree
<1>8. ASSUME Crash PROVE Inv'
  <2>1. MailCrash /\ auction' = auction /\ dbAuction' = dbAuction
    BY <1>8 DEF Crash, AuctionInv
  <2>2. AuctionInv'
    BY <2>1, AuctionsUnchanged
  <2>3. MailInv'
    BY <2>1, CrashType
  <2>4. BoxesAgree(box', mail')
    BY <2>1, CrashAgree
  <2> QED BY <2>2, <2>3, <2>4
<1>9. ASSUME UNCHANGED vars PROVE Inv'
  <2>1. /\ UNCHANGED <<where, purse, bag, box, deleted, mail, dbPurse, dbBag, sunk, wasted>>
        /\ auction' = auction /\ dbAuction' = dbAuction
    BY <1>9 DEF vars, mailVars, memory, tables
  <2>2. MailInv'
    BY <2>1 DEF MailInv, MailPartsOK, DeletedOpen, Connected
  <2>3. AuctionInv'
    BY <2>1, AuctionsUnchanged
  <2>4. BoxesAgree(box', mail')
    BY <2>1
  <2> QED BY <2>2, <2>3, <2>4
<1>10. Inv'
  BY <1>1, <1>2, <1>3, <1>4, <1>5, <1>6, <1>7, <1>8, <1>9 DEF Next, Acts
<1>11. SeenInv'
  BY <1>10, SeenNext DEF MailInv
<1> QED BY <1>10, <1>11

\* The invariants hold in every reachable state.
LEMMA InvHolds == Spec => [](TypesInv /\ (~crossed => IInv))
<1>1. Init => TypesInv /\ IInv
  <2>1. ASSUME Init PROVE BoxesAgree(box, mail) /\ SeenInv
    BY <2>1 DEF Init, MailInit, BoxesAgree, Empty, SeenInv, Rows
  <2> QED BY <2>1, InitInv DEF IInv, TypesInv
<1>2. TypesInv /\ (~crossed => IInv) /\ [Next]_vars => TypesInv' /\ (~crossed' => IInv')
  <2> SUFFICES ASSUME TypesInv, ~crossed => IInv, [Next]_vars
               PROVE  TypesInv' /\ (~crossed' => IInv')
    OBVIOUS
  <2>1. TypesInv'
    BY TypesNext
  <2>2. SeenInv /\ (crossed => crossed')
    BY <2>1, SeenNext DEF TypesInv, MailInv
  <2>3. ASSUME ~crossed' PROVE IInv'
    BY <2>2, <2>3, NextInv
  <2> QED BY <2>1, <2>3
<1> QED BY <1>1, <1>2, PTL DEF Spec

\* Purses hold at most MAX_MONEY_AMOUNT, whatever ModifyMoney adds or takes, what is sunk never
\* falls below 0, and the rows, the mailboxes and the auctions are complete: the handlers send
\* and post nothing with a price, a bid or a sum below 0.  Old mails may be processed at any time.
THEOREM TypeCorrect == Spec => []TypeOK
<1>1. TypesInv => TypeOK
  BY MailboxType DEF TypesInv, TypeOK, MailTypeOK, MailInv, MailPartsOK, SeenInv, AuctionInv
<1> QED BY <1>1, InvHolds, PTL

\* Whatever is sent, taken, returned, bid, bought out, cancelled, lost to the auction house or lost
\* in a crash: the money in purses, mails and auctions and the money spent is what there was, both
\* in memory and in the tables, until an old mail is changed behind the back of a player.  No
\* transaction of these handlers pays twice or forgets a payment.
THEOREM MoneyIsConserved == Spec => []MoneyConserved
<1>1. (~crossed => IInv) => MoneyConserved
  BY InvImplies DEF MoneyConserved
<1> QED BY <1>1, InvHolds, PTL

\* Each item is in one bag, one auction or one mail, or deleted with a mail, in memory and in the
\* tables: neither sending, taking, returning, auctioning nor a crash, not even one between the
\* statements for an old mail, duplicates or loses it, until an old mail is changed behind the
\* back of a player.
THEOREM ItemsInOnePlace == Spec => []OnePlace
<1>1. (~crossed => IInv) => OnePlace
  BY InvImplies DEF OnePlace
<1> QED BY <1>1, InvHolds, PTL

\* What a player in the game sees in his mailbox is what the tables will have: he cannot take items
\* or money out of a mail that has been returned or deleted, but for the old mails that are
\* processed while he is between two maps, or by rows that are out of date.
THEOREM MailboxesAreTrue == Spec => []MailboxTrue
<1>1. (~crossed => IInv) => MailboxTrue
  BY InvImplies DEF MailboxTrue
<1> QED BY <1>1, InvHolds, PTL

-----------------------------------------------------------------------------
(****************************************************************************)
(* The wealth of a player, as sums over the tables.                         *)
(****************************************************************************)

\* The bids that p has in the auctions xs, and the money in the mails to him.
BidsOf(p, xs) == [a \in AuctionIds |-> IF xs[a] # NoAuction /\ xs[a].bidder = p THEN xs[a].bid ELSE 0]
SentTo(p, rows) == [id \in MailIds |-> IF rows[id] # NoMail /\ rows[id].receiver = p THEN rows[id].money ELSE 0]

BidSum(p, xs) == SumFunctionOnSet(BidsOf(p, xs), AuctionIds)
SentSum(p, rows) == SumFunctionOnSet(SentTo(p, rows), MailIds)

\* They are natural numbers.
LEMMA BidsTypes ==
  ASSUME NEW xs \in AuctionRows, NEW p
  PROVE  /\ \A a \in AuctionIds : BidsOf(p, xs)[a] \in Nat
         /\ BidSum(p, xs) \in Nat
<1>1. \A a \in AuctionIds : BidsOf(p, xs)[a] \in Nat
  BY DEF BidsOf, AuctionRows, Auctions
<1> QED BY <1>1, SumNat, AuctionAssumption DEF BidSum

LEMMA SentToTypes ==
  ASSUME NEW rows \in Rows, NEW p
  PROVE  /\ \A id \in MailIds : SentTo(p, rows)[id] \in Nat
         /\ SentSum(p, rows) \in Nat
<1>1. \A id \in MailIds : SentTo(p, rows)[id] \in Nat
  BY MailFields DEF SentTo, Rows
<1> QED BY <1>1, SumNat, MailAssumption DEF SentSum

\* The sums over the auctions he leads and over the mails to him.
LEMMA BidsSum ==
  ASSUME NEW xs \in AuctionRows, NEW p, NEW A, A = {b \in {a \in AuctionIds : xs[a] # NoAuction} : xs[b].bidder = p}
  PROVE  SumFunction([a \in A |-> xs[a].bid]) = BidSum(p, xs)
<1>1. PICK f, g : f = BidsOf(p, xs) /\ g = [a \in A |-> xs[a].bid]
  OBVIOUS
<1>2. A \in SUBSET AuctionIds /\ IsFiniteSet(A) /\ IsFiniteSet(AuctionIds)
  BY FS_Subset, AuctionAssumption
<1>3. /\ \A a \in A : f[a] \in Int
      /\ \A a \in AuctionIds \ A : f[a] = 0
      /\ \A a \in A : f[a] = g[a]
  BY <1>1, BidsTypes DEF BidsOf
<1>4. SumFunctionOnSet(f, AuctionIds) = SumFunctionOnSet(f, A)
  BY <1>2, <1>3, SumOnSubset
<1>5. SumFunctionOnSet(f, A) = SumFunctionOnSet(g, A)
  BY <1>2, <1>3, SumSame
<1>6. SumFunction(g) = SumFunctionOnSet(g, A)
  BY <1>1 DEF SumFunction
<1> QED BY <1>1, <1>4, <1>5, <1>6 DEF BidSum

LEMMA SentToSum ==
  ASSUME NEW rows \in Rows, NEW p, NEW A, A = {k \in MailIds : rows[k] # NoMail /\ rows[k].receiver = p}
  PROVE  SumFunction([id \in A |-> rows[id].money]) = SentSum(p, rows)
<1>1. PICK f, g : f = SentTo(p, rows) /\ g = [id \in A |-> rows[id].money]
  OBVIOUS
<1>2. A \in SUBSET MailIds /\ IsFiniteSet(A) /\ IsFiniteSet(MailIds)
  BY FS_Subset, MailAssumption
<1>3. /\ \A id \in A : f[id] \in Int
      /\ \A id \in MailIds \ A : f[id] = 0
      /\ \A id \in A : f[id] = g[id]
  BY <1>1, SentToTypes DEF SentTo
<1>4. SumFunctionOnSet(f, MailIds) = SumFunctionOnSet(f, A)
  BY <1>2, <1>3, SumOnSubset
<1>5. SumFunctionOnSet(f, A) = SumFunctionOnSet(g, A)
  BY <1>2, <1>3, SumSame
<1>6. SumFunction(g) = SumFunctionOnSet(g, A)
  BY <1>1 DEF SumFunction
<1> QED BY <1>1, <1>4, <1>5, <1>6 DEF SentSum

\* The wealth of p is his coins and these sums, before and after a step.
LEMMA WealthIs ==
  ASSUME IInv, IInv', NEW p \in Players
  PROVE  /\ Wealth(p) = purse[p] + BidSum(p, auction) + SentSum(p, mail)
         /\ Wealth(p)' = purse'[p] + BidSum(p, auction') + SentSum(p, mail')
         /\ purse[p] \in Nat /\ BidSum(p, auction) \in Nat /\ SentSum(p, mail) \in Nat
         /\ purse'[p] \in Nat /\ BidSum(p, auction') \in Nat /\ SentSum(p, mail') \in Nat
<1>1. /\ auction \in AuctionRows /\ mail \in Rows /\ auction' \in AuctionRows /\ mail' \in Rows
      /\ purse[p] \in Nat /\ purse'[p] \in Nat
  BY MailAssumption DEF IInv, MailInv, MailPartsOK, Money, AuctionInv, AuctionRows
<1>2. /\ Wealth(p) = purse[p] + BidSum(p, auction) + SentSum(p, mail)
  BY <1>1, BidsSum, SentToSum DEF Wealth, Live
<1>3. /\ Wealth(p)' = purse'[p] + BidSum(p, auction') + SentSum(p, mail')
  BY <1>1, BidsSum, SentToSum DEF Wealth, Live
<1> QED BY <1>1, <1>2, <1>3, BidsTypes, SentToTypes

\* Rows to p that do not lose money, and what he is sent.
LEMMA SentGrows ==
  ASSUME NEW p, NEW rows \in Rows, NEW next \in Rows,
         \A id \in MailIds : SentTo(p, rows)[id] <= SentTo(p, next)[id]
  PROVE  SentSum(p, rows) <= SentSum(p, next)
<1>1. \A id \in MailIds : SentTo(p, rows)[id] \in Int /\ SentTo(p, next)[id] \in Int
  BY SentToTypes
<1> QED BY <1>1, SumNotLess, MailAssumption DEF SentSum

\* Rows that are worth the same to p.
LEMMA SentSame ==
  ASSUME NEW p, NEW rows \in Rows, NEW next \in Rows,
         \A id \in MailIds : SentTo(p, rows)[id] = SentTo(p, next)[id]
  PROVE  SentSum(p, rows) = SentSum(p, next)
<1>1. \A id \in MailIds : SentTo(p, rows)[id] \in Int /\ SentTo(p, next)[id] \in Int
  BY SentToTypes
<1> QED BY <1>1, SumSame, MailAssumption DEF SentSum

\* What a draft carries is in the table when it has been sent.
LEMMA DraftArrives ==
  ASSUME NEW drafts, IsFiniteSet(DOMAIN drafts), Room(drafts), NEW rows \in Rows,
         \A k \in DOMAIN drafts : drafts[k] \in SignedMails,
         \A id \in Unused : rows[id] = NoMail,
         NEW next, next = Inserted(rows, New(drafts))
  PROVE  /\ next \in Rows
         /\ \A id \in MailIds : rows[id] # NoMail => next[id] = rows[id]
         /\ \A id \in MailIds : rows[id] = NoMail /\ next[id] # NoMail =>
              \E k \in DOMAIN drafts : next[id] = drafts[k]
         /\ \A k \in DOMAIN drafts : Carries(drafts[k]) =>
              \E id \in MailIds : rows[id] = NoMail /\ next[id] = drafts[k] /\ next[id] # NoMail
<1>1. PICK ids, new : new = New(drafts) /\ Numbered(drafts, new, ids)
  BY NewMails
<1>2. \A id \in DOMAIN new : id \in Unused /\ new[id] \in SignedMails
  BY <1>1, NewTypes
<1>3. \A id \in DOMAIN new : id \in MailIds /\ rows[id] = NoMail
  BY <1>2 DEF Unused
<1>4. \A id \in MailIds : next[id] = IF id \in DOMAIN new THEN new[id] ELSE rows[id]
  BY <1>1 DEF Inserted
<1>5. next \in Rows
  BY <1>1, <1>2, InsertedType
<1>6. \A id \in MailIds : rows[id] # NoMail => next[id] = rows[id]
  BY <1>3, <1>4
<1>7. ASSUME NEW id \in MailIds, rows[id] = NoMail, next[id] # NoMail
      PROVE  \E k \in DOMAIN drafts : next[id] = drafts[k]
  <2>1. id \in DOMAIN new /\ next[id] = new[id]
    BY <1>4, <1>7
  <2>2. PICK k \in Carrying(drafts) : ids[k] = id
    BY <1>1, <2>1 DEF Numbered
  <2>3. new[ids[k]] = drafts[k]
    BY <1>1 DEF Numbered
  <2>4. k \in DOMAIN drafts
    BY DEF Carrying
  <2> QED BY <2>1, <2>2, <2>3, <2>4
<1>8. ASSUME NEW k \in DOMAIN drafts, Carries(drafts[k])
      PROVE  \E id \in MailIds : rows[id] = NoMail /\ next[id] = drafts[k] /\ next[id] # NoMail
  <2>1. k \in Carrying(drafts)
    BY <1>8 DEF Carrying
  <2>2. PICK id : id = ids[k]
    OBVIOUS
  <2>3. id \in DOMAIN new /\ new[id] = drafts[k]
    BY <1>1, <2>1, <2>2 DEF Numbered
  <2>4. drafts[k] # NoMail
    BY MailFields
  <2> QED BY <1>3, <1>4, <2>3, <2>4
<1> QED BY <1>5, <1>6, <1>7, <1>8

\* Whoever is sent a mail has its money, and nobody has less.
LEMMA DraftsPay ==
  ASSUME NEW drafts, IsFiniteSet(DOMAIN drafts), Room(drafts), NEW rows \in Rows,
         \A k \in DOMAIN drafts : drafts[k] \in SignedMails,
         \A id \in Unused : rows[id] = NoMail,
         NEW next, next = Inserted(rows, New(drafts)), NEW p
  PROVE  /\ SentSum(p, rows) <= SentSum(p, next)
         /\ \A k \in DOMAIN drafts : drafts[k].receiver = p =>
              SentSum(p, rows) + drafts[k].money <= SentSum(p, next)
         /\ (\A k \in DOMAIN drafts : drafts[k].receiver # p) => SentSum(p, next) = SentSum(p, rows)
<1>1. PICK f, g : f = SentTo(p, rows) /\ g = SentTo(p, next)
  OBVIOUS
<1>2. next \in Rows
  BY DraftArrives
<1>3. \A id \in MailIds : rows[id] # NoMail => next[id] = rows[id]
  BY DraftArrives
<1>4. \A id \in MailIds : f[id] \in Nat /\ g[id] \in Nat
  BY <1>1, <1>2, SentToTypes
<1>5. ASSUME NEW id \in MailIds PROVE f[id] <= g[id]
  <2>1. CASE rows[id] # NoMail
    <3>1. f[id] = g[id]
      BY <1>1, <1>3, <2>1 DEF SentTo
    <3> QED BY <1>4, <3>1
  <2>2. CASE rows[id] = NoMail
    <3>1. f[id] = 0
      BY <1>1, <2>2 DEF SentTo
    <3> QED BY <1>4, <3>1
  <2> QED BY <2>1, <2>2
<1>6. SentSum(p, rows) <= SentSum(p, next)
  BY <1>1, <1>2, <1>5, SentGrows
<1>7. ASSUME NEW k \in DOMAIN drafts, drafts[k].receiver = p
      PROVE  SentSum(p, rows) + drafts[k].money <= SentSum(p, next)
  <2>1. PICK v : v = drafts[k].money
    OBVIOUS
  <2>2. v \in Nat
    BY <2>1, MailFields
  <2>3. CASE v = 0
    <3>1. SentSum(p, rows) \in Nat
      BY SentToTypes
    <3> QED BY <1>6, <2>1, <2>3, <3>1
  <2>4. CASE v # 0
    <3>1. Carries(drafts[k])
      BY <2>1, <2>2, <2>4 DEF Carries
    <3>2. PICK id \in MailIds : rows[id] = NoMail /\ next[id] = drafts[k] /\ next[id] # NoMail
      BY <3>1, DraftArrives
    <3>3. f[id] = 0 /\ g[id] = v
      BY <1>1, <1>7, <2>1, <3>2 DEF SentTo
    <3>4. f[id] + v <= g[id]
      BY <2>2, <3>3
    <3>5. SumFunctionOnSet(f, MailIds) + v <= SumFunctionOnSet(g, MailIds)
      BY <1>4, <1>5, <2>2, <3>4, SumRises, MailAssumption
    <3> QED BY <1>1, <2>1, <3>5 DEF SentSum
  <2> QED BY <2>3, <2>4
<1>8. ASSUME \A k \in DOMAIN drafts : drafts[k].receiver # p
      PROVE  SentSum(p, next) = SentSum(p, rows)
  <2>1. ASSUME NEW id \in MailIds PROVE SentTo(p, rows)[id] = SentTo(p, next)[id]
    <3>1. CASE rows[id] # NoMail
      BY <1>3, <3>1 DEF SentTo
    <3>2. CASE rows[id] = NoMail /\ next[id] # NoMail
      <4>1. PICK k \in DOMAIN drafts : next[id] = drafts[k]
        BY <3>2, DraftArrives
      <4> QED BY <1>8, <3>2, <4>1 DEF SentTo
    <3>3. CASE rows[id] = NoMail /\ next[id] = NoMail
      BY <3>3 DEF SentTo
    <3> QED BY <3>1, <3>2, <3>3
  <2> QED BY <1>2, <2>1, SentSame
<1> QED BY <1>6, <1>7, <1>8

\* One mail: exactly its money.
LEMMA OneDraftPays ==
  ASSUME NEW d \in SignedMails, Room(<<d>>), NEW rows \in Rows, \A id \in Unused : rows[id] = NoMail,
         NEW next, next = Inserted(rows, New(<<d>>)), d.money > 0
  PROVE  SentSum(d.receiver, next) = SentSum(d.receiver, rows) + d.money
<1>1. PICK ids, new : new = New(<<d>>) /\ Numbered(<<d>>, new, ids)
  BY NewMails, ShortDomains
<1>2. DOMAIN <<d>> = {1} /\ <<d>>[1] = d
  OBVIOUS
<1>3. Carrying(<<d>>) = {1}
  BY <1>2 DEF Carrying, Carries
<1>4. PICK n : n = ids[1]
  OBVIOUS
<1>5. DOMAIN new = {n} /\ new[n] = d
  BY <1>1, <1>2, <1>3, <1>4 DEF Numbered
<1>6. \A id \in DOMAIN new : id \in Unused
  BY <1>1, <1>2, ShortDomains, NewTypes
<1>7. n \in MailIds /\ rows[n] = NoMail
  BY <1>5, <1>6 DEF Unused
<1>8. \A id \in MailIds : next[id] = IF id = n THEN d ELSE rows[id]
  BY <1>1, <1>5 DEF Inserted
<1>9. PICK f, g, v : f = SentTo(d.receiver, rows) /\ g = SentTo(d.receiver, next) /\ v = d.money
  OBVIOUS
<1>10. next \in Rows
  BY <1>8, <1>1 DEF Rows, Inserted
<1>11. \A id \in MailIds : f[id] \in Int /\ g[id] \in Int
  BY <1>9, <1>10, SentToTypes
<1>12. (\A id \in MailIds \ {n} : g[id] = f[id]) /\ f[n] = 0 /\ g[n] = v
  BY <1>7, <1>8, <1>9, MailFields DEF SentTo
<1>13. SumFunctionOnSet(g, MailIds) = SumFunctionOnSet(f, MailIds) - f[n] + g[n]
  BY <1>7, <1>11, <1>12, SumOneChanged, MailAssumption
<1>14. SumFunctionOnSet(f, MailIds) \in Int /\ v \in Nat
  BY <1>9, <1>11, SumType, MailAssumption, MailFields
<1> QED BY <1>9, <1>12, <1>13, <1>14 DEF SentSum

-----------------------------------------------------------------------------
(****************************************************************************)
(* Whose items are, and what others can do about it by mail.                *)
(****************************************************************************)

\* Whose the goods in a mail are.
Owner(m) == IF m.cod > 0 THEN m.sender ELSE m.receiver

\* The item i is p's in a mail, or in an auction.
OwnsMailed(p, i, rows) == \E id \in MailIds : rows[id] # NoMail /\ i \in rows[id].items /\ Owner(rows[id]) = p

OwnsAuctioned(p, i, xs) == \E a \in AuctionIds : xs[a] # NoAuction /\ xs[a].owner = p /\ xs[a].item = i

\* The three places an item of p can be in.
LEMMA OwnsIs ==
  ASSUME NEW p, NEW i
  PROVE  /\ Owns(p, i) <=> i \in bag[p] \/ OwnsAuctioned(p, i, auction) \/ OwnsMailed(p, i, mail)
         /\ Owns(p, i)' <=> i \in bag'[p] \/ OwnsAuctioned(p, i, auction') \/ OwnsMailed(p, i, mail')
BY DEF Owns, OwnsAuctioned, OwnsMailed, Live, Owner

\* The seller of an item is paid, and the sender of one for cash on delivery is.
SoldFor(p, i) ==
  \E a \in Live : /\ auction[a].owner = p /\ auction[a].item = i
                  /\ Wealth(p)' + Spent(p) >= Wealth(p) + auction[a].deposit + auction[a].bid
                                              - AuctionCut(auction[a])

PaidOnDelivery(p, i) ==
  \E id \in MailIds : /\ mail[id] # NoMail /\ i \in mail[id].items
                      /\ mail[id].sender = p /\ mail[id].cod > 0
                      /\ Wealth(p)' = Wealth(p) + mail[id].cod

\* What is true of p when others act.
Unharmed(p) ==
  /\ Wealth(p)' + Spent(p) >= Wealth(p)
  /\ \A i \in Items : Owns(p, i) /\ ~Owns(p, i)' => SoldFor(p, i) \/ PaidOnDelivery(p, i)

\* What p has bid on some of the auctions he wins.
LEMMA SpentIs ==
  ASSUME IInv, NEW p
  PROVE  /\ Spent(p) \in Nat
         /\ \A D \in SUBSET Won(p) : SumFunctionOnSet(BidsOf(p, auction), D) <= Spent(p)
<1>1. PICK f, g, W : f = BidsOf(p, auction) /\ W = Won(p) /\ g = [a \in W |-> auction[a].bid]
  OBVIOUS
<1>2. auction \in AuctionRows
  BY DEF IInv, AuctionInv, AuctionRows
<1>3. W \in SUBSET AuctionIds /\ IsFiniteSet(W)
  BY <1>1, AuctionAssumption, FS_Subset DEF Won, Live
<1>4. \A a \in W : g[a] = f[a] /\ f[a] \in Nat
  BY <1>1, <1>2, <1>3, BidsTypes DEF BidsOf, Won, Live
<1>5. SumFunctionOnSet(f, W) = SumFunctionOnSet(g, W)
  BY <1>3, <1>4, SumSame
<1>6. Spent(p) = SumFunctionOnSet(g, W)
  BY <1>1 DEF Spent, SumFunction
<1>7. SumFunctionOnSet(f, W) \in Nat
  BY <1>3, <1>4, SumNat
<1>8. \A D \in SUBSET W : SumFunctionOnSet(f, D) <= SumFunctionOnSet(f, W)
  BY <1>3, <1>4, SumOfMore
<1> QED BY <1>1, <1>5, <1>6, <1>7, <1>8

\* Nothing of p's is moved, and he is sent at least the bids he loses.
LEMMA Bystander ==
  ASSUME IInv, IInv', NEW p \in Players, purse'[p] = purse[p], bag'[p] = bag[p],
         BidSum(p, auction) + SentSum(p, mail) <= BidSum(p, auction') + SentSum(p, mail'),
         \A i \in Items : OwnsAuctioned(p, i, auction) => OwnsAuctioned(p, i, auction') \/ OwnsMailed(p, i, mail')
                                                          \/ SoldFor(p, i),
         \A i \in Items : OwnsMailed(p, i, mail) => OwnsMailed(p, i, mail') \/ PaidOnDelivery(p, i)
  PROVE  Unharmed(p)
<1>1. Wealth(p)' + Spent(p) >= Wealth(p)
  BY WealthIs, SpentIs
<1>2. ASSUME NEW i \in Items, Owns(p, i), ~Owns(p, i)' PROVE SoldFor(p, i) \/ PaidOnDelivery(p, i)
  BY <1>2, OwnsIs
<1> QED BY <1>1, <1>2 DEF Unharmed

\* Mails are sent, and other tables do not change.
LEMMA SendingHarmless ==
  ASSUME IInv, IInv', NEW p \in Players, purse'[p] = purse[p], bag'[p] = bag[p], auction' = auction,
         NEW drafts, IsFiniteSet(DOMAIN drafts), Room(drafts), \A k \in DOMAIN drafts : drafts[k] \in SignedMails,
         NEW rows \in Rows, \A id \in Unused : rows[id] = NoMail, mail' = Inserted(rows, New(drafts)),
         \A id \in MailIds : SentTo(p, mail)[id] <= SentTo(p, rows)[id],
         \A i \in Items : OwnsMailed(p, i, mail) =>
           OwnsMailed(p, i, rows) \/ OwnsMailed(p, i, mail') \/ PaidOnDelivery(p, i)
  PROVE  Unharmed(p)
<1>1. mail \in Rows /\ auction \in AuctionRows
  BY DEF IInv, MailInv, AuctionInv, AuctionRows
<1>2. SentSum(p, mail) <= SentSum(p, rows)
  BY <1>1, SentGrows
<1>3. SentSum(p, rows) <= SentSum(p, mail')
  BY DraftsPay
<1>4. \A id \in MailIds : rows[id] # NoMail => mail'[id] = rows[id]
  BY DraftArrives
<1>5. \A i \in Items : OwnsMailed(p, i, rows) => OwnsMailed(p, i, mail')
  BY <1>4 DEF OwnsMailed
<1>6. mail' \in Rows
  BY DEF IInv, MailInv
<1>7. /\ SentSum(p, mail) \in Nat /\ SentSum(p, rows) \in Nat /\ SentSum(p, mail') \in Nat
      /\ BidSum(p, auction) \in Nat
  BY <1>1, <1>6, SentToTypes, BidsTypes
<1>8. BidSum(p, auction) + SentSum(p, mail) <= BidSum(p, auction') + SentSum(p, mail')
  BY <1>2, <1>3, <1>7
<1> QED BY <1>5, <1>8, Bystander

\* Others change rows of their own.
LEMMA SavingHarmless ==
  ASSUME IInv, IInv', NEW p \in Players, purse'[p] = purse[p], bag'[p] = bag[p], auction' = auction,
         \A id \in MailIds : SentTo(p, mail)[id] <= SentTo(p, mail')[id],
         \A i \in Items : OwnsMailed(p, i, mail) => OwnsMailed(p, i, mail')
  PROVE  Unharmed(p)
<1>1. mail \in Rows /\ auction \in AuctionRows /\ mail' \in Rows
  BY DEF IInv, MailInv, AuctionInv, AuctionRows
<1>2. SentSum(p, mail) <= SentSum(p, mail')
  BY <1>1, SentGrows
<1>3. SentSum(p, mail) \in Nat /\ SentSum(p, mail') \in Nat /\ BidSum(p, auction) \in Nat
  BY <1>1, SentToTypes, BidsTypes
<1>4. BidSum(p, auction) + SentSum(p, mail) <= BidSum(p, auction') + SentSum(p, mail')
  BY <1>2, <1>3
<1> QED BY <1>4, Bystander

\* HandleSendMail.
LEMMA SendHarmless ==
  ASSUME IInv, IInv', NEW p \in Players, NEW q \in Players, q # p, NEW r \in Players, NEW things \in SUBSET bag[q],
         NEW sum \in Sums, NEW onDelivery \in CODs, HandleSendMail(q, r, things, sum, onDelivery),
         auction' = auction
  PROVE  Unharmed(p)
<1>1. PICK d, drafts :
        /\ d = Draft(q, r, sum, IF things = {} THEN 0 ELSE onDelivery, things, "normal")
        /\ drafts = <<d>>
  OBVIOUS
<1>2. /\ Room(drafts) /\ mail' = Inserted(mail, New(drafts))
      /\ purse'[p] = purse[p] /\ bag'[p] = bag[p]
  BY <1>1 DEF HandleSendMail, IInv, MailInv, MailPartsOK
<1>3. d \in SignedMails
  <2>1. sum \in Nat /\ onDelivery \in Nat /\ things \in SUBSET Items
    BY MailAssumption DEF IInv, MailInv, MailPartsOK
  <2> QED BY <1>1, <2>1, DraftType DEF Kinds
<1>4. IsFiniteSet(DOMAIN drafts) /\ \A k \in DOMAIN drafts : drafts[k] \in SignedMails
  BY <1>1, <1>3, ShortDomains
<1>5. mail \in Rows /\ \A id \in Unused : mail[id] = NoMail
  BY DEF IInv, MailInv, Unused
<1>6. \A id \in MailIds : SentTo(p, mail)[id] <= SentTo(p, mail)[id]
  BY <1>5, SentToTypes
<1> QED BY <1>2, <1>4, <1>5, <1>6, SendingHarmless

\* HandleMailReturnToSender.
LEMMA ReturnHarmless ==
  ASSUME IInv, IInv', NEW p \in Players, NEW q \in Players, q # p, NEW id \in MailIds,
         HandleMailReturnToSender(q, id), auction' = auction
  PROVE  Unharmed(p)
<1>1. PICK m, drafts, rows :
        m = box[q][id] /\ drafts = SentBack(m) /\ rows = [mail EXCEPT ![id] = NoMail]
  OBVIOUS
<1>2. /\ Open(q, id) /\ Room(drafts) /\ mail' = Inserted(rows, New(drafts))
      /\ purse' = purse /\ bag' = bag
  BY <1>1 DEF HandleMailReturnToSender, memory
<1>3. mail[id] = m /\ m \in SignedMails /\ m.receiver = q
  BY <1>1, <1>2, TrueMail DEF Open, InWorld, Connected, IInv, Matched
<1>4. IsFiniteSet(DOMAIN drafts) /\ \A k \in DOMAIN drafts : drafts[k] \in SignedMails
  BY <1>1, <1>3, SentBackTypes
<1>5. mail \in Rows /\ rows \in Rows /\ \A k \in Unused : rows[k] = NoMail
  BY <1>1 DEF IInv, MailInv, Unused, Rows
<1>6. \A k \in MailIds \ {id} : rows[k] = mail[k]
  BY <1>1, <1>5 DEF Rows
<1>7. ASSUME NEW k \in MailIds PROVE SentTo(p, mail)[k] <= SentTo(p, rows)[k]
  <2>1. SentTo(p, mail)[k] = SentTo(p, rows)[k]
    BY <1>1, <1>3, <1>5, <1>6 DEF SentTo, Rows
  <2> QED BY <1>5, <2>1, SentToTypes
<1>8. ASSUME NEW i \in Items, OwnsMailed(p, i, mail) PROVE OwnsMailed(p, i, rows) \/ OwnsMailed(p, i, mail')
  <2>1. PICK k \in MailIds : mail[k] # NoMail /\ i \in mail[k].items /\ Owner(mail[k]) = p
    BY <1>8 DEF OwnsMailed
  <2>2. CASE k # id
    BY <1>6, <2>1, <2>2 DEF OwnsMailed
  <2>3. CASE k = id
    <3>1. m.cod > 0 /\ m.sender = p /\ i \in m.items
      BY <1>3, <2>1, <2>3 DEF Owner
    <3>2. m.kind = "normal"
      BY <1>3, <3>1, MailFields, AsksOnce
    <3>3. PICK d : d = Draft(m.receiver, m.sender, m.money, 0, m.items, "returned")
      OBVIOUS
    <3>4. drafts = <<d>> /\ d.items = m.items /\ d.cod = 0 /\ d.receiver = p
      BY <1>1, <3>1, <3>2, <3>3 DEF SentBack, Draft
    <3>5. 1 \in DOMAIN drafts /\ drafts[1] = d /\ Carries(d)
      BY <3>1, <3>4 DEF Carries
    <3>6. PICK n \in MailIds : mail'[n] = d /\ mail'[n] # NoMail
      BY <1>2, <1>4, <1>5, <3>5, DraftArrives
    <3> QED BY <3>1, <3>4, <3>6 DEF OwnsMailed, Owner
  <2> QED BY <2>2, <2>3
<1>9. purse'[p] = purse[p] /\ bag'[p] = bag[p]
  BY <1>2
<1> QED BY <1>2, <1>4, <1>5, <1>7, <1>8, <1>9, SendingHarmless

\* What q has deleted is his.
LEMMA DeletedHis ==
  ASSUME IInv, NEW q \in Players, NEW k \in deleted[q]
  PROVE  k \in MailIds /\ mail[k] # NoMail /\ mail[k].receiver = q /\ mail[k].cod = 0 /\ Owner(mail[k]) = q
<1>1. mail[k] = box[q][k] /\ mail[k] \in SignedMails /\ k \in MailIds /\ mail[k].receiver = q
  BY TrueDeleted DEF IInv, Matched
<1>2. box[q][k].cod = 0
  BY DEF IInv, MailInv, DeletedOpen
<1> QED BY <1>1, <1>2, MailFields DEF Owner

\* When q saves his mailbox, the rows of others do not change.
LEMMA SavedForOthers ==
  ASSUME IInv, NEW p \in Players, NEW q \in Players, q # p, NEW id \in MailIds,
         mail[id] # NoMail, mail[id].receiver = q,
         NEW rest \in SignedMails, rest.receiver = q, NEW rows, SavedAs(q, id, rest, rows)
  PROVE  /\ \A k \in MailIds : SentTo(p, mail)[k] = SentTo(p, rows)[k]
         /\ \A k \in MailIds \ {id} : mail[k] # NoMail /\ Owner(mail[k]) = p => rows[k] = mail[k]
<1>1. \A k \in MailIds : rows[k] = IF k \in deleted[q] THEN NoMail ELSE IF k = id THEN Tidy(rest) ELSE mail[k]
  BY DEF SavedAs
<1>2. \A k \in deleted[q] : mail[k].receiver = q /\ Owner(mail[k]) = q
  BY DeletedHis
<1>3. Tidy(rest) # NoMail => Tidy(rest).receiver = q
  BY DEF Tidy
<1>4. ASSUME NEW k \in MailIds PROVE SentTo(p, mail)[k] = SentTo(p, rows)[k]
  <2>1. CASE k \in deleted[q]
    <3>1. SentTo(p, mail)[k] = 0
      BY <1>2, <2>1 DEF SentTo
    <3>2. SentTo(p, rows)[k] = 0
      BY <1>1, <2>1 DEF SentTo
    <3> QED BY <3>1, <3>2
  <2>2. CASE k = id /\ k \notin deleted[q]
    <3>1. SentTo(p, mail)[k] = 0
      BY <2>2 DEF SentTo
    <3>2. SentTo(p, rows)[k] = 0
      BY <1>1, <1>3, <2>2 DEF SentTo
    <3> QED BY <3>1, <3>2
  <2>3. CASE k # id /\ k \notin deleted[q]
    BY <1>1, <2>3 DEF SentTo
  <2> QED BY <2>1, <2>2, <2>3
<1>5. ASSUME NEW k \in MailIds \ {id}, mail[k] # NoMail, Owner(mail[k]) = p PROVE rows[k] = mail[k]
  BY <1>1, <1>2, <1>5
<1> QED BY <1>4, <1>5

\* An item is in one mail only.
LEMMA InOneMail ==
  ASSUME IInv, NEW id \in MailIds, mail[id] # NoMail, NEW i \in mail[id].items, i \in Items
  PROVE  \A k \in MailIds \ {id} : mail[k] # NoMail => i \notin mail[k].items
<1>1. Placed(bag, auction, mail, wasted, i) /\ id \in Mailed(mail, i)
  BY DEF IInv, EachPlaced, Mailed
<1>2. Mailed(mail, i) = {id}
  BY <1>1, PlacedThere
<1> QED BY <1>2 DEF Mailed

\* HandleMailTakeItem: who asked for cash on delivery gets it.
LEMMA TakeItemHarmless ==
  ASSUME IInv, IInv', NEW p \in Players, NEW q \in Players, q # p, NEW id \in MailIds, NEW j \in Items,
         HandleMailTakeItem(q, id, j), auction' = auction
  PROVE  Unharmed(p)
<1>1. PICK m, rest, drafts, rows :
        /\ m = box[q][id] /\ rest = Without(m, j) /\ drafts = Payment(m)
        /\ rows = _SaveMail(q, mail, id, rest, m.items \ rest.items)
  OBVIOUS
<1>2. /\ Open(q, id) /\ j \in m.items /\ Room(drafts) /\ mail' = Inserted(rows, New(drafts))
      /\ purse'[p] = purse[p] /\ bag'[p] = bag[p]
  BY <1>1 DEF HandleMailTakeItem, IInv, MailInv, MailPartsOK
<1>3. mail[id] = m /\ m \in SignedMails /\ m.receiver = q /\ mail[id] # NoMail
  BY <1>1, <1>2, TrueMail DEF Open, InWorld, Connected, IInv, Matched
<1>4. \A k \in MailIds \ {id} : mail[k] # NoMail => j \notin mail[k].items
  BY <1>2, <1>3, InOneMail
<1>5. rest \in SignedMails /\ rest.receiver = q /\ SavedAs(q, id, rest, rows)
  <2>1. MailInv /\ Matched
    BY DEF IInv
  <2>2. /\ rest \in SignedMails /\ rest.receiver = q
        /\ SavedAs(q, id, rest, _SaveMail(q, mail, id, rest, m.items \ rest.items))
    BY <1>1, <1>4, <2>1, TakeItemSaves
  <2> QED BY <1>1, <2>2
<1>6. /\ \A k \in MailIds : SentTo(p, mail)[k] = SentTo(p, rows)[k]
      /\ \A k \in MailIds \ {id} : mail[k] # NoMail /\ Owner(mail[k]) = p => rows[k] = mail[k]
  BY <1>3, <1>5, SavedForOthers
<1>7. rows \in Rows /\ mail \in Rows
  BY <1>1, <1>3, <1>5, SavedRows, WithoutType DEF IInv, MailInv
<1>8. \A k \in Unused : rows[k] = NoMail
  <2>1. ASSUME NEW k \in Unused PROVE rows[k] = NoMail
    <3>1. k \in MailIds /\ k # id /\ mail[k] = NoMail
      BY <1>3 DEF Unused
    <3> QED BY <1>5, <3>1 DEF SavedAs
  <2> QED BY <2>1
<1>9. IsFiniteSet(DOMAIN drafts) /\ \A k \in DOMAIN drafts : drafts[k] \in SignedMails
  BY <1>1, <1>3, PaymentTypes
<1>10. ASSUME NEW k \in MailIds PROVE SentTo(p, mail)[k] <= SentTo(p, rows)[k]
  BY <1>6, <1>7, SentToTypes
<1>11. ASSUME m.cod > 0, m.sender = p PROVE Wealth(p)' = Wealth(p) + m.cod
  <2>1. PICK d : d = Draft(m.receiver, m.sender, m.cod, 0, {}, "payment")
    OBVIOUS
  <2>2. drafts = <<d>> /\ d.receiver = p /\ d.money = m.cod
    BY <1>1, <1>11, <2>1 DEF Payment, Draft
  <2>3. d \in SignedMails
    <3>1. 1 \in DOMAIN drafts /\ drafts[1] = d
      BY <2>2
    <3> QED BY <1>9, <3>1
  <2>4. SentSum(p, mail') = SentSum(p, rows) + m.cod
    BY <1>2, <1>7, <1>8, <1>11, <2>2, <2>3, OneDraftPays
  <2>5. SentSum(p, rows) = SentSum(p, mail)
    BY <1>6, <1>7, SentSame
  <2>6. m.cod \in Nat
    BY <1>3, MailFields
  <2> QED BY <1>2, <2>4, <2>5, <2>6, WealthIs
<1>12. ASSUME NEW i \in Items, OwnsMailed(p, i, mail)
       PROVE  OwnsMailed(p, i, rows) \/ PaidOnDelivery(p, i)
  <2>1. PICK k \in MailIds : mail[k] # NoMail /\ i \in mail[k].items /\ Owner(mail[k]) = p
    BY <1>12 DEF OwnsMailed
  <2>2. CASE k # id
    BY <1>6, <2>1, <2>2 DEF OwnsMailed
  <2>3. CASE k = id
    <3>1. m.cod > 0 /\ m.sender = p /\ i \in m.items
      BY <1>3, <2>1, <2>3 DEF Owner
    <3> QED BY <1>3, <1>11, <3>1 DEF PaidOnDelivery
  <2> QED BY <2>2, <2>3
<1> QED BY <1>2, <1>7, <1>8, <1>9, <1>10, <1>12, SendingHarmless

\* HandleMailTakeMoney.
LEMMA TakeMoneyHarmless ==
  ASSUME IInv, IInv', NEW p \in Players, NEW q \in Players, q # p, NEW id \in MailIds,
         HandleMailTakeMoney(q, id), auction' = auction
  PROVE  Unharmed(p)
<1>1. PICK m, rest : m = box[q][id] /\ rest = [m EXCEPT !.money = 0]
  OBVIOUS
<1>2. mail' = _SaveMail(q, mail, id, rest, {}) /\ purse'[p] = purse[p] /\ bag'[p] = bag[p]
  BY <1>1 DEF HandleMailTakeMoney, IInv, MailInv, MailPartsOK
<1>3. /\ m \in SignedMails /\ mail[id] = m /\ m.receiver = q
      /\ rest \in SignedMails /\ rest.receiver = q /\ rest.sender = m.sender
      /\ rest.cod = m.cod /\ rest.items = m.items
      /\ SavedAs(q, id, rest, mail')
  BY <1>1, <1>2, TakeMoneySaves DEF IInv
<1>4. mail[id] # NoMail
  BY <1>3, MailFields
<1>5. /\ \A k \in MailIds : SentTo(p, mail)[k] = SentTo(p, mail')[k]
      /\ \A k \in MailIds \ {id} : mail[k] # NoMail /\ Owner(mail[k]) = p => mail'[k] = mail[k]
  BY <1>3, <1>4, SavedForOthers
<1>6. ASSUME NEW k \in MailIds PROVE SentTo(p, mail)[k] <= SentTo(p, mail')[k]
  BY <1>5, SentToTypes DEF IInv, MailInv
<1>7. ASSUME NEW i \in Items, OwnsMailed(p, i, mail) PROVE OwnsMailed(p, i, mail')
  <2>1. PICK k \in MailIds : mail[k] # NoMail /\ i \in mail[k].items /\ Owner(mail[k]) = p
    BY <1>7 DEF OwnsMailed
  <2>2. CASE k # id
    BY <1>5, <2>1, <2>2 DEF OwnsMailed
  <2>3. CASE k = id
    <3>1. id \notin deleted[q]
      BY <2>1, <2>3, DeletedHis
    <3>2. mail'[id] = Tidy(rest)
      BY <1>3, <3>1 DEF SavedAs
    <3>3. i \in rest.items /\ Owner(rest) = p
      BY <1>3, <2>1, <2>3 DEF Owner
    <3>4. Tidy(rest) = rest /\ rest # NoMail
      BY <1>3, <3>3, MailFields DEF Tidy, Carries
    <3> QED BY <3>2, <3>3, <3>4 DEF OwnsMailed
  <2> QED BY <2>2, <2>3
<1> QED BY <1>2, <1>6, <1>7, SavingHarmless

\* The mailbox of another player is saved at his logout.
LEMMA LogoutHarmless ==
  ASSUME IInv, IInv', NEW p \in Players, NEW q \in Players, q # p, Logout(q), auction' = auction
  PROVE  Unharmed(p)
<1>1. /\ mail' = [id \in MailIds |-> IF id \in deleted[q] THEN NoMail ELSE mail[id]]
      /\ purse' = purse /\ bag' = bag
  BY DEF Logout, memory
<1>2. ASSUME NEW k \in MailIds PROVE SentTo(p, mail)[k] <= SentTo(p, mail')[k]
  <2>1. SentTo(p, mail)[k] = SentTo(p, mail')[k]
    BY <1>1, DeletedHis DEF SentTo
  <2> QED BY <2>1, SentToTypes DEF IInv, MailInv
<1>3. \A i \in Items : OwnsMailed(p, i, mail) => OwnsMailed(p, i, mail')
  BY <1>1, DeletedHis DEF OwnsMailed
<1>4. purse'[p] = purse[p] /\ bag'[p] = bag[p]
  BY <1>1
<1> QED BY <1>2, <1>3, <1>4, SavingHarmless

\* Steps that move neither mails nor money.
LEMMA StillHarmless ==
  ASSUME IInv, IInv', NEW p \in Players, purse' = purse, bag' = bag, auction' = auction, mail' = mail
  PROVE  Unharmed(p)
<1>1. ASSUME NEW k \in MailIds PROVE SentTo(p, mail)[k] <= SentTo(p, mail')[k]
  BY SentToTypes DEF IInv, MailInv
<1>2. purse'[p] = purse[p] /\ bag'[p] = bag[p]
  OBVIOUS
<1>3. \A i \in Items : OwnsMailed(p, i, mail) => OwnsMailed(p, i, mail')
  OBVIOUS
<1> QED BY <1>1, <1>2, <1>3, SavingHarmless

-----------------------------------------------------------------------------
(****************************************************************************)
(* What others can do about it at auctions.                                 *)
(****************************************************************************)

\* An auction is entered, or changed.
EnteredAs(xs, a, x, next) == next = [xs EXCEPT ![a] = x]

LEMMA BidsEntered ==
  ASSUME NEW xs \in AuctionRows, NEW a \in AuctionIds, NEW x \in Auctions, NEW p,
         NEW next, EnteredAs(xs, a, x, next)
  PROVE  /\ x.bidder = p => BidSum(p, next) = BidSum(p, xs) - BidsOf(p, xs)[a] + x.bid
         /\ x.bidder # p => BidSum(p, next) = BidSum(p, xs) - BidsOf(p, xs)[a]
         /\ BidsOf(p, xs)[a] \in Nat /\ BidSum(p, xs) \in Nat /\ BidSum(p, next) \in Nat
<1>1. PICK f, g, v : f = BidsOf(p, xs) /\ g = BidsOf(p, next) /\ v = IF x.bidder = p THEN x.bid ELSE 0
  OBVIOUS
<1>2. next \in AuctionRows /\ next[a] = x /\ \A b \in AuctionIds \ {a} : next[b] = xs[b]
  BY DEF AuctionRows, EnteredAs
<1>3. \A b \in AuctionIds : f[b] \in Int /\ g[b] \in Int
  BY <1>1, <1>2, BidsTypes
<1>4. (\A b \in AuctionIds \ {a} : g[b] = f[b]) /\ g[a] = v
  BY <1>1, <1>2, AuctionNames DEF BidsOf
<1>5. SumFunctionOnSet(g, AuctionIds) = SumFunctionOnSet(f, AuctionIds) - f[a] + g[a]
  BY <1>3, <1>4, SumOneChanged, AuctionAssumption
<1>6. BidSum(p, next) = BidSum(p, xs) - BidsOf(p, xs)[a] + v
  BY <1>1, <1>4, <1>5 DEF BidSum
<1>7. BidsOf(p, xs)[a] \in Nat /\ BidSum(p, xs) \in Nat /\ BidSum(p, next) \in Nat
  BY <1>2, BidsTypes
<1> QED BY <1>1, <1>6, <1>7

\* Auctions end.
LEMMA BidsClosed ==
  ASSUME NEW xs \in AuctionRows, NEW done \in SUBSET AuctionIds, NEW p,
         NEW next, next = [a \in AuctionIds |-> IF a \in done THEN NoAuction ELSE xs[a]]
  PROVE  /\ BidSum(p, next) = BidSum(p, xs) - SumFunctionOnSet(BidsOf(p, xs), done)
         /\ SumFunctionOnSet(BidsOf(p, xs), done) \in Int
<1>1. PICK f, g : f = BidsOf(p, xs) /\ g = BidsOf(p, next)
  OBVIOUS
<1>2. \A b \in AuctionIds : f[b] \in Int
  BY <1>1, BidsTypes
<1>3. (\A b \in done : g[b] = 0) /\ \A b \in AuctionIds \ done : g[b] = f[b]
  BY <1>1 DEF BidsOf
<1>4. /\ SumFunctionOnSet(g, AuctionIds) = SumFunctionOnSet(f, AuctionIds) - SumFunctionOnSet(f, done)
      /\ SumFunctionOnSet(f, done) \in Int
  BY <1>2, <1>3, SumCleared, AuctionAssumption
<1> QED BY <1>1, <1>4 DEF BidSum

\* What the seller of an auction gets grows with the bid.
LEMMA ProfitGrows ==
  ASSUME NEW x \in Auctions, NEW y \in Auctions, x.bid <= y.bid, x.deposit = y.deposit
  PROVE  x.deposit + x.bid - AuctionCut(x) <= Profit(y) /\ Profit(y) \in Int /\ AuctionCut(x) \in Int
<1>1. PICK b, c, d, u, v : /\ b = x.bid /\ c = cutPercent /\ d = y.bid - x.bid
                           /\ u = b * c /\ v = d * c
  OBVIOUS
<1>2. b \in Nat /\ c \in 0..100 /\ d \in Nat /\ x.deposit \in Nat
  BY <1>1, AuctionAssumption DEF Auctions
<1>3. u \in Nat /\ v \in Nat /\ v <= 100 * d
  BY <1>1, <1>2
<1>4. y.bid * c = u + v
  <2>1. y.bid = b + d
    BY <1>1, <1>2 DEF Auctions
  <2>2. (b + d) * c = b * c + d * c
    BY <1>2
  <2> QED BY <1>1, <2>1, <2>2
<1>5. (u + v) \div 100 <= u \div 100 + d
  BY <1>2, <1>3
<1>6. AuctionCut(x) = u \div 100 /\ AuctionCut(y) = (u + v) \div 100
  BY <1>1, <1>4 DEF AuctionCut
<1>7. y.bid = b + d /\ y.deposit = x.deposit
  BY <1>1, <1>2 DEF Auctions
<1>8. u \div 100 \in Int /\ (u + v) \div 100 \in Int
  BY <1>3
<1> QED BY <1>1, <1>2, <1>5, <1>6, <1>7, <1>8 DEF Profit

\* The mails that are posted.
LEMMA PostedMails ==
  ASSUME IInv, NEW drafts, IsFiniteSet(DOMAIN drafts), \A k \in DOMAIN drafts : drafts[k] \in SignedMails,
         Post(drafts), NEW p
  PROVE  /\ \A i \in Items : OwnsMailed(p, i, mail) => OwnsMailed(p, i, mail')
         /\ SentSum(p, mail) <= SentSum(p, mail')
         /\ \A k \in DOMAIN drafts : drafts[k].receiver = p =>
              /\ SentSum(p, mail) + drafts[k].money <= SentSum(p, mail')
              /\ \A i \in drafts[k].items : drafts[k].cod = 0 => OwnsMailed(p, i, mail')
<1>1. Room(drafts) /\ mail' = Inserted(mail, New(drafts)) /\ mail \in Rows /\ \A id \in Unused : mail[id] = NoMail
  BY DEF Post, IInv, MailInv, Unused
<1>2. \A id \in MailIds : mail[id] # NoMail => mail'[id] = mail[id]
  BY <1>1, DraftArrives
<1>3. \A i \in Items : OwnsMailed(p, i, mail) => OwnsMailed(p, i, mail')
  BY <1>2 DEF OwnsMailed
<1>4. SentSum(p, mail) <= SentSum(p, mail')
  BY <1>1, DraftsPay
<1>5. ASSUME NEW k \in DOMAIN drafts, drafts[k].receiver = p
      PROVE  SentSum(p, mail) + drafts[k].money <= SentSum(p, mail')
  BY <1>1, <1>5, DraftsPay
<1>6. ASSUME NEW k \in DOMAIN drafts, drafts[k].receiver = p, NEW i \in drafts[k].items, drafts[k].cod = 0
      PROVE  OwnsMailed(p, i, mail')
  <2>1. Carries(drafts[k])
    BY DEF Carries
  <2>2. PICK id \in MailIds : mail'[id] = drafts[k] /\ mail'[id] # NoMail
    BY <1>1, <2>1, DraftArrives
  <2> QED BY <1>6, <2>2 DEF OwnsMailed, Owner
<1> QED BY <1>3, <1>4, <1>5, <1>6

\* HandleAuctionSellItem.
LEMMA SellHarmless ==
  ASSUME IInv, IInv', NEW p \in Players, NEW q \in Players, q # p, NEW i \in Items, NEW start \in Prices,
         NEW price \in Prices \cup {0}, HandleAuctionSellItem(q, i, start, price)
  PROVE  Unharmed(p)
<1>1. PICK a, x : a = (CHOOSE y \in Free : TRUE) /\ x = NewAuction(q, i, start, price)
  OBVIOUS
<1>2. /\ Free # {} /\ auction' = [auction EXCEPT ![a] = x] /\ mail' = mail
      /\ purse'[p] = purse[p] /\ bag'[p] = bag[p]
  BY <1>1 DEF HandleAuctionSellItem, IInv, MailInv, MailPartsOK
<1>3. a \in AuctionIds /\ auction[a] = NoAuction
  BY <1>1, <1>2 DEF Free, Live
<1>4. auction \in AuctionRows /\ auction' \in AuctionRows /\ mail \in Rows
  BY DEF IInv, AuctionInv, AuctionRows, MailInv
<1>5. x.bidder = None /\ x.bid = 0 /\ auction'[a] = x
  BY <1>1, <1>2, <1>3, <1>4 DEF NewAuction, AuctionRows
<1>6. x \in Auctions
  <2>1. start \in Nat /\ price \in Nat /\ Deposit \in Nat
    BY AuctionAssumption, MailAssumption
  <2> QED BY <1>1, <2>1 DEF NewAuction, Auctions
<1>7. BidsOf(p, auction)[a] = 0 /\ x.bidder # p
  BY <1>3, <1>5, MailAssumption DEF BidsOf
<1>8. BidSum(p, auction') = BidSum(p, auction)
  <2>1. PICK xs, next : xs = auction /\ next = auction'
    OBVIOUS
  <2>2. xs \in AuctionRows /\ EnteredAs(xs, a, x, next)
    BY <1>2, <1>4, <2>1 DEF EnteredAs
  <2>3. a \in AuctionIds /\ x.bidder # p
    BY <1>3, <1>7
  <2>4. BidSum(p, xs) \in Nat
    BY <1>6, <2>2, <2>3, BidsEntered
  <2>5. x.bidder # p => BidSum(p, next) = BidSum(p, xs) - BidsOf(p, xs)[a]
    BY <1>6, <2>2, <2>3, BidsEntered
  <2> QED BY <1>7, <2>1, <2>3, <2>4, <2>5
<1>9. BidSum(p, auction) \in Nat /\ SentSum(p, mail) \in Nat
  BY <1>4, BidsTypes, SentToTypes
<1>10. \A j \in Items : OwnsAuctioned(p, j, auction) => OwnsAuctioned(p, j, auction')
  BY <1>2, <1>3, <1>4 DEF OwnsAuctioned, AuctionRows
<1>11. BidSum(p, auction) + SentSum(p, mail) <= BidSum(p, auction') + SentSum(p, mail')
  BY <1>2, <1>8, <1>9
<1>12. \A j \in Items : OwnsMailed(p, j, mail) => OwnsMailed(p, j, mail')
  BY <1>2
<1> QED BY <1>2, <1>10, <1>11, <1>12, Bystander

\* PlaceBid: the earlier bidder gets his money back.
LEMMA PlaceBidHarmless ==
  ASSUME IInv, IInv', NEW p \in Players, NEW q \in Players, q # p, NEW a \in Live, NEW price \in Prices,
         PlaceBid(q, a, price)
  PROVE  Unharmed(p)
<1>1. PICK x, r, drafts :
        /\ x = auction[a] /\ r = [x EXCEPT !.bidder = q, !.bid = price]
        /\ drafts = Outbid(q, x)
  OBVIOUS
<1>2. /\ Post(drafts) /\ auction' = [auction EXCEPT ![a] = r]
      /\ purse'[p] = purse[p] /\ bag'[p] = bag[p]
  BY <1>1 DEF PlaceBid, Pays, IInv, MailInv, MailPartsOK
<1>3. a \in AuctionIds /\ x \in Auctions /\ price \in Nat /\ x # NoAuction
  BY <1>1, LiveAuction, AuctionAssumption, MailAssumption DEF IInv, Live
<1>4. r \in Auctions /\ r.bidder # p /\ r.owner = x.owner /\ r.item = x.item
  BY <1>1, <1>3 DEF Auctions
<1>5. auction \in AuctionRows /\ mail \in Rows /\ mail' \in Rows
  BY DEF IInv, AuctionInv, AuctionRows, MailInv
<1>6. IsFiniteSet(DOMAIN drafts) /\ \A k \in DOMAIN drafts : drafts[k] \in SignedMails
  BY <1>1, <1>3, OutbidTypes
<1>7. /\ \A i \in Items : OwnsMailed(p, i, mail) => OwnsMailed(p, i, mail')
      /\ SentSum(p, mail) <= SentSum(p, mail')
      /\ \A k \in DOMAIN drafts : drafts[k].receiver = p => SentSum(p, mail) + drafts[k].money <= SentSum(p, mail')
  BY <1>2, <1>6, PostedMails
<1>8. SentSum(p, mail) + BidsOf(p, auction)[a] <= SentSum(p, mail')
  <2>1. CASE x.bidder = p
    <3>1. PICK d : d = OutbiddedMail(x)
      OBVIOUS
    <3>2. d.receiver = p /\ d.money = x.bid
      BY <2>1, <3>1 DEF OutbiddedMail, FromAuction, Draft
    <3>3. drafts = <<d>>
      BY <1>1, <2>1, <3>1, MailAssumption DEF Outbid
    <3>4. 1 \in DOMAIN drafts /\ drafts[1] = d
      BY <3>3
    <3>5. BidsOf(p, auction)[a] = x.bid
      BY <1>1, <1>3, <2>1 DEF BidsOf
    <3> QED BY <1>7, <3>2, <3>4, <3>5
  <2>2. CASE x.bidder # p
    <3>1. BidsOf(p, auction)[a] = 0
      BY <1>1, <1>3, <2>2 DEF BidsOf
    <3>2. SentSum(p, mail) \in Nat
      BY <1>5, SentToTypes
    <3> QED BY <1>7, <3>1, <3>2
  <2> QED BY <2>1, <2>2
<1>9. BidSum(p, auction) + SentSum(p, mail) <= BidSum(p, auction') + SentSum(p, mail')
  <2>1. PICK xs, next : xs = auction /\ next = auction'
    OBVIOUS
  <2>2. xs \in AuctionRows /\ EnteredAs(xs, a, r, next)
    BY <1>2, <1>5, <2>1 DEF EnteredAs
  <2>3. a \in AuctionIds /\ r.bidder # p /\ r \in Auctions
    BY <1>3, <1>4
  <2>4. r.bidder # p => BidSum(p, next) = BidSum(p, xs) - BidsOf(p, xs)[a]
    BY <2>2, <2>3, BidsEntered
  <2>5. BidsOf(p, xs)[a] \in Nat /\ BidSum(p, xs) \in Nat
    BY <2>2, <2>3, BidsTypes
  <2>6. SentSum(p, mail) \in Nat /\ SentSum(p, mail') \in Nat
    BY <1>5, SentToTypes
  <2> QED BY <1>8, <2>1, <2>3, <2>4, <2>5, <2>6
<1>10. ASSUME NEW i \in Items, OwnsAuctioned(p, i, auction) PROVE OwnsAuctioned(p, i, auction')
  <2>1. \A b \in AuctionIds : auction'[b] = IF b = a THEN r ELSE auction[b]
    BY <1>2, <1>5 DEF AuctionRows
  <2>2. r # NoAuction
    BY <1>4, AuctionNames
  <2>3. PICK b \in AuctionIds : auction[b] # NoAuction /\ auction[b].owner = p /\ auction[b].item = i
    BY <1>10 DEF OwnsAuctioned
  <2>4. auction'[b] # NoAuction /\ auction'[b].owner = p /\ auction'[b].item = i
    BY <1>1, <1>4, <2>1, <2>2, <2>3
  <2> QED BY <2>4 DEF OwnsAuctioned
<1> QED BY <1>2, <1>7, <1>9, <1>10, Bystander

\* The mails that have the bid of p, and what an auction brings its owner.
BidBack(p, x, drafts) ==
  x.bidder = p => \E k \in DOMAIN drafts : drafts[k].receiver = p /\ drafts[k].money >= x.bid

OwnerPaid(p, x, drafts) ==
  x.owner = p => \E k \in DOMAIN drafts :
                   drafts[k].receiver = p /\ drafts[k].money >= x.deposit + x.bid - AuctionCut(x)

\* An auction is closed by another player: the earlier bidder gets his money back, and the seller
\* is paid.
LEMMA ClosedHarmless ==
  ASSUME IInv, IInv', NEW p \in Players, purse'[p] = purse[p], bag'[p] = bag[p], NEW a \in Live, Close({a}),
         NEW drafts, IsFiniteSet(DOMAIN drafts), \A k \in DOMAIN drafts : drafts[k] \in SignedMails, Post(drafts),
         NEW x \in Auctions, x = auction[a], BidBack(p, x, drafts), OwnerPaid(p, x, drafts)
  PROVE  Unharmed(p)
<1>1. auction \in AuctionRows /\ mail \in Rows /\ mail' \in Rows /\ a \in AuctionIds /\ x # NoAuction
  BY DEF IInv, AuctionInv, AuctionRows, MailInv, Live
<1>2. /\ \A i \in Items : OwnsMailed(p, i, mail) => OwnsMailed(p, i, mail')
      /\ SentSum(p, mail) <= SentSum(p, mail')
      /\ \A k \in DOMAIN drafts : drafts[k].receiver = p => SentSum(p, mail) + drafts[k].money <= SentSum(p, mail')
  BY PostedMails
<1>3. SentSum(p, mail) \in Nat /\ SentSum(p, mail') \in Nat
  BY <1>1, SentToTypes
<1>4. BidsOf(p, auction)[a] = IF x.bidder = p THEN x.bid ELSE 0
  BY <1>1 DEF BidsOf
<1>5. x.bid \in Nat /\ x.deposit \in Nat /\ AuctionCut(x) \in Nat
  BY CutBound DEF Auctions
<1>6. \A k \in DOMAIN drafts : drafts[k].money \in Nat
  BY MailFields
<1>7. SentSum(p, mail) + BidsOf(p, auction)[a] <= SentSum(p, mail')
  BY <1>2, <1>3, <1>4, <1>5, <1>6 DEF BidBack
<1>8. BidSum(p, auction') = BidSum(p, auction) - BidsOf(p, auction)[a] /\ BidSum(p, auction) \in Nat
  <2>1. PICK xs, next, done : xs = auction /\ next = auction' /\ done = {a}
    OBVIOUS
  <2>2. /\ xs \in AuctionRows /\ done \in SUBSET AuctionIds
        /\ next = [b \in AuctionIds |-> IF b \in done THEN NoAuction ELSE xs[b]]
    BY <1>1, <2>1 DEF Close
  <2>3. BidSum(p, next) = BidSum(p, xs) - SumFunctionOnSet(BidsOf(p, xs), done)
    BY <2>2, BidsClosed
  <2>4. BidsOf(p, xs)[a] \in Nat /\ BidSum(p, xs) \in Nat
    BY <1>1, <2>1, BidsTypes
  <2>5. SumFunctionOnSet(BidsOf(p, xs), {a}) = BidsOf(p, xs)[a]
    BY <2>4, SumOfOne
  <2> QED BY <2>1, <2>3, <2>4, <2>5
<1>9. BidSum(p, auction) + SentSum(p, mail) <= BidSum(p, auction') + SentSum(p, mail')
  <2>1. BidsOf(p, auction)[a] \in Nat
    BY <1>4, <1>5
  <2> QED BY <1>3, <1>7, <1>8, <2>1
<1>10. ASSUME x.owner = p
       PROVE  Wealth(p)' + Spent(p) >= Wealth(p) + x.deposit + x.bid - AuctionCut(x)
  <2>1. PICK k \in DOMAIN drafts : drafts[k].receiver = p /\ drafts[k].money >= x.deposit + x.bid - AuctionCut(x)
    BY <1>10 DEF OwnerPaid
  <2>2. SentSum(p, mail) + drafts[k].money <= SentSum(p, mail')
    BY <1>2, <2>1
  <2>3. x.bidder # p
    <3>1. x.bidder # None => x.bidder # x.owner
      BY LiveAuction DEF IInv
    <3> QED BY <1>10, <3>1, MailAssumption
  <2>4. BidSum(p, auction') = BidSum(p, auction)
    BY <1>4, <1>8, <2>3
  <2>5. drafts[k].money \in Nat
    BY <1>6
  <2>6. Spent(p) \in Nat
    BY SpentIs
  <2> QED BY <1>3, <1>5, <1>8, <2>1, <2>2, <2>4, <2>5, <2>6, WealthIs
<1>11. ASSUME NEW i \in Items, OwnsAuctioned(p, i, auction) PROVE OwnsAuctioned(p, i, auction') \/ SoldFor(p, i)
  <2>1. PICK b \in AuctionIds : auction[b] # NoAuction /\ auction[b].owner = p /\ auction[b].item = i
    BY <1>11 DEF OwnsAuctioned
  <2>2. CASE b # a
    <3>1. auction'[b] = auction[b]
      BY <2>2 DEF Close
    <3> QED BY <2>1, <3>1 DEF OwnsAuctioned
  <2>3. CASE b = a
    BY <1>10, <2>1, <2>3 DEF SoldFor
  <2> QED BY <2>2, <2>3
<1> QED BY <1>2, <1>9, <1>11, Bystander

\* Buyout.
LEMMA BuyoutHarmless ==
  ASSUME IInv, IInv', NEW p \in Players, NEW q \in Players, q # p, NEW a \in Live, NEW price \in Prices,
         Buyout(q, a, price)
  PROVE  Unharmed(p)
<1>1. PICK x, sold, drafts :
        /\ x = auction[a] /\ sold = [x EXCEPT !.bidder = q, !.bid = x.buyout]
        /\ drafts = Outbid(q, x) \o Outcome(sold)
  OBVIOUS
<1>2. /\ Post(drafts) /\ Close({a}) /\ purse'[p] = purse[p] /\ bag'[p] = bag[p] /\ x.buyout # 0
  BY <1>1 DEF Buyout, Pays, IInv, MailInv, MailPartsOK
<1>3. x \in Auctions /\ (x.bidder = None => x.bid = 0) /\ (x.bidder # None => x.bid < x.buyout)
  BY <1>1, <1>2, LiveAuction DEF IInv
<1>4. sold \in Auctions /\ sold.bidder = q /\ sold.bid = x.buyout /\ sold.deposit = x.deposit /\ sold.owner = x.owner
  BY <1>1, <1>3 DEF Auctions
<1>5. IsFiniteSet(DOMAIN drafts) /\ \A k \in DOMAIN drafts : drafts[k] \in SignedMails
  BY <1>1, <1>3, <1>4, BuyoutTypes
<1>6. PICK d, e, f : d = OutbiddedMail(x) /\ e = SuccessfulMail(sold) /\ f = WonMail(sold)
  OBVIOUS
<1>7. d.receiver = x.bidder /\ d.money = x.bid /\ e.receiver = x.owner /\ e.money = Profit(sold)
  BY <1>4, <1>6 DEF OutbiddedMail, SuccessfulMail, FromAuction, Draft
<1>8. drafts = IF x.bidder \in {None, q} THEN <<e, f>> ELSE <<d, e, f>>
  <2>1. Outbid(q, x) \o Outcome(sold) =
          IF x.bidder \in {None, q} THEN <<SuccessfulMail(sold), WonMail(sold)>>
          ELSE <<OutbiddedMail(x), SuccessfulMail(sold), WonMail(sold)>>
    BY <1>3, <1>4, BuyoutMails
  <2> QED BY <1>1, <1>6, <2>1
<1>9. x.bid \in Nat /\ x.buyout \in Nat /\ x.bid <= sold.bid
  BY <1>3, <1>4 DEF Auctions
<1>10. ASSUME x.bidder = p PROVE \E k \in DOMAIN drafts : drafts[k].receiver = p /\ drafts[k].money >= x.bid
  <2>1. drafts = <<d, e, f>>
    BY <1>8, <1>10, MailAssumption
  <2>2. 1 \in DOMAIN drafts /\ drafts[1] = d
    BY <2>1
  <2> QED BY <1>7, <1>9, <1>10, <2>2
<1>11. ASSUME x.owner = p
       PROVE  \E k \in DOMAIN drafts :
                drafts[k].receiver = p /\ drafts[k].money >= x.deposit + x.bid - AuctionCut(x)
  <2>1. x.deposit + x.bid - AuctionCut(x) <= Profit(sold)
    BY <1>3, <1>4, <1>9, ProfitGrows
  <2>2. \E k \in DOMAIN drafts : drafts[k] = e
    <3>1. CASE drafts = <<e, f>>
      <4>1. 1 \in DOMAIN drafts /\ drafts[1] = e
        BY <3>1
      <4> QED BY <4>1
    <3>2. CASE drafts = <<d, e, f>>
      <4>1. 2 \in DOMAIN drafts /\ drafts[2] = e
        BY <3>2
      <4> QED BY <4>1
    <3> QED BY <1>8, <3>1, <3>2
  <2>3. Profit(sold) \in Int /\ x.deposit \in Nat /\ AuctionCut(x) \in Nat
    BY <1>3, <1>4, CutBound DEF Auctions
  <2> QED BY <1>7, <1>9, <1>11, <2>1, <2>2, <2>3
<1>12. BidBack(p, x, drafts) /\ OwnerPaid(p, x, drafts)
  BY <1>10, <1>11 DEF BidBack, OwnerPaid
<1> QED BY <1>1, <1>2, <1>3, <1>5, <1>12, ClosedHarmless

\* HandleAuctionRemoveItem.
LEMMA CancelHarmless ==
  ASSUME IInv, IInv', NEW p \in Players, NEW q \in Players, q # p, NEW a \in Live, HandleAuctionRemoveItem(q, a)
  PROVE  Unharmed(p)
<1>1. PICK x, drafts : x = auction[a] /\ drafts = Refunds(x)
  OBVIOUS
<1>2. /\ Post(drafts) /\ Close({a}) /\ purse'[p] = purse[p] /\ bag'[p] = bag[p] /\ x.owner # p
  BY <1>1 DEF HandleAuctionRemoveItem, Refunds, Pays, IInv, MailInv, MailPartsOK
<1>3. x \in Auctions
  BY <1>1, LiveAuction DEF IInv
<1>4. IsFiniteSet(DOMAIN drafts) /\ \A k \in DOMAIN drafts : drafts[k] \in SignedMails
  BY <1>1, <1>3, RefundTypes
<1>5. ASSUME x.bidder = p PROVE \E k \in DOMAIN drafts : drafts[k].receiver = p /\ drafts[k].money >= x.bid
  <2>1. PICK d, e : d = OutbiddedMail(x) /\ e = ExpiredMail(x)
    OBVIOUS
  <2>2. d.receiver = p /\ d.money = x.bid /\ x.bid \in Nat
    BY <1>3, <1>5, <2>1 DEF OutbiddedMail, FromAuction, Draft, Auctions
  <2>3. drafts = <<d, e>>
    BY <1>1, <1>5, <2>1, RefundMails, MailAssumption
  <2>4. 1 \in DOMAIN drafts /\ drafts[1] = d
    BY <2>3
  <2> QED BY <2>2, <2>4
<1>6. BidBack(p, x, drafts) /\ OwnerPaid(p, x, drafts)
  BY <1>2, <1>5 DEF BidBack, OwnerPaid
<1> QED BY <1>1, <1>2, <1>3, <1>4, <1>6, ClosedHarmless

\* What the end of the auctions sends to p.
LEMMA OutcomesArrive ==
  ASSUME IInv, NEW done \in SUBSET Live, Post(Outcomes(done)), NEW p,
         NEW a \in done, NEW n \in DOMAIN Outcome(auction[a]), NEW d, d = Outcome(auction[a])[n], d.receiver = p
  PROVE  /\ SentSum(p, mail) + d.money <= SentSum(p, mail')
         /\ \A i \in d.items : d.cod = 0 => OwnsMailed(p, i, mail')
<1>1. PICK drafts, k : drafts = Outcomes(done) /\ k = <<a, n>>
  OBVIOUS
<1>2. k \in DOMAIN drafts /\ k[1] = a /\ k[2] = n
  <2>1. k \in {a} \X DOMAIN Outcome(auction[a])
    BY <1>1
  <2>2. DOMAIN drafts = UNION {{b} \X DOMAIN Outcome(auction[b]) : b \in done}
    BY <1>1, OutcomesTypes DEF IInv
  <2> QED BY <1>1, <2>1, <2>2
<1>3. IsFiniteSet(DOMAIN drafts) /\ \A j \in DOMAIN drafts : drafts[j] \in SignedMails
  BY <1>1, OutcomesTypes DEF IInv
<1>4. drafts[k] = d
  <2>1. drafts[k] = Outcome(auction[k[1]])[k[2]]
    BY <1>1, <1>2, OutcomesTypes DEF IInv
  <2> QED BY <1>2, <2>1
<1>5. Post(drafts)
  BY <1>1
<1>6. drafts[k].receiver = p =>
        /\ SentSum(p, mail) + drafts[k].money <= SentSum(p, mail')
        /\ \A i \in drafts[k].items : drafts[k].cod = 0 => OwnsMailed(p, i, mail')
  BY <1>2, <1>3, <1>5, PostedMails
<1> QED BY <1>4, <1>6

\* AuctionHouseObject::Update, for everybody.
LEMMA UpdateHarmless ==
  ASSUME IInv, IInv', NEW p \in Players, NEW done \in SUBSET Live, Update(done)
  PROVE  Unharmed(p)
<1>1. PICK drafts, f, D, xs, next :
        /\ drafts = Outcomes(done) /\ xs = auction /\ next = auction' /\ f = BidsOf(p, xs)
        /\ D = {a \in done : auction[a].bidder = p}
  OBVIOUS
<1>2. Post(Outcomes(done)) /\ Post(drafts) /\ Close(done) /\ purse' = purse /\ bag' = bag
  BY <1>1 DEF Update, memory
<1>3. IsFiniteSet(DOMAIN drafts) /\ \A k \in DOMAIN drafts : drafts[k] \in SignedMails
  BY <1>1, OutcomesTypes DEF IInv
<1>4. /\ \A i \in Items : OwnsMailed(p, i, mail) => OwnsMailed(p, i, mail')
      /\ SentSum(p, mail) <= SentSum(p, mail')
  BY <1>2, <1>3, PostedMails
<1>5. \A a \in done : a \in Live /\ a \in AuctionIds /\ auction[a] \in Auctions /\ auction[a] # NoAuction
  BY LiveAuction DEF IInv, Live
<1>6. xs \in AuctionRows /\ IsFiniteSet(done) /\ done \in SUBSET AuctionIds
  BY <1>1, OutcomesTypes DEF IInv, AuctionInv, AuctionRows, Live
<1>7. D \in SUBSET Won(p)
  <2>1. ASSUME NEW a \in D PROVE a \in Won(p)
    <3>1. PICK x, d : x = auction[a] /\ d = WonMail(x)
      OBVIOUS
    <3>2. a \in done /\ x.bidder = p /\ x \in Auctions /\ a \in Live
      BY <1>1, <1>5, <3>1
    <3>3. p # None
      BY MailAssumption
    <3>4. d.receiver = p /\ d.items = {x.item} /\ d.cod = 0
      BY <3>1, <3>2 DEF WonMail, FromAuction, Draft
    <3>5. Outcome(x) = <<SuccessfulMail(x), WonMail(x)>>
      BY <3>2, <3>3 DEF Outcome
    <3>6. 2 \in DOMAIN Outcome(x) /\ Outcome(x)[2] = d
      BY <3>1, <3>5
    <3>7. 2 \in DOMAIN Outcome(auction[a]) /\ d = Outcome(auction[a])[2]
      BY <3>1, <3>6
    <3>8. \A i \in d.items : d.cod = 0 => OwnsMailed(p, i, mail')
      BY <1>2, <3>2, <3>4, <3>7, OutcomesArrive
    <3>9. OwnsMailed(p, x.item, mail')
      BY <3>4, <3>8
    <3>10. Owns(p, x.item)'
      BY <3>9, OwnsIs
    <3>11. x.item \in Items
      BY <3>2 DEF Auctions
    <3>12. \E i \in Items : i = auction[a].item /\ Owns(p, i)'
      BY <3>1, <3>10, <3>11
    <3> QED BY <3>1, <3>2, <3>12 DEF Won
  <2> QED BY <2>1
<1>8. SumFunctionOnSet(f, D) <= Spent(p) /\ Spent(p) \in Nat
  BY <1>1, <1>7, SpentIs
<1>9. SumFunctionOnSet(f, done) = SumFunctionOnSet(f, D) /\ SumFunctionOnSet(f, D) \in Nat
  <2>1. D \in SUBSET done /\ IsFiniteSet(D)
    BY <1>1, <1>6, FS_Subset
  <2>2. \A a \in D : f[a] \in Nat /\ f[a] \in Int
    BY <1>1, <1>6, <2>1, BidsTypes
  <2>3. \A a \in done \ D : f[a] = 0
    BY <1>1, <1>6 DEF BidsOf
  <2>4. SumFunctionOnSet(f, D) \in Nat
    BY <2>1, <2>2, SumNat
  <2> QED BY <1>6, <2>1, <2>2, <2>3, <2>4, SumOnSubset
<1>10. BidSum(p, auction') = BidSum(p, auction) - SumFunctionOnSet(f, D)
  <2>1. next = [a \in AuctionIds |-> IF a \in done THEN NoAuction ELSE xs[a]]
    BY <1>1, <1>2 DEF Close
  <2>2. BidSum(p, next) = BidSum(p, xs) - SumFunctionOnSet(BidsOf(p, xs), done)
    BY <1>6, <2>1, BidsClosed
  <2> QED BY <1>1, <1>9, <2>2
<1>11. /\ Wealth(p) = purse[p] + BidSum(p, auction) + SentSum(p, mail)
       /\ Wealth(p)' = purse[p] + BidSum(p, auction) - SumFunctionOnSet(f, D) + SentSum(p, mail')
       /\ purse[p] \in Nat /\ BidSum(p, auction) \in Nat /\ SentSum(p, mail) \in Nat /\ SentSum(p, mail') \in Nat
  <2>1. /\ Wealth(p) = purse[p] + BidSum(p, auction) + SentSum(p, mail)
        /\ Wealth(p)' = purse'[p] + BidSum(p, auction') + SentSum(p, mail')
        /\ purse[p] \in Nat /\ BidSum(p, auction) \in Nat /\ SentSum(p, mail) \in Nat /\ SentSum(p, mail') \in Nat
    BY WealthIs
  <2>2. purse'[p] = purse[p]
    BY <1>2
  <2> QED BY <1>9, <1>10, <2>1, <2>2
<1>12. Wealth(p)' + Spent(p) >= Wealth(p) + (SentSum(p, mail') - SentSum(p, mail))
  BY <1>8, <1>9, <1>11
<1>13. Wealth(p)' + Spent(p) >= Wealth(p)
  <2>1. Wealth(p) \in Nat /\ Wealth(p)' \in Int
    BY <1>9, <1>11
  <2> QED BY <1>4, <1>8, <1>11, <1>12, <2>1
<1>14. ASSUME NEW i \in Items, OwnsAuctioned(p, i, auction)
       PROVE  OwnsAuctioned(p, i, auction') \/ OwnsMailed(p, i, mail') \/ SoldFor(p, i)
  <2>1. PICK b \in AuctionIds : auction[b] # NoAuction /\ auction[b].owner = p /\ auction[b].item = i
    BY <1>14 DEF OwnsAuctioned
  <2>2. CASE b \notin done
    <3>1. auction'[b] = auction[b]
      BY <1>2, <2>2 DEF Close
    <3> QED BY <2>1, <3>1 DEF OwnsAuctioned
  <2>3. CASE b \in done /\ auction[b].bidder = None
    <3>1. PICK x, d : x = auction[b] /\ d = ExpiredMail(x)
      OBVIOUS
    <3>2. d.receiver = p /\ d.items = {i} /\ d.cod = 0
      BY <2>1, <3>1 DEF ExpiredMail, FromAuction, Draft
    <3>3. Outcome(x) = <<ExpiredMail(x)>>
      BY <2>3, <3>1 DEF Outcome
    <3>4. 1 \in DOMAIN Outcome(x) /\ Outcome(x)[1] = d
      BY <3>1, <3>3
    <3>5. 1 \in DOMAIN Outcome(auction[b]) /\ d = Outcome(auction[b])[1]
      BY <3>1, <3>4
    <3>6. \A j \in d.items : d.cod = 0 => OwnsMailed(p, j, mail')
      BY <1>2, <2>3, <3>2, <3>5, OutcomesArrive
    <3> QED BY <3>2, <3>6
  <2>4. CASE b \in done /\ auction[b].bidder # None
    <3>1. PICK x, d : x = auction[b] /\ d = SuccessfulMail(x)
      OBVIOUS
    <3>2. d.receiver = p /\ d.money = Profit(x)
      BY <2>1, <3>1 DEF SuccessfulMail, FromAuction, Draft
    <3>3. Outcome(x) = <<SuccessfulMail(x), WonMail(x)>>
      BY <2>4, <3>1 DEF Outcome
    <3>4. 1 \in DOMAIN Outcome(x) /\ Outcome(x)[1] = d
      BY <3>1, <3>3
    <3>5. 1 \in DOMAIN Outcome(auction[b]) /\ d = Outcome(auction[b])[1]
      BY <3>1, <3>4
    <3>6. SentSum(p, mail) + d.money <= SentSum(p, mail')
      BY <1>2, <2>4, <3>2, <3>5, OutcomesArrive
    <3>7. x \in Auctions
      BY <1>5, <2>4, <3>1
    <3>8. x.bid \in Nat /\ x.deposit \in Nat /\ AuctionCut(x) \in Nat
      BY <3>7, CutBound DEF Auctions
    <3>9. Profit(x) = x.bid + x.deposit - AuctionCut(x)
      BY DEF Profit
    <3>10. Wealth(p)' + Spent(p) >= Wealth(p) + x.deposit + x.bid - AuctionCut(x)
      BY <1>8, <1>9, <1>11, <3>2, <3>6, <3>8, <3>9
    <3>11. b \in Live
      BY <1>5, <2>4
    <3> QED BY <2>1, <3>1, <3>10, <3>11 DEF SoldFor
  <2> QED BY <2>2, <2>3, <2>4
<1>15. ASSUME NEW i \in Items, Owns(p, i), ~Owns(p, i)' PROVE SoldFor(p, i)
  <2>1. i \in bag[p] \/ OwnsAuctioned(p, i, auction) \/ OwnsMailed(p, i, mail)
    BY <1>15, OwnsIs
  <2>2. ~(i \in bag'[p] \/ OwnsAuctioned(p, i, auction') \/ OwnsMailed(p, i, mail'))
    BY <1>15, OwnsIs
  <2> QED BY <1>2, <1>4, <1>14, <2>1, <2>2
<1> QED BY <1>13, <1>15 DEF Unharmed

-----------------------------------------------------------------------------
(****************************************************************************)
(* What time does, and the theorems about each player.                      *)
(****************************************************************************)

\* What p can lose when his old mails are deleted.
OverdueMoney(p) == \E id \in Overdue(p) : mail[id].money > 0
OverdueGoods(p, i) == \E id \in Overdue(p) : mail[id].cod = 0 /\ i \in mail[id].items

\* Old mails are returned or deleted.  An item for which the receiver did not pay is not lost
\* with them: it goes back to the sender.
LEMMA ProcessedHarmless ==
  ASSUME IInv, NEW p \in Players, NEW done \in SUBSET OldRows, NEW rows, rows = ProcessedRows(done)
  PROVE  /\ rows \in Rows
         /\ ~OverdueMoney(p) => SentSum(p, mail) <= SentSum(p, rows)
         /\ \A i \in Items : OwnsMailed(p, i, mail) /\ ~OwnsMailed(p, i, rows) => OverdueGoods(p, i)
<1>1. mail \in Rows /\ rows \in Rows
  BY OldTypes DEF IInv, MailInv
<1>2. \A id \in done : id \in MailIds /\ mail[id] # NoMail /\ mail[id].old /\ mail[id] \in SignedMails
  BY <1>1 DEF OldRows, Rows
<1>3. \A id \in MailIds \ done : rows[id] = mail[id]
  BY DEF ProcessedRows
<1>4. ASSUME ~OverdueMoney(p) PROVE SentSum(p, mail) <= SentSum(p, rows)
  <2>1. ASSUME NEW id \in MailIds PROVE SentTo(p, mail)[id] <= SentTo(p, rows)[id]
    <3>1. SentTo(p, mail)[id] \in Nat /\ SentTo(p, rows)[id] \in Nat
      BY <1>1, SentToTypes
    <3>2. CASE id \notin done
      <4>1. SentTo(p, mail)[id] = SentTo(p, rows)[id]
        BY <1>3, <3>2 DEF SentTo
      <4> QED BY <3>1, <4>1
    <3>3. CASE id \in done /\ mail[id].receiver = p
      <4>1. id \in Overdue(p)
        BY <1>2, <3>3 DEF Overdue
      <4>2. ~(mail[id].money > 0) /\ mail[id].money \in Nat
        BY <1>2, <1>4, <3>3, <4>1, MailFields DEF OverdueMoney
      <4>3. SentTo(p, mail)[id] = mail[id].money
        BY <1>2, <3>3 DEF SentTo
      <4> QED BY <3>1, <4>2, <4>3
    <3>4. CASE id \in done /\ mail[id].receiver # p
      <4>1. SentTo(p, mail)[id] = 0
        BY <3>4 DEF SentTo
      <4> QED BY <3>1, <4>1
    <3> QED BY <3>2, <3>3, <3>4
  <2> QED BY <1>1, <2>1, SentGrows
<1>5. ASSUME NEW i \in Items, OwnsMailed(p, i, mail), ~OwnsMailed(p, i, rows) PROVE OverdueGoods(p, i)
  <2>1. OwnsMailed(p, i, mail) /\ ~OwnsMailed(p, i, rows)
    BY <1>5
  <2>2. PICK id \in MailIds : mail[id] # NoMail /\ i \in mail[id].items /\ Owner(mail[id]) = p
    BY <2>1 DEF OwnsMailed
  <2>3. id \in done
    BY <1>3, <2>1, <2>2 DEF OwnsMailed
  <2>4. CASE mail[id].cod > 0
    <3>1. PICK m, r : m = mail[id] /\ r = ReturnedRow(m)
      OBVIOUS
    <3>2. m \in SignedMails /\ m.sender = p /\ i \in m.items /\ m.cod > 0
      BY <1>2, <2>2, <2>3, <2>4, <3>1 DEF Owner
    <3>3. m.kind = "normal" /\ m \in Mails
      BY <3>2, MailFields, AsksOnce
    <3>4. Returnable(m)
      BY <3>2, <3>3 DEF Returnable
    <3>5. rows[id] = r
      BY <2>3, <3>1, <3>4 DEF ProcessedRows
    <3>6. r.receiver = p /\ r.cod = 0 /\ r.items = m.items
      BY <3>1, <3>2, <3>3 DEF ReturnedRow, Returned, Checked, Mails
    <3>7. r \in SignedMails
      BY <2>3, <3>1, <3>4, OldTypes DEF IInv
    <3>8. r # NoMail
      BY <3>7, MailFields
    <3> QED BY <2>1, <3>2, <3>5, <3>6, <3>8 DEF OwnsMailed, Owner
  <2>5. CASE ~(mail[id].cod > 0)
    <3>1. mail[id].receiver = p /\ mail[id].cod \in Nat
      BY <1>2, <2>2, <2>3, <2>5, MailFields DEF Owner
    <3>2. id \in Overdue(p) /\ mail[id].cod = 0
      BY <1>2, <2>3, <2>5, <3>1 DEF Overdue
    <3> QED BY <2>2, <3>2 DEF OverdueGoods
  <2> QED BY <2>4, <2>5
<1> QED BY <1>1, <1>4, <1>5

\* Lost items change nothing for who has no part in them.
LEMMA StrippedOwned ==
  ASSUME NEW p, NEW rows \in Rows, NEW gone
  PROVE  /\ SentSum(p, Stripped(rows, gone)) = SentSum(p, rows)
         /\ \A i : OwnsMailed(p, i, rows) /\ i \notin gone => OwnsMailed(p, i, Stripped(rows, gone))
<1>1. PICK next \in Rows : next = Stripped(rows, gone)
  BY StrippedType
<1>2. ASSUME NEW k \in MailIds PROVE SentTo(p, rows)[k] = SentTo(p, next)[k]
  <2>1. CASE rows[k] = NoMail
    BY <1>1, <2>1 DEF Stripped, SentTo
  <2>2. CASE rows[k] # NoMail
    <3>1. PICK r \in SignedMails : next[k] = Tidy(r) /\ r.money = rows[k].money /\ r.receiver = rows[k].receiver
      BY <1>1, <2>2, StrippedRow
    <3>2. r.money \in Nat /\ r # NoMail
      BY MailFields
    <3>3. CASE next[k] = r
      BY <2>2, <3>1, <3>2, <3>3 DEF SentTo
    <3>4. CASE next[k] = NoMail /\ r.money = 0
      BY <2>2, <3>1, <3>4 DEF SentTo
    <3> QED BY <3>1, <3>2, <3>3, <3>4 DEF Tidy, Carries
  <2> QED BY <2>1, <2>2
<1>3. ASSUME NEW i, OwnsMailed(p, i, rows), i \notin gone PROVE OwnsMailed(p, i, next)
  <2>1. PICK k \in MailIds : rows[k] # NoMail /\ i \in rows[k].items /\ Owner(rows[k]) = p
    BY <1>3 DEF OwnsMailed
  <2>2. PICK r \in SignedMails :
          /\ next[k] = Tidy(r) /\ r.items = rows[k].items \ gone /\ r.cod = rows[k].cod
          /\ r.sender = rows[k].sender /\ r.receiver = rows[k].receiver
    BY <1>1, <2>1, StrippedRow
  <2>3. i \in r.items /\ Owner(r) = p /\ r # NoMail
    BY <1>3, <2>1, <2>2, MailFields DEF Owner
  <2>4. next[k] = r
    BY <2>2, <2>3 DEF Tidy, Carries
  <2> QED BY <2>3, <2>4 DEF OwnsMailed
<1> QED BY <1>1, <1>2, <1>3, SentSame

\* Expire.
LEMMA ExpireHarmless ==
  ASSUME IInv, IInv', NEW p \in Players, NEW id \in MailIds, Expire(id), auction' = auction
  PROVE  Unharmed(p)
<1>1. PICK m, r : m = mail[id] /\ r = Aged(m)
  OBVIOUS
<1>2. mail' = [mail EXCEPT ![id] = r] /\ m # NoMail /\ purse'[p] = purse[p] /\ bag'[p] = bag[p]
  BY <1>1, ExpireStep
<1>3. mail \in Rows /\ mail' \in Rows /\ m \in SignedMails /\ m \in Mails
  BY <1>1, <1>2, MailFields DEF IInv, MailInv, Rows
<1>4. /\ r.receiver = m.receiver /\ r.sender = m.sender /\ r.money = m.money /\ r.cod = m.cod
      /\ r.items = m.items
  BY <1>1, <1>2, <1>3 DEF Aged, Mails
<1>5. r # NoMail
  BY <1>1, <1>2, <1>3, AgedType
<1>6. mail'[id] = r /\ \A k \in MailIds \ {id} : mail'[k] = mail[k]
  BY <1>2, <1>3 DEF Rows
<1>7. ASSUME NEW k \in MailIds PROVE SentTo(p, mail)[k] <= SentTo(p, mail')[k]
  <2>1. SentTo(p, mail)[k] = SentTo(p, mail')[k]
    BY <1>1, <1>2, <1>4, <1>5, <1>6 DEF SentTo
  <2> QED BY <1>3, <2>1, SentToTypes
<1>8. ASSUME NEW i \in Items, OwnsMailed(p, i, mail) PROVE OwnsMailed(p, i, mail')
  <2>1. PICK k \in MailIds : mail[k] # NoMail /\ i \in mail[k].items /\ Owner(mail[k]) = p
    BY <1>8 DEF OwnsMailed
  <2>2. CASE k = id
    <3>1. Owner(r) = p /\ i \in r.items
      BY <1>1, <1>4, <2>1, <2>2 DEF Owner
    <3> QED BY <1>5, <1>6, <3>1 DEF OwnsMailed
  <2>3. CASE k # id
    BY <1>6, <2>1, <2>3 DEF OwnsMailed
  <2> QED BY <2>2, <2>3
<1> QED BY <1>2, <1>7, <1>8, SavingHarmless

\* The action properties, for one player: p has less, and the reasons the code may have for it.
Harm(p) == Wealth(p)' + Spent(p) < Wealth(p)

LossPaid(p, i) ==
  \/ Acts(p) \/ Moves(p)
  \/ (Time \/ Crash) /\ OverdueGoods(p, i)
  \/ SoldFor(p, i) \/ PaidOnDelivery(p, i)

LossOwn(p) == Acts(p) \/ Moves(p) \/ ((Time \/ Crash) /\ OverdueMoney(p))

Fair(p) ==
  /\ Harm(p) => LossOwn(p)
  /\ \A i \in Items : Owns(p, i) /\ ~Owns(p, i)' => LossPaid(p, i)

\* Who is not harmed needs no reason.
LEMMA UnharmedFair ==
  ASSUME IInv, IInv', NEW p \in Players, Unharmed(p)
  PROVE  Fair(p)
<1>1. Wealth(p) \in Int /\ Wealth(p)' \in Int /\ Spent(p) \in Nat
  BY WealthIs, SpentIs
<1>2. ~Harm(p)
  BY <1>1 DEF Unharmed, Harm
<1>3. \A i \in Items : Owns(p, i) /\ ~Owns(p, i)' => LossPaid(p, i)
  BY DEF Unharmed, LossPaid
<1> QED BY <1>2, <1>3 DEF Fair

\* What other players do, and the coming and going of others.
LEMMA ActsUnharmed ==
  ASSUME IInv, IInv', NEW p \in Players, NEW q \in Players, q # p, Acts(q)
  PROVE  Unharmed(p)
<1>1. ASSUME NEW r \in Players, NEW things \in SUBSET bag[q], NEW sum \in Sums, NEW onDelivery \in CODs,
             HandleSendMail(q, r, things, sum, onDelivery), auction' = auction
      PROVE  Unharmed(p)
  BY <1>1, SendHarmless
<1>2. ASSUME NEW id \in MailIds, HandleMailDelete(q, id), auction' = auction
      PROVE  Unharmed(p)
  <2>1. purse' = purse /\ bag' = bag /\ mail' = mail
    BY <1>2 DEF HandleMailDelete, memory
  <2> QED BY <1>2, <2>1, StillHarmless
<1>3. ASSUME NEW id \in MailIds, HandleMailReturnToSender(q, id), auction' = auction
      PROVE  Unharmed(p)
  BY <1>3, ReturnHarmless
<1>4. ASSUME NEW id \in MailIds, HandleMailTakeMoney(q, id), auction' = auction
      PROVE  Unharmed(p)
  BY <1>4, TakeMoneyHarmless
<1>5. ASSUME NEW id \in MailIds, NEW i \in Items, HandleMailTakeItem(q, id, i), auction' = auction
      PROVE  Unharmed(p)
  BY <1>5, TakeItemHarmless
<1>6. ASSUME MailHandler(q), auction' = auction PROVE Unharmed(p)
  BY <1>1, <1>2, <1>3, <1>4, <1>5, <1>6 DEF MailHandler
<1>7. ASSUME Sell(q) PROVE Unharmed(p)
  BY <1>7, SellHarmless DEF Sell
<1>8. ASSUME Bid(q) PROVE Unharmed(p)
  BY <1>8, PlaceBidHarmless, BuyoutHarmless DEF Bid
<1>9. ASSUME Cancel(q) PROVE Unharmed(p)
  BY <1>9, CancelHarmless DEF Cancel
<1> QED BY <1>6, <1>7, <1>8, <1>9 DEF Acts

LEMMA MovesUnharmed ==
  ASSUME IInv, IInv', NEW p \in Players, NEW q \in Players, q # p, Moves(q), auction' = auction
  PROVE  Unharmed(p)
<1>1. CASE LoginQueries(q) \/ LoginFromDB(q) \/ TeleportFar(q) \/ WorldportAck(q)
  <2>1. purse' = purse /\ bag' = bag /\ mail' = mail
    BY <1>1 DEF LoginQueries, LoginFromDB, TeleportFar, WorldportAck, memory
  <2> QED BY <2>1, StillHarmless
<1>2. CASE Logout(q)
  BY <1>2, LogoutHarmless
<1> QED BY <1>1, <1>2 DEF Moves

\* Old mails are processed, and another one may lose items.
LEMMA LossFair ==
  ASSUME IInv, IInv', NEW p \in Players, NEW done \in SUBSET OldRows, NEW rows, rows = ProcessedRows(done),
         SentSum(p, mail') = SentSum(p, rows),
         \A i \in Items : OwnsMailed(p, i, rows) /\ ~OwnsMailed(p, i, mail') => OverdueGoods(p, i),
         purse' = purse, bag' = bag, auction' = auction, Time \/ Crash
  PROVE  Fair(p)
<1>1. /\ ~OverdueMoney(p) => SentSum(p, mail) <= SentSum(p, rows)
      /\ \A i \in Items : OwnsMailed(p, i, mail) /\ ~OwnsMailed(p, i, rows) => OverdueGoods(p, i)
  BY ProcessedHarmless
<1>2. Spent(p) \in Nat
  BY SpentIs
<1>3. Harm(p) => OverdueMoney(p)
  BY <1>1, <1>2, WealthIs DEF Harm
<1>4. ASSUME NEW i \in Items, Owns(p, i), ~Owns(p, i)' PROVE OverdueGoods(p, i)
  <2>1. OwnsMailed(p, i, mail) /\ ~OwnsMailed(p, i, mail')
    BY <1>4, OwnsIs
  <2> QED BY <1>1, <2>1
<1> QED BY <1>3, <1>4 DEF Fair, LossOwn, LossPaid

\* Mails grow old and are processed, and crashes.
LEMMA TimeFair ==
  ASSUME IInv, IInv', SeenInv, ~crossed', NEW p \in Players, (Time /\ auction' = auction) \/ Crash
  PROVE  Fair(p)
<1>1. CASE Crash
  <2>1. MailCrash /\ auction' = auction /\ purse' = purse /\ bag' = bag /\ MailInv
    BY <1>1 DEF Crash, MailCrash, IInv, AuctionInv, MailInv
  <2>2. PICK done \in SUBSET OldRows, gone \in SUBSET Items :
          /\ mail' = Stripped(ProcessedRows(done), gone)
          /\ \/ gone = {}
             \/ \E id \in OldRows : id \notin done /\ ~Returnable(mail[id]) /\ gone \subseteq mail[id].items
    BY <2>1, CrashStep
  <2>3. PICK rows : rows = ProcessedRows(done) /\ rows \in Rows
    BY <2>1, OldTypes
  <2>4. SentSum(p, mail') = SentSum(p, rows)
    BY <2>2, <2>3, StrippedOwned
  <2>5. ASSUME NEW i \in Items, OwnsMailed(p, i, rows), ~OwnsMailed(p, i, mail') PROVE OverdueGoods(p, i)
    <3>1. i \in gone
      BY <2>2, <2>3, <2>5, StrippedOwned
    <3>2. PICK id \in OldRows : id \notin done /\ ~Returnable(mail[id]) /\ i \in mail[id].items
      BY <2>2, <3>1
    <3>3. /\ id \in MailIds /\ mail[id] # NoMail /\ mail[id].old /\ mail[id] \in SignedMails
          /\ rows[id] = mail[id]
      BY <2>1, <2>3, <3>2, MailboxType DEF OldRows, ProcessedRows, MailInv
    <3>4. mail[id].cod = 0
      BY <3>2, <3>3, AsksOnce DEF Returnable
    <3>5. PICK k \in MailIds : rows[k] # NoMail /\ i \in rows[k].items /\ Owner(rows[k]) = p
      BY <2>5 DEF OwnsMailed
    <3>6. k = id
      <4>1. Placed(bag, auction, rows, wasted \cup RowsGoods(DeletableRows(done)), i)
        BY <2>1, <2>3, ProcessedPlaced DEF IInv
      <4>2. id \in Mailed(rows, i) /\ k \in Mailed(rows, i)
        BY <3>2, <3>3, <3>5 DEF Mailed
      <4> QED BY <4>1, <4>2, PlacedThere
    <3>7. mail[id].receiver = p
      BY <3>3, <3>4, <3>5, <3>6 DEF Owner
    <3> QED BY <3>2, <3>3, <3>4, <3>7 DEF OverdueGoods, Overdue
  <2> QED BY <1>1, <2>1, <2>3, <2>4, <2>5, LossFair
<1>2. ASSUME ReturnOrDeleteOldMails, auction' = auction PROVE Fair(p)
  <2>1. Old \in SUBSET OldRows /\ mail' = ProcessedRows(Old) /\ purse' = purse /\ bag' = bag
    BY <1>2, OldMailsStep
  <2>2. Time
    BY <1>2 DEF Time
  <2> QED BY <1>2, <2>1, <2>2, LossFair
<1>3. ASSUME NEW id \in MailIds, Expire(id), auction' = auction PROVE Fair(p)
  BY <1>3, ExpireHarmless, UnharmedFair
<1>4. ASSUME Execute, auction' = auction PROVE Fair(p)
  <2>1. purse' = purse /\ bag' = bag /\ mail' = mail
    BY <1>4 DEF Execute, memory
  <2> QED BY <1>4, <2>1, StillHarmless, UnharmedFair
<1> QED BY <1>1, <1>2, <1>3, <1>4 DEF Time

\* Every step is fair to every player, unless it changes a mail behind the back of one.
LEMMA StepFair ==
  ASSUME IInv, IInv', SeenInv, [Next]_vars, ~crossed', NEW p \in Players
  PROVE  Fair(p)
<1>1. ASSUME Acts(p) \/ Moves(p) PROVE Fair(p)
  BY <1>1 DEF Fair, LossOwn, LossPaid
<1>2. ASSUME NEW q \in Players, q # p, Acts(q) PROVE Fair(p)
  BY <1>2, ActsUnharmed, UnharmedFair
<1>3. ASSUME NEW q \in Players, q # p, Moves(q), auction' = auction PROVE Fair(p)
  BY <1>3, MovesUnharmed, UnharmedFair
<1>4. ASSUME NEW done \in SUBSET Live, Update(done) PROVE Fair(p)
  BY <1>4, UpdateHarmless, UnharmedFair
<1>5. ASSUME UNCHANGED vars PROVE Fair(p)
  <2>1. purse' = purse /\ bag' = bag /\ mail' = mail /\ auction' = auction
    BY <1>5 DEF vars, mailVars, memory
  <2> QED BY <2>1, StillHarmless, UnharmedFair
<1> QED BY <1>1, <1>2, <1>3, <1>4, <1>5, TimeFair DEF Next

\* What holds of every step.
LEMMA StepHolds ==
  ASSUME TypesInv, ~crossed => IInv, ~crossed' => IInv', [Next]_vars, ~crossed', NEW p \in Players
  PROVE  Fair(p)
<1>1. SeenInv /\ (crossed => crossed')
  <2>1. mail' \in Rows
    BY DEF IInv, MailInv
  <2> QED BY <2>1, SeenNext DEF TypesInv
<1> QED BY <1>1, StepFair

\* Outbidding, buyouts, cancellations, ends of auctions, returned and saved mails and payments on
\* delivery by others never cost a player money: the bids he loses are in a mail to him in the same
\* step.  The money he can lose without acting is what he bid on what he wins and what was in an
\* expired mail to him; this holds until an old mail is changed behind the back of a player.
THEOREM NobodyElsesLoss == Spec => OnlyOwnLoss
<1>1. ASSUME TypesInv, ~crossed => IInv, ~crossed' => IInv', [Next]_vars
      PROVE  [\A p \in Players : Wealth(p)' + Spent(p) < Wealth(p) =>
                \/ crossed'
                \/ Acts(p) \/ Moves(p)
                \/ (Time \/ Crash) /\ \E id \in Overdue(p) : mail[id].money > 0]_vars
  BY <1>1, StepHolds DEF Fair, Harm, LossOwn, OverdueMoney
<1> QED BY <1>1, InvHolds, PTL DEF Spec, OnlyOwnLoss

\* Who loses an item by what others do has been paid for it in the same step: what the auction
\* brought, or the cash on delivery to the coin.  The exceptions are what was in an expired mail to
\* him that asked for nothing, and what follows when an old mail was changed behind the back of a
\* player.
THEOREM SellersArePaid == Spec => PaidFor
<1>1. ASSUME TypesInv, ~crossed => IInv, ~crossed' => IInv', [Next]_vars
      PROVE  [\A p \in Players, i \in Items : Owns(p, i) /\ ~Owns(p, i)' =>
       \/ crossed'
       \/ Acts(p) \/ Moves(p)
       \/ (Time \/ Crash) /\ \E id \in Overdue(p) : mail[id].cod = 0 /\ i \in mail[id].items
       \/ \E a \in Live : /\ auction[a].owner = p /\ auction[a].item = i
                          /\ Wealth(p)' + Spent(p) >= Wealth(p) + auction[a].deposit + auction[a].bid
                                                      - AuctionCut(auction[a])
       \/ \E id \in MailIds : /\ mail[id] # NoMail /\ i \in mail[id].items
                              /\ mail[id].sender = p /\ mail[id].cod > 0
                              /\ Wealth(p)' = Wealth(p) + mail[id].cod]_vars
  BY <1>1, StepHolds DEF Fair, LossPaid, OverdueGoods, SoldFor, PaidOnDelivery
<1> QED BY <1>1, InvHolds, PTL DEF Spec, PaidFor
=============================================================================
