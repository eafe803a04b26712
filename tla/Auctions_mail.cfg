\* Three players, one item, up to the first mail that is changed behind the back of a player.
SPECIFICATION Spec
CONSTANTS
  ann = ann
  bob = bob
  cid = cid
  ore = ore
  Players = {ann, bob, cid}
  Items = {ore}
  InitBag <- MCBag
  InitPurse <- MCPurse
  MAX_MONEY_AMOUNT = 2
  Word = 8
  Postage = 1
  MAX_MAIL_ITEMS = 1
  Sums = {0, 1, 7}
  CODs = {0, 1}
  Senders = {ann}
  MailIds = {1, 2, 3}
  Leavers = {bob}
  Travellers = {bob}
  AuctionIds = {1}
  Deposit = 1
  cutPercent = 50
  Prices = {1, 2}
  NoMail = NoMail
  None = None
  NoAuction = NoAuction
INVARIANTS TypeOK MoneyConserved OnePlace MailboxTrue
PROPERTIES OnlyOwnLoss PaidFor
CONSTRAINT Uncrossed
