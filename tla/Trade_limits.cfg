SPECIFICATION Spec
CONSTANTS
  ann = ann
  bob = bob
  ring = ring
  band = band
  gem = gem
  Players = {ann, bob}
  Items = {ring, band, gem}
  Limited <- MCTriple
  MaxCount <- MCTwo
  Enchantable = {}
  Raiders = {ann, bob}
  InitHolder <- MCTwoAndOne
  InitBind <- MCFree
  InitMoney <- MCMoney
  TRADE_SLOT_TRADED_COUNT = 2
  MAX_MONEY_AMOUNT = 2
  Capacity = 4
  MaxElsewhere = 0
  Binding = {}
  NoTrade = NoTrade
  None = None
  Gone = Gone
  Lost = Lost
PROPERTY ExchangedWhole
