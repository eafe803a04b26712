SPECIFICATION Spec
CONSTANTS
  ann = ann
  bob = bob
  ring = ring
  band = band
  gem = gem
  Players = {ann, bob}
  Items = {ring, band, gem}
  Limited <- MCPair
  MaxCount <- MCOne
  Enchantable = {gem}
  Raiders = {ann, bob}
  InitHolder <- MCHolder
  InitBind <- MCBind
  InitMoney <- MCMoney
  TRADE_SLOT_TRADED_COUNT = 2
  MAX_MONEY_AMOUNT = 2
  Capacity = 2
  MaxElsewhere = 2
  Binding = {ring}
  NoTrade = NoTrade
  None = None
  Gone = Gone
  Lost = Lost
INVARIANTS Paired MoneyConserved HandedOver
PROPERTIES NothingLost OnlyAgreedItems OnlyAgreedSpells
