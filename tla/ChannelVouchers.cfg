\* One channel, two recipients with vouchers: closes, challenges, penalties,
\* rotations and refunds interleave with the agent's payments, and every close ends.
SPECIFICATION FairSpec
CONSTANTS
  PriceScale = 2
  BpsDenominator = 20
  MaxSlippageBps = 1
  MaxRouteHops = 2
  Owners = {o}
  Agents = {a}
  Recipients = {r1, r2}
  Others = {}
  Tokens = {t}
  Self = self
  Keys = {k}
  NoKey = NoKey
  NoSettlement = NoSettlement
  Periods = {"Hourly"}
  PeriodLedgers <- MCPeriodLedgers
  MinDispute = 1
  DefaultDispute = 1
  Windows = {0, 1, 2}
  Amounts <- MCAmounts
  Prices = {}
  Routes <- MCRoutes
  MaxChannels = 1
  MaxFunding = 4
  MaxLedger = 3
  LastClose = 1
INVARIANTS
  Backed
  
  SettlementBounded
PROPERTIES
  SettlementOrdered
  IsVault
  
