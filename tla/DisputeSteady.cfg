\* An owner who leaves open windows alone: answering in time is enough.
SPECIFICATION DisputeSpec
CONSTANTS
  PriceScale = 2
  BpsDenominator = 20
  MaxSlippageBps = 1
  MaxRouteHops = 2
  Owners = {o}
  Agents = {a}
  Recipients = {r}
  Others = {}
  Tokens = {t}
  Self = self
  Keys = {k1, k2}
  NoKey = NoKey
  NoSettlement = NoSettlement
  Periods = {"Hourly"}
  PeriodLedgers <- MCPeriodLedgers
  MinDispute = 1
  DefaultDispute = 1
  Windows = {1, 2}
  Amounts = {1, 2, 3}
  Prices = {}
  Routes <- MCRoutes
  MaxChannels = 1
  MaxFunding = 6
  MaxLedger = 3
  LastClose = 3
  SteadyOwner = TRUE
INVARIANTS
  PaidIsOwed
PROPERTIES
  VigilantIsPaid
