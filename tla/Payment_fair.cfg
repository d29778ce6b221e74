\* Two requests at once that run to their end, over two payments that compete for one order.
CONSTANTS
  hon = hon
  plan = plan
  odd = odd
  p1 = p1
  p2 = p2
  o1 = o1
  r1 = r1
  r2 = r2
  Payments = {p1, p2}
  HonPrices = {hon}
  PlanPrices = {plan}
  OtherAmounts = {odd}
  PlanOrders = {p2}
  Orders = {o1}
  Requests = {r1, r2}
  TestMode = FALSE
  LossyGateway = TRUE
  MayAbort = FALSE
  NoPayment = NoPayment
  NoOrder = NoOrder
  NoAmount = NoAmount
SPECIFICATION FairSpec
INVARIANT PaidIsGranted
PROPERTIES RefinesLifecycle DeliversWhatIsPaid
