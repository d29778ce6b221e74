\* Handlers that may die between the approval and its grant.
CONSTANTS
  hon = hon
  plan = plan
  odd = odd
  p1 = p1
  p2 = p2
  o1 = o1
  o2 = o2
  r1 = r1
  r2 = r2
  Payments = {p1, p2}
  HonPrices = {hon}
  PlanPrices = {plan}
  OtherAmounts = {odd}
  PlanOrders = {p2}
  Orders = {o1, o2}
  Requests = {r1, r2}
  TestMode = FALSE
  LossyGateway = TRUE
  MayAbort = TRUE
  NoPayment = NoPayment
  NoOrder = NoOrder
  NoAmount = NoAmount
SPECIFICATION Spec
INVARIANT PaidIsGranted

CHECK_DEADLOCK FALSE
