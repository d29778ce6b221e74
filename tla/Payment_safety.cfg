\* Three requests at once, handlers that die, answers that get lost.
CONSTANTS
  hon = hon
  plan = plan
  p1 = p1
  p2 = p2
  o1 = o1
  r1 = r1
  r2 = r2
  r3 = r3
  Payments = {p1, p2}
  HonPrices = {hon}
  PlanPrices = {plan}
  OtherAmounts = {}
  PlanOrders = {p2}
  Orders = {o1}
  Requests = {r1, r2, r3}
  TestMode = FALSE
  LossyGateway = TRUE
  MayAbort = TRUE
  NoPayment = NoPayment
  NoOrder = NoOrder
  NoAmount = NoAmount
SYMMETRY Slots
SPECIFICATION Spec
INVARIANTS LegalHistory EntitledOnce BooksMatchGateway
PROPERTY ProjectionVerdictStands
CHECK_DEADLOCK FALSE
