SPECIFICATION Spec
CONSTANTS
  Slips <- SomeSlips
  Results <- SomeResults
  WeightSets <- SomeWeights
  Unit <- CommonUnit
  Scale = 30
  MaxDraws = 4
  Recent = 2
  Longer = 3
  HotSkip = 1
  WarmSkip = 2
CHECK_DEADLOCK FALSE
INVARIANTS FeaturesAddUp RanksAgree ScoreInRange StatusAgrees
