CONSTANTS
  Users = {u1, u2, c1}
  Creator = c1
  CreatorParticipates = FALSE
  NoOne = NoOne
  Mode = "FIXED"
  Contributions = {1}
  Workers = {w1, w2}
  Width = 2
  Products = {1, 2}
  People = {2, 3, 4}
  Host = 1
  Groups = {{2, 3, 4}}
  Bringers = {2}
  Prices = {1, 2}
  Fee = 1
  Seeds <- OneSeed
  Calls = {1, 2}
  Runs = {1}
  Price <- TwoPrices
  Budgets = {1, 2, 3}
  Streams <- TwoStreams
  MaxItems = 2
  MaxFunds = 4
SYMMETRY Symmetry
SPECIFICATION MCSpec
INVARIANTS
  BooksFollowMoney
  DrawnAmongPayers
  CollectedIsThere
  WinnerGetsAll
  DrawFollowsSeed
  EveryMemberAlike
  BudgetKept
PROPERTIES
  EndsAreFinal
CHECK_DEADLOCK FALSE
