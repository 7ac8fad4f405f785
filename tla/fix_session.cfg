\* Three orders, four replies: late and repeated reports, torn messages, a lost
\* connection; either engine.
SPECIFICATION SessionFairSpec
CONSTANTS
  MaxOrders = 3
  MaxReplies = 4
INVARIANTS NoMixedMessage MetricHasOwnReport AnswersInOrder
PROPERTIES BotEnds ImplementsAcceptor ConnectionEnds
CHECK_DEADLOCK FALSE
