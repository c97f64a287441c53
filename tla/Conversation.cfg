SPECIFICATION ConversationSpec
CONSTANTS
  None = None
  Delay = 2
  MaxTime = 7
  MaxChat = 3
  MaxSend = 2
  MaxTry = 2
INVARIANTS
  TypeOK
  ConversationTypeOK
  AnswersThisMessage
  ResponseIsWhole
  PersistedConversationIsAnswered
PROPERTIES
  FreshChatsAreSpaced
CHECK_DEADLOCK FALSE
