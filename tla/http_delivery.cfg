\* One send() of the webhook or the Telegram notifier, a body of two chunks.
SPECIFICATION SendSpec
CONSTANTS
  MaxChunks = 2
  Alerts <- AlertsToSend
  Escaped <- EscapedText
  Json <- JsonText
  Length <- LengthOf
INVARIANTS AcceptedAtMostOnce SentMeansAccepted
PROPERTIES SendSettles BodyFits NothingDroppedNeedlessly
CHECK_DEADLOCK FALSE
