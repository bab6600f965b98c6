SPECIFICATION MCSpec
CONSTANTS
  Handlers = {h1, h2}
  Total = 1
  QueueSize = 1
  MaxCommits = 3
  MaxClocks = 1
  recap = recap reminder = reminder scoring = scoring
  Windowed = {recap, reminder}
  Lasting = {}
  Opens <- MCOpens
  Closes <- MCCloses
  AtClose = {recap}
  Retention = 2
  MailSlots = 1
  Never = Never
  MaxDay = 4
  MaxSlips = 2
CHECK_DEADLOCK FALSE
INVARIANTS DeliveryIsSound NoticesAreSound
PROPERTIES DropsAreMended EveryNoticeSettles
