CONSTANTS
  Alerts <- MCAlerts
  ErrorAlerts <- MCErrorAlerts
  Channels <- MCChannels
  Cooldown = 3
  NotifyTicks = 1
  Panels <- MCPanels
  Scenarios <- MCScenarios
SPECIFICATION FairSpec
INVARIANTS
  TypeOK
  NotificationsSpaced
  AlertsCovered
  NotifiedIsWritten
PROPERTIES
  PanelsConverge
