SPECIFICATION Spec
CONSTANTS
  Handlers = {1, 2}
  Settings = {"details", "amount"}
  MaxTexts = 3
  MaxPresses = 4
  MaxFaults = 2
INVARIANTS TypeOK OncePerPreview OncePerPrompt SentWasPreviewed
\* administrators may do nothing more, and their updates are bounded
CHECK_DEADLOCK FALSE
