SPECIFICATION FairSpec
CONSTANTS
    Places = {pl1, pl2}
    Schemas = {app, public}
    Providers = {ai1, ai2}
    TomlProviders = {ai1}
    Oversized = {pl2}
    MaxSends = 2
    MaxChanges = 3
    None = None
CHECK_DEADLOCK FALSE
INVARIANTS AssistantInv
PROPERTIES PromptIsAnswered ChatComesToRest
