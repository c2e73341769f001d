CONSTANTS
    Loaded = TRUE
    Asked <- Swap
SPECIFICATION Spec
PROPERTIES
    AnswerIsTrue
    SettingsTakeEffect
