SPECIFICATION Spec
CONSTANTS
    Lower <- MCLower
    Title <- MCTitle
    Byte <- MCByte
    Escape <- MCEscape
    Authority = Authority
    Enabled = TRUE
    InspectorPath <- MCInspectorPath
    ExcludePaths <- MCExcludePaths
    NoUrl = NoUrl
    MaxHeaderLines = 5
    Fresh = Fresh
    Exchanges <- MCExchanges
    HeaderTexts <- MCHeaderTexts
    BodyTexts <- MCBodyTexts
    MaxPosts = 2
    MaxRestarts = 1
    Null = Null
CHECK_DEADLOCK FALSE
INVARIANTS
    AnswerIsTrue
    SentIsClean
    UneditedIsSent
    
