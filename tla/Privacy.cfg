CONSTANTS
    PrefixOf <- MCPrefix
    Base = 2
    Alike <- MCAlike
    Aliases <- MCAliases
    Threshold = 90
    Phrases <- MCPhrases
    Preserve = {}
    Forced <- MCForced
    UpperGlyphs <- MCUpper
    Pronouns <- MCPronouns
    Articles <- MCArticles
    Keywords <- MCKeywords
    Initials <- MCInitials
    FirstName <- MCFirstName
    Coreference = TRUE
    Escalation = TRUE
    Requests = {1, 2}
    Asks <- MCAsks
    Modes = {"proxy", "server", "interceptor"}
    Ids = {"s"}
    Extras <- MCExtras
    Profiles <- MCProfiles
    Toggles = {"ner", "custom"}
    MaxFaults = 1
    Originals <- MCOriginals
    Stored <- MCStored
    Processes = {"p", "q"}
    Users = {"", "u"}
    Keys = {"key", "other"}
    MaxNumber = 2
SPECIFICATION MCSpec
INVARIANTS PrivacyInv    
CHECK_DEADLOCK FALSE
