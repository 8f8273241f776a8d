CONSTANTS
    a1 = a1
    a2 = a2
    u1 = u1
    c1 = c1
    c2 = c2
    c3 = c3
    None = None
    Off = Off
    Users = {u1}
    Addresses = {a1, a2}
    Spellings <- MCSpellings
    Normal <- MCNormal
    Reported <- MCReported
    MaxLoads = 3
    Openings = {0, 1}
    MaxSaves = 3
    NoteTexts = {0, 1, 2}
    Accounts = {1, 2, 3}
    Currencies = {"EUR", "HUF"}
    CurrencyOf <- MCCurrencyOf
    Whole = {"HUF"}
    Amounts = {2, 3}
    Formats <- MCFormats
    Stored <- MCStored
    Keys = {"0", "7", ",", ".", "-"}
    MaxLength = 6
    Codes = {c1, c2, c3}
    MaxKey = 6

SPECIFICATION Spec

INVARIANTS
    ResultsAgree
    BanNamesShownAddress
    NoEndlessLoading
    SettledIsShown
    FormsStayLive
    StatusIsTrue
    PostedPlanAgrees
    ListsAreCurrent
    SettingsAgree
    PostsWhatIsShown

CHECK_DEADLOCK FALSE
