SPECIFICATION Spec
CONSTANTS
    a1 = a1
    a2 = a2
    ch1 = ch1
    ch2 = ch2
    news = news
    Ads = {a1, a2, a3}
    NoAd = NoAd
    NoRow = NoRow
    NoCache = NoCache
    Channels = {ch1, ch2}
    Categories = {news}
    NoCategory = NoCategory
    CategoryOf <- MCCategoryOf
    LastSlot = 2
    LastDay = 3
    NoticeDays = 1
    Inputs <- MCInputs
    Booked <- MCBooked
    Admins = {p1, p2}
    Readers = {r1}
    Checkers = {k1, k2}
    MaxEvents = 3
SYMMETRY Symmetry
INVARIANTS ShownAsBooked PlacesApart ClicksAddUp BannersOldOnlyByRace OneNoticePerBell
CHECK_DEADLOCK FALSE
