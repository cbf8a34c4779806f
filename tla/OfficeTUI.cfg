SPECIFICATION FairSpec
CONSTANTS
    inbox = inbox  tasks = tasks
    m1 = m1  m2 = m2  n1 = n1  t1 = t1
    Ids = {m1, m2, n1, t1}
    None = None
    Sections = {inbox, tasks}
    Mail = {inbox}
    Content <- ShortFolder
    Arriving <- OneMail
    Editable = {t1}
    Deletable = {m1}
    Matching = {m1, n1}
    Rank <- RankOf
    PageSize = 2
    Threshold = 1
    Keys <- AllKeys
    MayFail = TRUE
    MaxInFlight = 2
INVARIANTS
    OrderIsPermutation
    RowsAreItems
    SavesLandOnTheirRecord
PROPERTY SettlesWhenLeftAlone
CHECK_DEADLOCK FALSE
