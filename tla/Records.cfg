CONSTANTS
    c1 = c1
    c2 = c2
    d1 = d1
    d2 = d2
    d3 = d3
    i1 = i1
    i2 = i2
    p1 = p1
    p2 = p2
    k1 = k1
    u1 = u1
    me = me
    other = other
    None = None
    Nobody = Nobody
    Missing = Missing
    Null = Null
    NoWorkItem = NoWorkItem
    Unissued = Unissued
    NoProfile = NoProfile
    NoEntity = NoEntity
    NoPerson = NoPerson
    Clients = {c1, c2}
    Clerks = {c1, c2}
    Treasurers = {c1, c2}
    Editors = {c1, c2}
    Writers = {c1, c2}
    Callers = {c1, c2}
    Users = {c1, c2}
    Managers = {c1, c2}
    Admins = {c1, c2}
    Visitors = {c1, c2}
    Documents = {d1, d2, d3}
    Series <- AllSeries
    SeriesOf <- TypeSeries
    Quantities <- SomeQuantities
    MaxStock = 2
    MaxEdits = 2
    Payments <- TwoPayments
    Amount <- TwoAmounts
    Targets = {0, 2}
    Lines = {i1, i2}
    Plans = {1}
    Calls = {c1, c2, d1}
    Hashes = {i1, i2}
    Attempts = 2
    MaxEffects = 2
    Kinds <- AllKinds
    StatusesOf <- SomeStatuses
    Columns <- SomeColumns
    MaxVersion = 3
    MaxRevisions = 2
    People = {i1, i2}
    Tokens = {d1, d2, d3}
    Profiles = {p1, p2}
    Founder = p1
    Posts = {k1}
    WorkPosts = {k1}
    Sent <- SomeBodies
    Periods = {i1, i2}
    Units = {u1}
    Referrers = {"r2", "r3"}
    Keys = {"k2", "k3"}
    OnDelete <- Rules
    KeyOf <- RefersBy
    Rows = {d1, d2}
    Codes = {i1, i2}
    Days = {1, 2, 3}
    Created <- CreateBodies
    Sets <- SetBodies
    Keepers = {c1, c2}
    Files = {d1}
    Agents = {c1, c2}
    PoolMax = 2
    Invited = {i1, i2}
    Attendees = {c1, c2}
    LoginLimit = 1
    MaxCount = 4
    Residents = {i1, i2}
    Clusters = {u1}
    NoCluster = NoCluster
    Stewards = {c1, c2}
    HeadBodies <- SomeHeadBodies
    Benefits = {i1, i2}
    Fulfilments = {"not_fulfilled", "fulfilled"}
    Tenders = {c1, c2}
    MaxFollowups = 2
    Me = me
    Other = other
    DivisionIds = {"sekbend", "adm"}
    NoDivision = "none"
    RoleSets <- SomeRoleSets
SYMMETRY RecordsSymmetry
SPECIFICATION RecordsSpec
INVARIANTS RecordsTypeOK NoStandstill StoreAndLogHaveRows NoNumberIsMissing OnlyARaceOverdraws EffectAtMostOnce AnswerIsTheRuns IfMatchMeansAsOpened EveryRevisionCounts OnlyARaceFollowsUpTwice OneLiveTokenPerFamily InactiveMeansNoSession OnlyARaceKeepsAnInactivePic MovesHaveAPic OnlyFailuresStayCounted RightsHoldAtTheWrite
PROPERTIES KeepsTheBook SubmittedRequestsStay OnlyARaceOrAMoveMakesTwoHeads TheBinKeepsAPartnersRows StockFollowsMovements AloneLeavesTheSum AloneLeavesTheTotals OnlyTheBinRestores OnlyARaceLeavesTheSteps AloneReplacesTheList EndedSessionsStayEnded OnlyARaceEndsTheLastOwner OnlyARaceEndsTheActivePeriod OnlyARaceInvertsAPeriod OnlyARaceEmptiesReferences
CHECK_DEADLOCK FALSE
