CONSTANTS
    c1 = c1
    c2 = c2
    d1 = d1
    i1 = i1
    None = None
    Nobody = Nobody
    Missing = Missing
    Clients = {}
    Clerks = {}
    Treasurers = {c1, c2}
    Editors = {}
    Documents = {d1}
    Series <- AllSeries
    SeriesOf <- TypeSeries
    Quantities = {}
    MaxStock = 0
    MaxEdits = 0
    Payments <- SomePayments
    Amount <- SomeAmounts
    Targets = {0, 2}
    Lines = {i1}
    Plans = {0}
SPECIFICATION LedgersSpec
INVARIANT PaidIsTheSum
CHECK_DEADLOCK FALSE
