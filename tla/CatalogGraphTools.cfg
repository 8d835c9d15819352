\* Five events and any number of saves, at any of two times: a proposal can be
\* proposed, approved and applied, and then approved and applied again.
SPECIFICATION Spec
CONSTANTS
    x = x  work = work  other = other  c1 = c1  c2 = c2  p1 = p1
    None = None
    Ids = {x}
    Domains = {work, other}
    Catalog = work
    Payloads = {v}
    Contents = {c1, c2}
    DomainOf <- InDomains
    Derived <- DerivedIds
    Proposals = {p1}
    Runs = {run}
    MaxTime = 2
    MaxLog = 5
SYMMETRY Interchangeable
INVARIANTS
    OneOpenRow
    LogTellsStatus
    EdgesWereApproved
PROPERTY
    HistoryIsKept
CHECK_DEADLOCK FALSE
