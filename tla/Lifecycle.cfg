SPECIFICATION FairSpec
CONSTANTS
    Topics = {orders, invoices}
    Types = {created}
    Versions <- SomeVersions
    MaxInt = 1
    Handlers = {h1, h2, h3}
    NoHandler = NoHandler
    Malformed = Malformed
    Runs = {r1, r2}
    NoRun = NoRun
INVARIANTS TypeOK AcceptedServed RunOwnsClient
PROPERTY RunReleases
CHECK_DEADLOCK FALSE
