SPECIFICATION Spec
CONSTANTS
    Tags = {1, 2}
    ActiveTags = {1}
    None = None
    Error = Error
    MaxPage = 3
    MaxPerPage = 2
    DefaultPage = 1
    DefaultPerPage = 2
    AvailableSort = {"createdAt", "tag"}
    Queries <- MCQueries
    Seeds <- MCSeeds
    MaxDocs = 4
    MaxWrites = 2
INVARIANTS SortHonoured
CHECK_DEADLOCK FALSE
