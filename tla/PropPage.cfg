SPECIFICATION PageSpec
CONSTANTS
    MaxFiles = 1
    StreamLists <- MCStreamLists
    FileLayouts <- MCLayouts
    Columns = {2, 4}
    PerPage = 4
    None = None
INVARIANTS ContextsOwned SelectionOnFragments
PROPERTIES SortShown
