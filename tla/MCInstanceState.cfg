CONSTANTS
    t1 = t1
    t2 = t2
    Threads = {t1, t2}
    FileSystems = {"http", "azure"}
    Loaded = {"http"}
    Directories = {"d1", "d2"}
    DirectoryLists <- MCDirectoryLists
    DefaultDir = "d1"
    Scenarios <- MCScenarios
    None = None
SPECIFICATION Spec
INVARIANTS
    ReaderMatchesConfig
    
    StaleOnlyAfterSet
