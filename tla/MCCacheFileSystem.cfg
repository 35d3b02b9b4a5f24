CONSTANTS
    t1 = t1
    t2 = t2
    Threads = {t1, t2}
    Writers = {t1}
    MaxVersion = 1
    Configs <- MCConfigs
    None = None
SPECIFICATION Spec
INVARIANTS
    CacheAlive
    
    
    
