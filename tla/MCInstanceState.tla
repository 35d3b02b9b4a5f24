-------------------------- MODULE MCInstanceState --------------------------
(* InstanceState for TLC: clears while the type and the directories are set; *)
(* two threads of a query while the profile type is; a clear while the type  *)
(* and the metadata cache are set and a file system is wrapped; the other    *)
(* caches switched on and off and files excluded; the remaining settings.    *)
EXTENDS InstanceState

CONSTANTS t1, t2

MCDirectoryLists == {<< >>, <<"d1">>, <<"d2">>, <<"d1", "d2">>}

MCScenarios == {
    [settings |-> {"cache_type", "directories"}, threads |-> {t1}, clears |-> 2, hash |-> 3],
    [settings |-> {"profile_type"}, threads |-> {t1, t2}, clears |-> 1, hash |-> 0],
    [settings |-> {"cache_type", "metadata", "wrap"}, threads |-> {t1}, clears |-> 1, hash |-> 0],
    [settings |-> {"file_handle", "glob", "exclusion"}, threads |-> {t1}, clears |-> 0, hash |-> 0],
    [settings |-> {"min_disk_bytes", "unchecked"}, threads |-> {t1}, clears |-> 0, hash |-> 0]}
============================================================================
