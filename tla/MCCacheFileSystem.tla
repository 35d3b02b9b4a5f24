------------------------- MODULE MCCacheFileSystem -------------------------
(* CacheFileSystem for TLC: two threads, one of which also writes.          *)
EXTENDS CacheFileSystem

Caching == [enable_metadata_cache |-> TRUE, enable_glob_cache |-> TRUE,
            enable_file_handle_cache |-> TRUE, clear_cache_on_write |-> FALSE,
            enable_cache_validation |-> FALSE, excluded |-> FALSE,
            reader |-> "cached", toggling |-> FALSE]

\* All caches, and every open clears; validated blocks; an excluded file with
\* only its metadata cached; the metadata cache turned on and off.
MCConfigs == {[Caching EXCEPT !.clear_cache_on_write = TRUE],
              [Caching EXCEPT !.enable_cache_validation = TRUE,
                              !.enable_glob_cache = FALSE],
              [Caching EXCEPT !.excluded = TRUE, !.enable_glob_cache = FALSE,
                              !.enable_file_handle_cache = FALSE],
              [Caching EXCEPT !.toggling = TRUE, !.reader = "noop",
                              !.enable_file_handle_cache = FALSE]}
============================================================================
