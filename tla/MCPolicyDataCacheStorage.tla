---------------------- MODULE MCPolicyDataCacheStorage ----------------------
(* PolicyDataCacheStorage on small instances. *)
EXTENDS PolicyDataCacheStorage, TLC

\* Chunks of one, two and three units.
Bytes == 10 :> 1 @@ 11 :> 1 @@ 12 :> 2 @@ 20 :> 1 @@ 21 :> 3

Global(name) ==
  [max_bytes |-> 4, timeout_millisec |-> 0, default_policy |-> name, per_file_scope |-> FALSE,
   file_policies |-> <<>>]

Entry(pattern, name, unit, size) ==
  [pattern |-> pattern, policy |-> name, unit |-> unit, size |-> size]

\* The four policies on one budget; file 1 and the rest on a budget each, in
\* bytes, in percent, or in equal shares; no budget; a timeout; and specifications
\* that the constructor refuses.
AllSettings ==
  {Global(name) : name \in Policies} \cup
  {[Global("lru") EXCEPT !.per_file_scope = TRUE, !.max_bytes = max, !.file_policies = entries] :
     max \in {4, 5},
     entries \in {<<Entry({1}, "clock", "bytes", 3)>>,
                  <<Entry({1}, "mru", "percent", 75)>>,
                  <<Entry({1}, "fifo", "none", 0)>>,
                  <<Entry({1}, "lru", "bytes", 3), Entry({1, 2}, "clock", "none", 0)>>,
                  <<Entry({1}, "lru", "bytes", 3), Entry({2}, "lru", "bytes", 3)>>,
                  <<Entry({1}, "lru", "percent", 10)>>}} \cup
  {[Global("lru") EXCEPT !.max_bytes = 0], [Global("clock") EXCEPT !.timeout_millisec = 1]}
=============================================================================
