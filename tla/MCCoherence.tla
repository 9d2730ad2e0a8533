----------------------------- MODULE MCCoherence -----------------------------
(* Small machines for Coherence. *)
EXTENDS Coherence

\* cores 1 and 2 share LLC 0, core 3 has LLC 1 and core 4 has LLC 2
Machine == <<0, 0, 1, 2>>

Config(variant, hw, does) == [variant |-> variant, hw |-> hw, does |-> does]
R == {"read"}
W == {"write"}

\* a shared LLC against another; three LLCs, two of which write; MSI; a forwarder
\* that meets writes, and one among three LLCs; atomic pairs; prefetches
FullMap == {
    Config("MESI", 3, <<W, R, R \cup W, {}>>),
    Config("MESI", 3, <<W, {}, R, W>>),
    Config("MSI", 3, <<R \cup W, R, W, {}>>),
    Config("MESIF", 3, <<R \cup W, {}, R, {}>>),
    Config("MESIF", 3, <<R, {}, R, R>>),
    Config("MESI", 3, <<{"rmw"}, {"rmw", "write"}, {"rmw"}, {}>>),
    Config("MESI", 3, <<{"prefetch", "write"}, R, W, {}>>) }

\* no atomic pairs: the set lock is always free again
SmallMachine == <<0, 0, 1>>
Fair == { Config("MESI", 3, <<W, R, W>>) }

=============================================================================
