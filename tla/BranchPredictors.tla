-------------------------- MODULE BranchPredictors --------------------------
(***************************************************************************)
(* PentiumMBranchPredictor: a global predictor indexed with the path that  *)
(* led to the branch, a loop predictor with a branch target buffer, and a  *)
(* bimodal table, one of which predicts a branch and all of which may be   *)
(* updated with its outcome.  The program runs a loop again and again,     *)
(* with a branch that does anything between two runs of the loop.          *)
(***************************************************************************)
EXTENDS Integers, Sequences, Bitwise

CONSTANTS
    LoopIp, OtherIp,  \* the addresses of the two branches (without the 4 bits of the offset)
    PirBits,          \* width of the path history
    GlobalWays, BtbWays,
    LoopWays,         \* a set: the associativities of the loop predictor
    Lengths,          \* how often the loop may be taken in a row
    MaxBranches

VARIABLES ways, p, loop, n

vars == <<ways, p, loop, n>>

Bit(b) == IF b THEN 1 ELSE 0

-----------------------------------------------------------------------------
(* SaturatingPredictor of w bits *)

Predict(ctr) == ctr >= 0
Reset(w, taken) == IF taken THEN 2^(w - 1) - 1 ELSE -(2^(w - 1))
Count(w, ctr, taken) ==
    IF taken THEN (IF ctr = 2^(w - 1) - 1 THEN ctr ELSE ctr + 1)
    ELSE (IF ctr = -(2^(w - 1)) THEN ctr ELSE ctr - 1)

-----------------------------------------------------------------------------
(* A set of a table: all branches of the model have the same index, so     *)
(* each table is one set, a sequence of ways with their last use in lru.   *)

Hits(set, tag) == {w \in DOMAIN set : set[w].valid /\ set[w].tag = tag}
First(S) == CHOOSE w \in S : \A v \in S : w <= v

Victim(set) == First({w \in DOMAIN set : \A v \in DOMAIN set : set[w].lru <= set[v].lru})

\* GlobalPredictor::gen_index_tag, within the one set
GlobalTag(ip, pir) == ip ^^ pir

GlobalLookup(ip) ==
    LET hits == Hits(p.global, GlobalTag(ip, p.pir))
    IN  [hit |-> hits # {}, prediction |-> hits # {} /\ Predict(p.global[First(hits)].ctr)]

GlobalUpdate_Allocates(ip, actual) ==
    LET tag == GlobalTag(ip, p.pir)
    IN  [p.global EXCEPT ![Victim(p.global)] =
            [valid |-> TRUE, tag |-> tag, ctr |-> Reset(2, actual), lru |-> p.globalUse]]

GlobalUpdate(ip, actual) ==
    LET tag == GlobalTag(ip, p.pir)
        hits == Hits(p.global, tag)
    IN  IF hits # {}
        THEN [p.global EXCEPT ![First(hits)].ctr = Count(2, @, actual), ![First(hits)].lru = p.globalUse]
        ELSE [p.global EXCEPT ![Victim(p.global)] =
                 [valid |-> TRUE, tag |-> tag, ctr |-> Reset(2, actual), lru |-> p.globalUse]]

GlobalEvict(ip) ==
    LET hits == Hits(p.global, GlobalTag(ip, p.pir))
    IN  IF hits = {} THEN p.global ELSE [p.global EXCEPT ![First(hits)].valid = FALSE]

\* PentiumMBranchTargetBuffer: tags only, all of them 0 in the beginning
BtbHit(ip) == Hits(p.btb, ip) # {}
BtbUpdate(ip) ==
    LET hits == Hits(p.btb, ip)
        w == IF hits # {} THEN First(hits) ELSE Victim(p.btb)
    IN  [p.btb EXCEPT ![w].tag = ip, ![w].lru = p.btbUse]

-----------------------------------------------------------------------------
(* LoopBranchPredictor *)

\* An entry predicts its direction until its count is at the limit.
LoopPrediction(e) == Predict(e.ctr) # (e.count = e.limit)

LoopHits(ip) == {w \in Hits(p.lpb, ip) : p.lpb[w].enabled}

LoopLookup(ip) ==
    [hit |-> LoopHits(ip) # {}, prediction |-> LoopHits(ip) # {} /\ LoopPrediction(p.lpb[First(LoopHits(ip))])]

\* The next count, limit and enabled bit when the direction stays
SameDirection(e, actual) ==
    IF LoopPrediction(e) = actual
    THEN [e EXCEPT !.count = IF e.count = e.limit THEN 0 ELSE @ + 1]
    ELSE IF e.count < e.limit THEN [e EXCEPT !.count = 0, !.limit = e.count]
    ELSE [e EXCEPT !.count = @ + 1, !.limit = e.count + 1, !.enabled = FALSE]

LoopStep(e, actual) ==
    LET q == IF e.previous = actual /\ actual # Predict(e.ctr)
             THEN [e EXCEPT !.count = 1, !.limit = 1, !.ctr = Count(1, @, actual), !.enabled = FALSE]
             ELSE IF e.previous # actual /\ actual # Predict(e.ctr) /\ ~e.enabled
             THEN [e EXCEPT !.enabled = TRUE, !.count = 0]
             ELSE SameDirection(e, actual)
    IN  [q EXCEPT !.previous = actual]

\* A new entry keeps the enabled bit of the one that it replaces.
LoopUpdate(ip, actual, use) ==
    LET hits == Hits(p.lpb, ip) IN
    IF hits # {}
    THEN [p.lpb EXCEPT ![First(hits)] = [LoopStep(@, actual) EXCEPT !.lru = use]]
    ELSE [p.lpb EXCEPT ![Victim(p.lpb)] =
             [@ EXCEPT !.tag = ip, !.ctr = Reset(1, actual), !.previous = actual, !.lru = use,
                       !.count = 1, !.limit = 1]]

-----------------------------------------------------------------------------
(* PentiumMBranchPredictor *)

UpdatePir(ip, actual) == IF actual THEN ((p.pir * 4) ^^ ip) % 2^PirBits ELSE p.pir

\* predict(): the global predictor, else the loop predictor, else the bimodal table
Prediction(ip) ==
    IF GlobalLookup(ip).hit THEN GlobalLookup(ip).prediction
    ELSE IF LoopLookup(ip).hit /\ BtbHit(ip) THEN LoopLookup(ip).prediction
    ELSE Predict(p.bimodal[ip])

\* predict() and update() of a branch, as accessBranchPredictor calls them
Branch(ip, actual) ==
    LET predicted == Prediction(ip)
        gpHit == GlobalLookup(ip).hit
        lpbHit == LoopLookup(ip).hit /\ BtbHit(ip)
        othersHit == lpbHit \/ Predict(p.bimodal[ip]) = actual
        touched == IF LoopLookup(ip).hit THEN 1 ELSE 0
    IN  [global |-> IF gpHit
                    THEN IF predicted # actual /\ othersHit THEN GlobalEvict(ip) ELSE GlobalUpdate(ip, actual)
                    ELSE IF predicted # actual /\ ~othersHit THEN GlobalUpdate(ip, actual) ELSE p.global,
         globalUse |-> IF (gpHit /\ ~(predicted # actual /\ othersHit)) \/ (~gpHit /\ predicted # actual /\ ~othersHit)
                       THEN p.globalUse + 1 ELSE p.globalUse,
         btb |-> BtbUpdate(ip),
         btbUse |-> p.btbUse + 1,
         lpb |-> LoopUpdate(ip, actual, p.lpbUse + touched),
         lpbUse |-> p.lpbUse + touched + 1,
         bimodal |-> IF gpHit \/ lpbHit THEN p.bimodal ELSE [p.bimodal EXCEPT ![ip] = Count(2, @, actual)],
         pir |-> UpdatePir(ip, actual)]

-----------------------------------------------------------------------------
(* The program *)

\* One execution of the loop branch: taken until pos reaches len, in direction dir.
LoopBranch ==
    /\ n < MaxBranches
    /\ LET actual == IF loop.pos < loop.len THEN loop.dir ELSE ~loop.dir IN
       /\ p' = Branch(LoopIp, actual)
       /\ IF loop.pos < loop.len THEN loop' = [loop EXCEPT !.pos = @ + 1]
          ELSE \E len \in Lengths :
                 loop' = [loop EXCEPT !.pos = 0, !.len = len, !.other = FALSE, !.same = IF len = loop.len THEN @ + 1 ELSE 0]
    /\ n' = n + 1
    /\ UNCHANGED ways

\* The other branch, between two runs of the loop; it may take the place of the loop's entry.
OtherBranch(actual) ==
    /\ n < MaxBranches /\ loop.pos = 0 /\ ~loop.other
    /\ p' = Branch(OtherIp, actual)
    /\ loop' = [loop EXCEPT !.other = TRUE, !.same = IF Hits(p'.lpb, LoopIp) = {} THEN 0 ELSE @]
    /\ n' = n + 1
    /\ UNCHANGED ways

Empty(k, e) == [w \in 1..k |-> e]

Init ==
    /\ ways \in LoopWays
    /\ p = [global |-> Empty(GlobalWays, [valid |-> FALSE, tag |-> 0, ctr |-> 0, lru |-> 0]), globalUse |-> 0,
            btb |-> Empty(BtbWays, [valid |-> TRUE, tag |-> 0, lru |-> 0]), btbUse |-> 0,
            lpb |-> Empty(ways, [valid |-> TRUE, tag |-> 0, previous |-> FALSE, enabled |-> FALSE,
                                 ctr |-> 0, lru |-> 0, count |-> 0, limit |-> 0]), lpbUse |-> 0,
            bimodal |-> [ip \in {LoopIp, OtherIp} |-> Reset(2, FALSE)], pir |-> 0]
    /\ \E len \in Lengths, dir \in BOOLEAN : loop = [len |-> len, pos |-> 0, dir |-> dir, same |-> 0, other |-> FALSE]
    /\ n = 0

Next == LoopBranch \/ \E actual \in BOOLEAN : OtherBranch(actual)

-----------------------------------------------------------------------------
(* The loop predictor learns a loop: once it has seen a number of          *)
(* iterations once, with the exit, it has an enabled entry that            *)
(* foresees every iteration and the exit, whichever direction it saw       *)
(* first and whatever entry it took over.                                  *)
LoopLearned ==
    loop.same >= 1 =>
        /\ LoopLookup(LoopIp).hit
        /\ LoopLookup(LoopIp).prediction = (IF loop.pos < loop.len THEN loop.dir ELSE ~loop.dir)

(* A branch has one entry in a table: the lookups, which take the first    *)
(* match, never see one that an update has passed over.                    *)
OneEntryPerTag ==
    \A v, w \in DOMAIN p.global : v # w /\ p.global[v].valid /\ p.global[w].valid => p.global[v].tag # p.global[w].tag

(* Once a set of the branch target buffer has seen two branches, the one   *)
(* that was used last stays: what is replaced is the least recently used.  *)
RecentBranchKept ==
    \A w \in DOMAIN p.btb : (p.btb[w].lru + 1 = p.btbUse /\ p.btb[w].lru > 0) => Victim(p.btb) # w
=============================================================================
