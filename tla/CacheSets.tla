------------------------------ MODULE CacheSets ------------------------------
(***************************************************************************)
(* One set of a Cache: finding, inserting and invalidating lines, and the  *)
(* replacement policies (round_robin, lru, lru_qbs, nru, mru, nmru, plru,  *)
(* srrip, srrip_qbs, random).  A set is [tag, up, bits, ptr, count]: the   *)
(* tag of each way, the ways in state SHARED_UPGRADING, and what the       *)
(* policy keeps.  With query-based selection (_qbs) a victim that a cache  *)
(* below holds is passed over, a few times.                                *)
(***************************************************************************)
EXTENDS Integers, Sequences, FiniteSets, FiniteSetsExt, SequencesExt

CONSTANTS
    Setups      \* [policy, assoc, attempts, max, does]: does, what else happens to lines

VARIABLES
    setup, set,
    recent,     \* what happened, where a property is about it: the tags in the order of their last use
    failed      \* an assertion of getReplacementIndex failed

vars == <<setup, set, recent, failed>>

NoTag == -1     \* ~0
NoWay == -1
Ways == 0..setup.assoc - 1
Tags == 0..2 * setup.assoc - 1

\* the policies that rank the ways: by recency, or by the predicted interval
Ranked == {"lru", "mru", "nmru"}
RripInsert == setup.max - 1

NewSet(u) ==
    LET ways == 0..u.assoc - 1
    IN  [tag   |-> [w \in ways |-> NoTag],
         up    |-> {},
         bits  |-> CASE u.policy \in Ranked -> [w \in ways |-> w]
                     [] u.policy = "srrip" -> [w \in ways |-> u.max - 1]
                     [] OTHER -> [w \in 0..7 |-> 0],
         ptr   |-> IF u.policy = "round_robin" THEN u.assoc - 1 ELSE 0,
         count |-> 0]

ValidReplacement_Any(s, w) == TRUE

\* isValidReplacement: not a line whose upgrade is on its way
ValidReplacement(s, w) == w \notin s.up

\* CacheSet::find, from the last way down
Find(s, tag) ==
    LET with == {w \in Ways : s.tag[w] = tag}
    IN  IF with = {} THEN NoWay ELSE Max(with)

-----------------------------------------------------------------------------
(* updateReplacementIndex: the way is in use *)

MoveToMRU(s, w) ==
    [s EXCEPT !.bits = [v \in Ways |-> CASE v = w -> 0
                                         [] s.bits[v] < s.bits[w] -> @[v] + 1
                                         [] OTHER -> @[v]]]

\* CacheSetNRU: the count is of the updates, not of the bits that are set
UpdateNRU(s, w) ==
    IF s.count + 1 = setup.assoc
    THEN [s EXCEPT !.bits = [v \in DOMAIN @ |-> 0], !.count = 0]
    ELSE [s EXCEPT !.bits[w] = 1, !.count = @ + 1]

\* The bits on the way from the root to each leaf of the tree: <<bit, direction>>
PathOf4 == <<{<<0, 0>>, <<1, 0>>}, {<<0, 0>>, <<1, 1>>}, {<<0, 1>>, <<2, 0>>}, {<<0, 1>>, <<2, 1>>}>>
PathOf8 ==
    <<{<<0, 0>>, <<1, 0>>, <<2, 0>>}, {<<0, 0>>, <<1, 0>>, <<2, 1>>},
      {<<0, 0>>, <<1, 1>>, <<3, 0>>}, {<<0, 0>>, <<1, 1>>, <<3, 1>>},
      {<<0, 1>>, <<4, 0>>, <<5, 0>>}, {<<0, 1>>, <<4, 0>>, <<5, 1>>},
      {<<0, 1>>, <<4, 1>>, <<6, 0>>}, {<<0, 1>>, <<4, 1>>, <<6, 1>>}>>
PathTo(w) == IF setup.assoc = 4 THEN PathOf4[w + 1] ELSE PathOf8[w + 1]

\* CacheSetPLRU: every bit on the path points to the other side
UpdatePLRU(s, w) ==
    [s EXCEPT !.bits = [b \in DOMAIN @ |->
        IF \E d \in {0, 1} : <<b, d>> \in PathTo(w) THEN CHOOSE d \in {0, 1} : <<b, 1 - d>> \in PathTo(w) ELSE @[b]]]

UpdateSRRIP(s, w) == [s EXCEPT !.bits[w] = IF @ > 0 THEN @ - 1 ELSE 0]

Update(s, w) ==
    CASE setup.policy \in Ranked  -> MoveToMRU(s, w)
      [] setup.policy = "nru"     -> UpdateNRU(s, w)
      [] setup.policy = "plru"    -> UpdatePLRU(s, w)
      [] setup.policy = "srrip"   -> UpdateSRRIP(s, w)
      [] OTHER -> s

-----------------------------------------------------------------------------
(* getReplacementIndex: the way, the set after it, and whether no assertion failed *)

Took(s, w, ok) == [way |-> w, set |-> s, ok |-> ok]
Failed(s) == Took(s, NoWay, FALSE)
Turn(w) == (w + 1) % setup.assoc

\* Ways in the order in which a pointer that starts at p reaches them
FromPtr(p) == [i \in 1..setup.assoc |-> (p + i - 1) % setup.assoc]
FirstOf(p, S) == FromPtr(p)[Min({i \in 1..setup.assoc : FromPtr(p)[i] \in S})]

\* The next way down is looked at for the line that is replaced at this one
RECURSIVE RoundRobin(_, _)
RoundRobin(s, tries) ==
    LET next == (s.ptr - 1) % setup.assoc
    IN  CASE tries = 0 -> Failed(s)
          [] ValidReplacement(s, next) -> Took([s EXCEPT !.ptr = next], s.ptr, TRUE)
          [] OTHER -> RoundRobin([s EXCEPT !.ptr = next], tries - 1)

\* The highest rank above zero, way 0 when there is none
LruWay(s) ==
    LET old == {w \in Ways : s.bits[w] > 0 /\ ValidReplacement(s, w)}
    IN  IF old = {} THEN 0 ELSE CHOOSE w \in old : \A v \in old : s.bits[v] <= s.bits[w]

RECURSIVE Lru(_, _, _)
Lru(s, attempt, below) ==
    LET w == LruWay(s)
    IN  IF attempt < setup.attempts - 1 /\ s.tag[w] \in below
        THEN Lru(MoveToMRU(s, w), attempt + 1, below)
        ELSE Took(MoveToMRU(s, w), w, TRUE)

\* the lowest rank
Mru(s) ==
    LET ok == {w \in Ways : ValidReplacement(s, w)}
        w == CHOOSE x \in ok : \A v \in ok : s.bits[x] <= s.bits[v]
    IN  IF ok = {} THEN Failed(s) ELSE Took(MoveToMRU(s, w), w, TRUE)

\* The pointer goes round until it finds one of the ways of S
ByPointer(s, S) ==
    LET w == FirstOf(s.ptr, S)
    IN  IF S = {} THEN Failed(s) ELSE Took(Update([s EXCEPT !.ptr = Turn(w)], w), w, TRUE)

Nmru(s) == ByPointer(s, {w \in Ways : s.bits[w] # 0 /\ ValidReplacement(s, w)})

Nru(s) ==
    LET ok == {w \in Ways : ValidReplacement(s, w)}
        zero == {w \in ok : s.bits[w] = 0}
    IN  ByPointer(s, IF zero # {} THEN zero ELSE ok)

\* The tree is followed without a look at the state of the line it leads to
Plru(s) ==
    LET w == CHOOSE x \in Ways : \A e \in PathTo(x) : s.bits[e[1]] = e[2]
    IN  Took(UpdatePLRU(s, w), w, ValidReplacement(s, w))

Far(s, w) == s.bits[w] >= setup.max

\* The scan of CacheSetSRRIP: round j, step i.  After a victim was passed over the
\* pointer stays for one more step.
RECURSIVE Srrip(_, _, _, _, _)
Srrip(s, j, i, attempt, below) ==
    LET aged == [s EXCEPT !.bits = [w \in Ways |-> IF Far(s, w) THEN @[w] ELSE @[w] + 1]]
        w == s.ptr
    IN  CASE i = setup.assoc /\ j = setup.max -> Failed(aged)
          [] i = setup.assoc /\ j < setup.max -> Srrip(aged, j + 1, 0, attempt, below)
          [] i < setup.assoc /\ ~Far(s, w) -> Srrip([s EXCEPT !.ptr = Turn(w)], j, i + 1, attempt, below)
          [] i < setup.assoc /\ Far(s, w) /\ attempt < setup.attempts - 1 /\ s.tag[w] \in below ->
                Srrip([s EXCEPT !.bits[w] = 0], j, i + 1, attempt + 1, below)
          [] OTHER ->
                Took([s EXCEPT !.ptr = Turn(w), !.bits[w] = RripInsert], w, ValidReplacement(s, w))

\* every policy but round_robin takes a way that is free first
FirstFree(s) ==
    LET free == {w \in Ways : s.tag[w] = NoTag}
    IN  IF free = {} THEN NoWay ELSE Min(free)

TakeFree(s, w) ==
    Took(IF setup.policy = "srrip" THEN [s EXCEPT !.bits[w] = RripInsert] ELSE Update(s, w), w, TRUE)

\* CacheSetRandom tries again until it may replace the way it drew
Random(s) ==
    LET ok == {w \in Ways : ValidReplacement(s, w)}
    IN  IF ok = {} THEN {Failed(s)} ELSE {Took(s, w, TRUE) : w \in ok}

Replacements(s, below) ==
    LET free == FirstFree(s)
    IN  CASE setup.policy = "round_robin" -> {RoundRobin(s, setup.assoc)}
          [] setup.policy # "round_robin" /\ free # NoWay -> {TakeFree(s, free)}
          [] setup.policy = "lru"    /\ free = NoWay -> {Lru(s, 0, below)}
          [] setup.policy = "mru"    /\ free = NoWay -> {Mru(s)}
          [] setup.policy = "nmru"   /\ free = NoWay -> {Nmru(s)}
          [] setup.policy = "nru"    /\ free = NoWay -> {Nru(s)}
          [] setup.policy = "plru"   /\ free = NoWay -> {Plru(s)}
          [] setup.policy = "srrip"  /\ free = NoWay -> {Srrip(s, 0, 0, 0, below)}
          [] setup.policy = "random" /\ free = NoWay -> Random(s)

-----------------------------------------------------------------------------
(* The set in a cache *)

Held == {set.tag[w] : w \in Ways} \ {NoTag}
Without(order, tag) == SelectSeq(order, LAMBDA x : x # tag)
Used(tag, out) ==
    IF setup.policy \in {"lru", "nmru", "plru", "round_robin"} /\ setup.attempts = 1
    THEN <<tag>> \o Without(Without(recent, out), tag)
    ELSE <<>>
Below == IF setup.attempts > 1 THEN SUBSET Held ELSE {{}}

Init ==
    /\ setup \in Setups
    /\ set = NewSet(setup)
    /\ recent = <<>>
    /\ failed = FALSE

\* accessSingleLine with update_replacement, of a line that is there
Access(tag) ==
    /\ ~failed /\ Find(set, tag) # NoWay
    /\ set' = Update(set, Find(set, tag))
    /\ recent' = IF setup.policy = "round_robin" THEN recent ELSE Used(tag, tag)
    /\ UNCHANGED <<setup, failed>>

\* A line that is not in the set; those lines are all alike, so they are named after
\* the way they come to
Fresh(w) == Min({2 * w, 2 * w + 1} \ {set.tag[w]})

\* insertSingleLine, after a miss
Insert ==
    /\ ~failed
    /\ \E below \in Below : \E took \in Replacements(set, below) :
          IF took.ok
          THEN /\ set' = [took.set EXCEPT !.tag[took.way] = Fresh(took.way), !.up = @ \ {took.way}]
               /\ recent' = Used(Fresh(took.way), set.tag[took.way])
               /\ failed' = FALSE
          ELSE /\ failed' = TRUE
               /\ UNCHANGED <<set, recent>>
    /\ UNCHANGED setup

\* invalidateSingleLine: the policy is not told
Invalidate(tag) ==
    LET w == Find(set, tag)
    IN  /\ ~failed /\ "invalidate" \in setup.does /\ w # NoWay
        /\ set' = [set EXCEPT !.tag[w] = NoTag, !.up = @ \ {w}]
        /\ recent' = Without(recent, tag)
        /\ UNCHANGED <<setup, failed>>

\* A write to a shared line asks the directory, which answers later
Upgrade(tag) ==
    LET w == Find(set, tag)
    IN  /\ ~failed /\ "upgrade" \in setup.does /\ w # NoWay
        /\ set' = [set EXCEPT !.up = IF w \in @ THEN @ \ {w} ELSE @ \cup {w}]
        /\ UNCHANGED <<setup, recent, failed>>

Next == Insert \/ \E tag \in Tags : Access(tag) \/ Invalidate(tag) \/ Upgrade(tag)

Spec == Init /\ [][Next]_vars

-----------------------------------------------------------------------------
(* Properties *)

\* The ranks of lru, mru and nmru stay a permutation of the ways: each of them is an
\* index of CacheSetInfoLRU::m_access and none is used twice, whatever is
\* invalidated, replaced or being upgraded.
RanksAreAPermutation ==
    setup.policy \in Ranked => {set.bits[w] : w \in Ways} = Ways

IsInsert == \E w \in Ways : set'.tag[w] \notin Held \cup {NoTag}
Victims == {w \in Ways : set.tag[w] # NoTag /\ set'.tag[w] # set.tag[w]}
NewestUse == recent[1]

\* An insertion replaces no valid line while another way is free (round_robin does).
FreeWaysFirstStep ==
    IsInsert /\ setup.policy # "round_robin" /\ Victims # {} => \A w \in Ways : set.tag[w] # NoTag

\* lru (without queries) replaces the line whose last use lies furthest back among
\* those it may replace, not counting the latest one; round_robin the line that
\* has been in the set for longest.
VictimIsOldestStep ==
    IsInsert /\ ((setup.policy = "lru" /\ setup.attempts = 1) \/ (setup.policy = "round_robin" /\ "upgrade" \notin setup.does)) =>
        LET may == SelectSeq(recent, LAMBDA t : Find(set, t) \notin set.up /\ t # NewestUse)
        IN  may # <<>> => \A w \in Victims : set.tag[w] = Last(may)

\* A line whose upgrade is on its way is not replaced while the set has two lines that
\* can be: the answer of the directory would find no line to upgrade.
UpgradingIsKeptStep ==
    IsInsert /\ setup.policy # "round_robin" /\ Cardinality(Ways \ set.up) >= 2 =>
        Victims \cap set.up = {}

\* With two lines that may be replaced every policy finds one; plru and srrip, which
\* do not look for it, when no line is being upgraded, and srrip with one query.
VictimIsFound ==
    failed => \/ Cardinality(Ways \ set.up) < 2
              \/ setup.policy \in {"plru", "srrip"} /\ set.up # {}
              \/ setup.policy = "srrip" /\ setup.attempts > 2

\* plru and nmru never replace the line that was used last.
NewestIsKeptStep ==
    IsInsert /\ setup.policy \in {"plru", "nmru"} => \A w \in Victims : set.tag[w] # NewestUse

\* srrip (without queries) replaces a line that no other was predicted to outlast.
FarthestIsReplacedStep ==
    IsInsert /\ setup.policy = "srrip" /\ setup.attempts = 1 =>
        \A w \in Victims : \A v \in Ways : set.bits[v] <= set.bits[w]
=============================================================================
