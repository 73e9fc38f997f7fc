------------------------------- MODULE DemoSeeds -------------------------------
(***************************************************************************)
(* What a boot plants in tables nobody has filled yet: the two accounts    *)
(* (main.go), the board (forum_web.go), the achievements                   *)
(* (rewardsmetrics_web.go), ranks, shop and news (demoseed_web.go) and the *)
(* tracker's torrents with their accounting (demoseedtracker_web.go).      *)
(*                                                                         *)
(* A seeder counts the rows of one table and, when there is none, runs its *)
(* statements one by one; each may fail, and then some seeders stop and    *)
(* some skip a few or none.  Two of them ask for every row by its name     *)
(* instead.  A row here is its table and its key; the tables of plugins    *)
(* are known from these statements only.  The widgets' two seeders, which  *)
(* keep a marker, are in Widgets.                                          *)
(***************************************************************************)
EXTENDS Naturals, Sequences, FiniteSets

CONSTANTS
    Planters,       \* the processes that boot and seed
    Picks,          \* the releases torrents are made from, a sequence
    Shares,         \* demoTrackerMembers: of each member, the first torrent and how many
    Trimmed,        \* the tables an operator edits here
    MaxEdits,       \* bound: edits by operators
    MaxPlantMishaps \* bound: statements that fail and processes that end

ASSUME DemoSeedsAssumption ==
    /\ Picks \in Seq(STRING)
    /\ Shares \in Seq([from : Nat, take : Nat])
    /\ MaxEdits \in Nat /\ MaxPlantMishaps \in Nat

VARIABLES
    planted,        \* the rows: triples of a table, a key and a number among equals
    planting,       \* of each process: down, at a statement of a seeder, or up
    uprooted,       \* history: rows an operator took from a table that kept others
    plantEdits, plantMishaps

plantVars == <<planted, planting, uprooted, plantEdits, plantMishaps>>

In(t) == {row \in planted : row[1] = t}
Has(t, key) == \E row \in planted : row[1] = t /\ row[2] = key

-----------------------------------------------------------------------------
(* The statements.  Each puts rows of one table if the rows it needs are   *)
(* there, and says where its seeder goes on when it fails or they are not. *)

Stmt(t, keys, needs, onError) == [table |-> t, keys |-> keys, needs |-> needs, onError |-> onError]
Stop == 0       \* no statement: the seeder returns

DemoUsers == <<"alice", "bob">>
SeedDemoUsers == [i \in 1..2 |-> Stmt("users", {DemoUsers[i]}, {}, i + 1)]

\* The closure `seed` leaves its own thread when a statement fails; the next is tried.
SeedThread(cat, next) == <<
    Stmt("threads", {cat}, {<<"categories", cat>>}, next),
    Stmt("posts", {cat}, {<<"threads", cat>>}, next),
    Stmt("replies", {cat}, {<<"posts", cat>>}, next),
    Stmt("counted", {cat}, {<<"threads", cat>>}, next) >>
ForumSeed ==
    <<Stmt("categories", {"General", "Off Topic"}, {}, Stop),
      Stmt("none", {}, {<<"users", "alice">>, <<"users", "bob">>}, Stop)>>     \* categories only
    \o SeedThread("General", 7)
    \o SubSeq(SeedThread("Off Topic", Stop), 1, 2)

\* Mutant: the definition first, and what it pays after it.
DefinitionFirst(slug) == <<
    Stmt("achievements", {slug}, {}, Stop), Stmt("rewards", {slug}, {}, Stop), Stmt("payouts", {slug}, {}, Stop)>>
AchievementDef(slug) == <<
    Stmt("rewards", {slug}, {}, Stop),
    Stmt("payouts", {slug}, {<<"rewards", slug>>}, Stop),
    Stmt("achievements", {slug}, {}, Stop)>>
AchievementsSeed ==
    AchievementDef("first-post") \o AchievementDef("familiar-face") \o <<Stmt("texts", {"first-post"}, {}, Stop)>>

RanksSeed == <<Stmt("ranks", {"supporter", "patron"}, {}, Stop)>>
StoreSeed == <<
    Stmt("items", {"Supporter rank"}, {<<"ranks", "supporter">>}, 2),
    Stmt("items", {"Patron rank"}, {<<"ranks", "patron">>}, 3),
    Stmt("items", {"One invite"}, {}, 4),
    Stmt("items", {"Name effect", "Gold aura"}, {}, 5),
    Stmt("items", {"Legend flair"}, {}, Stop) >>
StoreCreditItems == <<Stmt("items", {"1.0 GB Uploaded"}, {}, 2), Stmt("items", {"10.0 GB Downloaded"}, {}, Stop)>>
CreditItems == UNION {StoreCreditItems[i].keys : i \in DOMAIN StoreCreditItems}
NewsSeed == <<Stmt("news", {"welcome-to-the-demo", "how-the-demo-data-works"}, {}, Stop)>>

\* Those who hold the torrents are the first accounts, whoever they are.
FirstAccounts(users) ==
    LET nth(n) == CHOOSE u \in users : Cardinality({v \in users : v[3] <= u[3]}) = n
    IN  [n \in 1..Cardinality(users) |-> nth(n)[2]]
Members == FirstAccounts(In("users"))

TrackerSeed == [i \in DOMAIN Picks |-> Stmt("torrents", {Picks[i]}, {}, i + 1)]
Uploader(i) == 1 + ((i - 1) % Len(Shares))    \* a torrent without one is not made

\* trackerStatsSeed goes through the torrents that were made, with the sizes of the picks.
TrackerStatsSeed(members, made) ==
    LET has == {mi \in (DOMAIN members \cap DOMAIN Shares) \X DOMAIN made :
                   Shares[mi[1]].from < mi[2] /\ mi[2] <= Shares[mi[1]].from + Shares[mi[1]].take}
        before(a, b) == a[1] < b[1] \/ (a[1] = b[1] /\ a[2] <= b[2])
        nth(n) == CHOOSE mi \in has : Cardinality({a \in has : before(a, mi)}) = n
    IN  <<Stmt("none", {}, {}, Stop)>>      \* the members are read
        \o [n \in 1..Cardinality(has) |->
               Stmt("stats", {<<members[nth(n)[1]], made[nth(n)[2]], Picks[nth(n)[2]]>>}, {}, n + 2)]
        \o <<Stmt("swarms", {"counted"}, {}, Stop)>>

\* demoSeed comes after what needs no plugin; the accounting after its torrents.
SeedOrder == <<"users", "categories", "achievements", "ranks", "items", "credits", "news", "torrents", "stats">>
ByName == {"users", "credits"}
Scripts ==
    <<SeedDemoUsers, ForumSeed, AchievementsSeed, RanksSeed, StoreSeed, StoreCreditItems, NewsSeed, TrackerSeed>>
Statements(where) == IF where.seeder = 9 THEN TrackerStatsSeed(Members, where.made) ELSE Scripts[where.seeder]

-----------------------------------------------------------------------------
(* A boot.                                                                 *)

Keyless == {"items", "threads", "posts", "replies"}
Now(h) == Statements(planting[h])[planting[h].stmt]
NextNumber(t) == 1 + Cardinality({n \in 1..9 : \E row \in In(t) : row[3] >= n})

Put(stmt, byName) ==
    planted \cup {<<stmt.table, key, NextNumber(stmt.table)>> :
        key \in {k \in stmt.keys : (byName \/ stmt.table \notin Keyless) => ~Has(stmt.table, k)}}

SeederFrom(i, made) ==
    IF i > Len(SeedOrder) THEN [at |-> "up", seeder |-> 0, stmt |-> 0, made |-> << >>]
    ELSE [at |-> "look", seeder |-> i, stmt |-> 0, made |-> made]
Goes(h, where) == planting' = [planting EXCEPT ![h] = where]
GoesOn(h, stmt, made) ==
    Goes(h, IF stmt \notin DOMAIN Statements(planting[h]) THEN SeederFrom(planting[h].seeder + 1, made)
            ELSE [planting[h] EXCEPT !.stmt = stmt, !.made = made])
PlantMishap == plantMishaps < MaxPlantMishaps /\ plantMishaps' = plantMishaps + 1
OperatorsRest == UNCHANGED <<uprooted, plantEdits>>

StartPlanting(h) ==
    /\ planting[h].at = "down"
    /\ Goes(h, SeederFrom(1, << >>))
    /\ OperatorsRest /\ UNCHANGED <<planted, plantMishaps>>

\* Nobody has filled the table the seeder owns; torrents are only made from releases.
Untouched(seeder) ==
    /\ SeedOrder[seeder] \in ByName \/ In(SeedOrder[seeder]) = {}
    /\ SeedOrder[seeder] = "torrents" => Picks # << >>

Look(h) ==
    LET p == planting[h] IN
    /\ p.at = "look"
    /\ IF (IF p.seeder = 9 THEN p.made # << >> ELSE Untouched(p.seeder))
       THEN Goes(h, [p EXCEPT !.at = "write", !.stmt = 1])
       ELSE Goes(h, SeederFrom(p.seeder + 1, << >>))
    /\ OperatorsRest /\ UNCHANGED <<planted, plantMishaps>>

Write(h) ==
    LET p == planting[h]
        stmt == Now(h)
        nobody == stmt.table = "torrents" /\ Uploader(p.stmt) \notin DOMAIN Members
    IN  /\ p.at = "write"
        /\ IF \A need \in stmt.needs : Has(need[1], need[2])
           THEN /\ planted' = IF nobody THEN planted ELSE Put(stmt, SeedOrder[p.seeder] \in ByName)
                /\ GoesOn(h, p.stmt + 1, IF stmt.table = "torrents" THEN Append(p.made, Picks[p.stmt]) ELSE p.made)
           ELSE GoesOn(h, stmt.onError, p.made) /\ UNCHANGED planted
        /\ OperatorsRest /\ UNCHANGED plantMishaps

\* The count cannot be read, or the statement fails.
PlantingFails(h) ==
    /\ \/ /\ planting[h].at = "look" /\ SeedOrder[planting[h].seeder] \notin ByName \cup {"stats"}
          /\ Goes(h, SeederFrom(planting[h].seeder + 1, << >>))
       \/ planting[h].at = "write" /\ GoesOn(h, Now(h).onError, planting[h].made)
    /\ PlantMishap
    /\ OperatorsRest /\ UNCHANGED planted

PlanterEnds(h) ==
    /\ planting[h].at # "down"
    /\ Goes(h, [at |-> "down", seeder |-> 0, stmt |-> 0, made |-> << >>])
    /\ PlantMishap
    /\ OperatorsRest /\ UNCHANGED planted

-----------------------------------------------------------------------------
(* Operators, on what is being served.  With a category go its threads.    *)

GoesWith(row) ==
    {row} \cup (IF row[1] = "categories"
                THEN {r \in planted : r[1] \in {"threads", "posts", "replies", "counted"} /\ r[2] = row[2]} ELSE {})

TakeOut(row) ==
    /\ row[1] \in Trimmed
    /\ planted' = planted \ GoesWith(row)
    /\ uprooted' = IF In(row[1]) = {row} THEN {gone \in uprooted : gone[1] # row[1]}
                   ELSE uprooted \cup {<<row[1], row[2]>>}

AddOwn(t) ==
    /\ planted' = planted \cup {<<t, "own", NextNumber(t)>>}
    /\ uprooted' = uprooted \ {<<t, "own">>}

Edit ==
    /\ \E h \in Planters : planting[h].at = "up"
    /\ plantEdits < MaxEdits /\ plantEdits' = plantEdits + 1
    /\ \/ \E row \in planted : TakeOut(row)
       \/ \E t \in Trimmed : AddOwn(t)
    /\ UNCHANGED <<planting, plantMishaps>>

-----------------------------------------------------------------------------
PlantInit ==
    /\ planted = {}
    /\ planting = [h \in Planters |-> [at |-> "down", seeder |-> 0, stmt |-> 0, made |-> << >>]]
    /\ uprooted = {} /\ plantEdits = 0 /\ plantMishaps = 0

PlantNext ==
    \/ \E h \in Planters : StartPlanting(h) \/ Look(h) \/ Write(h) \/ PlantingFails(h) \/ PlanterEnds(h)
    \/ Edit

PlantSpec == PlantInit /\ [][PlantNext]_plantVars

-----------------------------------------------------------------------------
PlantTypeOK ==
    /\ \A row \in planted : row[3] \in 1..9
    /\ \A h \in Planters : planting[h].at \in {"down", "look", "write", "up"}
    /\ plantEdits \in 0..MaxEdits /\ plantMishaps \in 0..MaxPlantMishaps

\* A row an operator took out, leaving others, is not planted again by a boot, whichever
\* statements failed before; the rows that are asked for by name are.
DeletedStaysDeleted ==
    [][\A row \in planted' \ planted :
          <<row[1], row[2]>> \in uprooted' => row[2] \in CreditItems]_plantVars

\* What the catalogue promises can be paid: wherever a boot broke off, an achievement has its
\* reward and the reward its payout.
Payable == \A row \in In("achievements") : Has("rewards", row[2]) /\ Has("payouts", row[2])
AchievementsPay == [][Payable']_plantVars

\* The seeders add what is missing and leave the rest to the operators.
SeedsKeepTheirWord == AchievementsPay /\ DeletedStaysDeleted

\* Checked by hand, and violated.  The accounting of a torrent goes by its own size: once one
\* could not be made, those after it have their neighbours' (demoseedtracker_web.go:259).
AccountedBySize == \A row \in In("stats") : row[2][2] = row[2][3]
\* What a boot left half planted, a later one completes (forum_web.go:46).
NothingHalfPlanted ==
    (\A h \in Planters : planting[h].at = "up") => \A row \in In("threads") : Has("posts", row[2])
\* A shop does not offer one thing twice (two processes that find it empty).
NoTwins == \A a, b \in In("items") : a[2] = b[2] => a = b
===============================================================================
