-------------------------------- MODULE Widgets --------------------------------
(***************************************************************************)
(* Where the widgets are: storage/widgets.go, web/handlers/                *)
(* widgetsadmin_web.go, widgets_web.go, widgetpages.go, and the two        *)
(* seeders of demoseed_web.go that place some on a new site.               *)
(*                                                                         *)
(* A placement is a row of widget_placement: a widget in a region, its     *)
(* position, whether it is on and the pages it is for.  Operators edit one *)
(* placement at a time; a move reads the region, swaps two neighbours and  *)
(* numbers the region anew in one transaction.  A boot seeds once, by a    *)
(* marker.  Titles, settings and what a widget draws are left out.         *)
(***************************************************************************)
EXTENDS Naturals, Sequences, FiniteSets

CONSTANTS
    Arrangers,      \* the operators at /admin/widgets
    Hosts,          \* the processes that boot and seed
    Alphabet,       \* the widgets, a sequence in the order of their slugs
    Optional,       \* the widgets a plugin registers that may be switched off
    Regions,        \* the regions arranged here
    Viewed,         \* the paths of the site that are looked at
    Rules,          \* the rules operators write: sets of [no, paths]
    MaxPosition,    \* bound: the last position given
    MaxWidgetMishaps    \* bound: statements that fail and processes that end

ASSUME WidgetsAssumption ==
    /\ Alphabet \in Seq(STRING)
    /\ \A i, j \in DOMAIN Alphabet : Alphabet[i] = Alphabet[j] => i = j
    /\ Optional \subseteq {Alphabet[i] : i \in DOMAIN Alphabet}
    /\ MaxPosition \in Nat /\ MaxWidgetMishaps \in Nat

VARIABLES
    placements,     \* widget_placement: of each region, a function from slugs to rows
    seeded,         \* site_settings: the markers of the seeders
    offered,     \* the widgets the running plugins offer
    arranging,      \* of each operator: the edit between two statements
    seeding,        \* of each process: how far its boot is
    taken,          \* history: what an operator took out and nobody put back
    widgetMishaps

widgetVars == <<placements, seeded, offered, arranging, seeding, taken, widgetMishaps>>

Slugs == {Alphabet[i] : i \in DOMAIN Alphabet}
EveryPage == {}
NotArranging == [at |-> "idle"]
PlacementAt(pos) == [position |-> pos, enabled |-> TRUE, pages |-> EveryPage]

-----------------------------------------------------------------------------
(* Reading a region.                                                       *)

Alphabetical(a, b) ==
    \E i, j \in DOMAIN Alphabet : i < j /\ Alphabet[i] = a /\ Alphabet[j] = b

\* ORDER BY position, slug
Earlier(rows, a, b) ==
    \/ rows[a].position < rows[b].position
    \/ rows[a].position = rows[b].position /\ Alphabetical(a, b)

ReadPlacements(rows) ==
    [i \in 1..Cardinality(DOMAIN rows) |->
        CHOOSE s \in DOMAIN rows : Cardinality({t \in DOMAIN rows : Earlier(rows, t, s)}) = i - 1]

\* Excludes win; with excludes only, everything else is included.
PagesMatch(rule, path) ==
    /\ \A line \in rule : line.no => path \notin line.paths
    /\ \/ \A line \in rule : line.no
       \/ \E line \in rule : ~line.no /\ path \in line.paths

\* renderPlaced: what is on, for this page, and still offered, in the order read.
RenderPlaced(rows, path) ==
    {s \in DOMAIN rows : rows[s].enabled /\ PagesMatch(rows[s].pages, path) /\ s \in offered}
DrawnBefore(rows, path, a, b) ==
    LET order == ReadPlacements(rows)
    IN  /\ {a, b} \subseteq RenderPlaced(rows, path)
        /\ \E i, j \in DOMAIN order : i < j /\ order[i] = a /\ order[j] = b

-----------------------------------------------------------------------------
(* The editor.                                                             *)

Unengaged(o) == arranging[o].at = "idle"
Arrange(o, act) == arranging' = [arranging EXCEPT ![o] = act]
Rewrite(r, rows) == placements' = [placements EXCEPT ![r] = rows]
EditorOnly == UNCHANGED <<seeded, offered, seeding, widgetMishaps>>

\* PlaceWidget: the position comes from what the statement saw, which takes no lock.
NextPosition(rows) ==
    IF DOMAIN rows = {} THEN 0
    ELSE 1 + CHOOSE p \in {rows[s].position : s \in DOMAIN rows} : \A s \in DOMAIN rows : rows[s].position <= p

PlaceWidget(o, r, s) ==
    /\ Unengaged(o) /\ s \in offered
    /\ NextPosition(placements[r]) <= MaxPosition
    /\ Arrange(o, [at |-> "place", region |-> r, slug |-> s, position |-> NextPosition(placements[r])])
    /\ EditorOnly /\ UNCHANGED <<placements, taken>>

\* ON CONFLICT (region, slug) DO NOTHING
Inserted(rows, s, pos) ==
    [t \in DOMAIN rows \cup {s} |-> IF t \in DOMAIN rows THEN rows[t] ELSE PlacementAt(pos)]

PlaceWidgetInserts(o) ==
    LET act == arranging[o] IN
    /\ act.at = "place"
    /\ Rewrite(act.region, Inserted(placements[act.region], act.slug, act.position))
    /\ taken' = taken \ {<<act.region, act.slug>>}
    /\ Arrange(o, NotArranging)
    /\ EditorOnly

RemoveWidget(o, r, s) ==
    /\ Unengaged(o) /\ s \in DOMAIN placements[r]
    /\ Rewrite(r, [t \in DOMAIN placements[r] \ {s} |-> placements[r][t]])
    /\ taken' = taken \cup {<<r, s>>}
    /\ EditorOnly /\ UNCHANGED arranging

ToggleWidget(o, r, s) ==
    /\ Unengaged(o) /\ s \in DOMAIN placements[r]
    /\ Rewrite(r, [placements[r] EXCEPT ![s].enabled = ~@])
    /\ EditorOnly /\ UNCHANGED <<arranging, taken>>

SetWidgetPages(o, r, s) ==
    /\ Unengaged(o) /\ s \in DOMAIN placements[r]
    /\ \E rule \in Rules : Rewrite(r, [placements[r] EXCEPT ![s].pages = rule])
    /\ EditorOnly /\ UNCHANGED <<arranging, taken>>

\* moveWidget: a widget changes places with its neighbour in what was read; at the ends
\* there is nothing to do.
MoveWidget(o, r) ==
    LET order == ReadPlacements(placements[r]) IN
    /\ Unengaged(o)
    /\ \E i \in 1..(Len(order) - 1) :
          Arrange(o, [at |-> "move", region |-> r, top |-> i,
                      order |-> [order EXCEPT ![i] = order[i + 1], ![i + 1] = order[i]]])
    /\ EditorOnly /\ UNCHANGED <<placements, taken>>

\* Mutant: the two exchange the positions they have.
ExchangedPositions(rows, order) ==
    [s \in DOMAIN rows |->
        [rows[s] EXCEPT !.position =
            LET before == ReadPlacements(rows)
                slot == {i \in DOMAIN order : order[i] = s}
            IN  IF slot = {} \/ Len(before) # Len(order) THEN @
                ELSE rows[before[CHOOSE i \in slot : TRUE]].position]]
\* ReorderWidgets: those still there are numbered in the order given, in one transaction.
ReorderWidgets(rows, order) ==
    [s \in DOMAIN rows |->
        IF \E i \in DOMAIN order : order[i] = s
        THEN [rows[s] EXCEPT !.position = (CHOOSE i \in DOMAIN order : order[i] = s) - 1]
        ELSE rows[s]]

MoveWidgetCommits(o) ==
    LET act == arranging[o] IN
    /\ act.at = "move"
    /\ Rewrite(act.region, ReorderWidgets(placements[act.region], act.order))
    /\ Arrange(o, NotArranging)
    /\ EditorOnly /\ UNCHANGED taken

\* The statement fails, and the editor says so.
ArrangingFails(o) ==
    /\ ~Unengaged(o)
    /\ widgetMishaps < MaxWidgetMishaps
    /\ widgetMishaps' = widgetMishaps + 1
    /\ Arrange(o, NotArranging)
    /\ UNCHANGED <<placements, seeded, offered, seeding, taken>>

-----------------------------------------------------------------------------
(* The seeders, in the order a boot runs them.                             *)

Seeds == <<"widgets", "poll">>
SeedRegion(seed) == IF seed = "widgets" THEN "release-main" ELSE "sidebar-right"
SeedRows(seed) ==
    IF seed = "widgets"
    THEN [s \in {"comments", "mediainfo"} \cap Slugs |-> IF s = "comments" THEN 10 ELSE 0]
    ELSE [s \in {"poll"} \cap Slugs |-> 0]

BootSeeds(h, where) == seeding' = [seeding EXCEPT ![h] = where]
Seeder(i) == [at |-> "look", seed |-> i, blind |-> FALSE]
UpAfter(i) == IF i = Len(Seeds) THEN [at |-> "up"] ELSE Seeder(i + 1)

\* The plugins of this boot, and the first seeder.
HostStarts(h) ==
    /\ seeding[h].at = "down"
    /\ \E on \in SUBSET Optional : offered' = (Slugs \ Optional) \cup on
    /\ BootSeeds(h, Seeder(1))
    /\ UNCHANGED <<placements, seeded, arranging, taken, widgetMishaps>>

\* A marker that is there, and read, ends the seeder.
LookForMarker(h) ==
    /\ seeding[h].at = "look"
    /\ \/ BootSeeds(h, IF Seeds[seeding[h].seed] \in seeded
                       THEN UpAfter(seeding[h].seed) ELSE [seeding[h] EXCEPT !.at = "place"])
          /\ UNCHANGED widgetMishaps
       \/ /\ widgetMishaps < MaxWidgetMishaps       \* the read fails: as if it were not there
          /\ widgetMishaps' = widgetMishaps + 1
          /\ BootSeeds(h, [seeding[h] EXCEPT !.at = "place", !.blind = TRUE])
    /\ UNCHANGED <<placements, seeded, offered, arranging, taken>>

SeedPlacements(rows, new) ==
    [s \in DOMAIN rows \cup DOMAIN new |-> IF s \in DOMAIN rows THEN rows[s] ELSE PlacementAt(new[s])]

SeedPlaces(h) ==
    LET seed == Seeds[seeding[h].seed] IN
    /\ seeding[h].at = "place"
    /\ IF SeedRegion(seed) \in Regions
       THEN Rewrite(SeedRegion(seed), SeedPlacements(placements[SeedRegion(seed)], SeedRows(seed)))
       ELSE UNCHANGED placements
    /\ BootSeeds(h, [seeding[h] EXCEPT !.at = "mark"])
    /\ UNCHANGED <<seeded, offered, arranging, taken, widgetMishaps>>

SeedMarks(h) ==
    /\ seeding[h].at = "mark"
    /\ seeded' = seeded \cup {Seeds[seeding[h].seed]}
    /\ BootSeeds(h, UpAfter(seeding[h].seed))
    /\ UNCHANGED <<placements, offered, arranging, taken, widgetMishaps>>

\* A seeder that cannot write leaves it there, and the boot goes on.
SeedFails(h) ==
    /\ seeding[h].at \in {"place", "mark"}
    /\ widgetMishaps < MaxWidgetMishaps
    /\ widgetMishaps' = widgetMishaps + 1
    /\ BootSeeds(h, UpAfter(seeding[h].seed))
    /\ UNCHANGED <<placements, seeded, offered, arranging, taken>>

\* The requests it was answering end with it.
HostEnds(h) ==
    /\ seeding[h].at # "down"
    /\ widgetMishaps < MaxWidgetMishaps
    /\ widgetMishaps' = widgetMishaps + 1
    /\ BootSeeds(h, [at |-> "down"])
    /\ arranging' = IF \E g \in Hosts \ {h} : seeding[g].at = "up" THEN arranging
                    ELSE [o \in Arrangers |-> NotArranging]
    /\ UNCHANGED <<placements, seeded, offered, taken>>

-----------------------------------------------------------------------------
\* A site whose tracker plugin placed its own widget first (demoseed_web.go:284-287), or none.
WidgetsInit ==
    /\ placements \in [Regions -> {<< >>, [s \in {"swarm"} \cap Slugs |-> PlacementAt(0)]}]
    /\ seeded = {}
    /\ offered = Slugs
    /\ arranging = [o \in Arrangers |-> NotArranging]
    /\ seeding = [h \in Hosts |-> [at |-> "down"]]
    /\ taken = {}
    /\ widgetMishaps = 0

\* Somebody serves the editor's requests.
Serves == \E h \in Hosts : seeding[h].at = "up"

WidgetsNext ==
    \/ \E h \in Hosts :
          HostStarts(h) \/ LookForMarker(h) \/ SeedPlaces(h) \/ SeedMarks(h) \/ SeedFails(h) \/ HostEnds(h)
    \/ \E o \in Arrangers :
          /\ Serves
          /\ \/ \E r \in Regions, s \in Slugs :
                   PlaceWidget(o, r, s) \/ RemoveWidget(o, r, s) \/ ToggleWidget(o, r, s) \/ SetWidgetPages(o, r, s)
             \/ \E r \in Regions : MoveWidget(o, r)
             \/ PlaceWidgetInserts(o) \/ MoveWidgetCommits(o) \/ ArrangingFails(o)

WidgetsSpec == WidgetsInit /\ [][WidgetsNext]_widgetVars

-----------------------------------------------------------------------------
WidgetsTypeOK ==
    /\ \A r \in Regions : DOMAIN placements[r] \subseteq Slugs
    /\ \A r \in Regions : \A s \in DOMAIN placements[r] :
          placements[r][s].enabled \in BOOLEAN /\ placements[r][s].pages \in Rules \cup {EveryPage}
    /\ seeded \subseteq {"widgets", "poll"} /\ offered \subseteq Slugs

\* A move that goes through is seen on every page that draws both widgets, whatever ties
\* earlier edits left among the positions and whoever else was editing.
MovesAreSeen ==
    [][\A o \in Arrangers, path \in Viewed :
          (arranging[o].at = "move" /\ arranging'[o].at = "idle" /\ widgetMishaps' = widgetMishaps) =>
              LET act == arranging[o]
              IN  ~DrawnBefore(placements'[act.region], path, act.order[act.top + 1], act.order[act.top])]_widgetVars

\* What an operator took out of a region a boot does not put back, once the seeder has
\* left its marker and the marker can be read.
RemovedStays ==
    [][\A r \in Regions, s \in Slugs :
          (<<r, s>> \in taken \cap taken' /\ s \in DOMAIN placements'[r] \ DOMAIN placements[r]) =>
              \E h \in Hosts :
                 /\ seeding[h].at = "place"
                 /\ seeding[h].blind \/ Seeds[seeding[h].seed] \notin seeded]_widgetVars

\* The layout is the operators': their moves are seen, and what they removed stays away.
LayoutIsTheOperators == MovesAreSeen /\ RemovedStays

\* Two widgets never have one slot of a region.  Checked by hand: two operators who add at
\* once both count what is there (storage/widgets.go:79-80).
SlotsAreDistinct ==
    \A r \in Regions : \A s, t \in DOMAIN placements[r] :
        s # t => placements[r][s].position # placements[r][t].position
===============================================================================
