-------------------------------- MODULE SiteNav --------------------------------
(***************************************************************************)
(* The editable menus: storage/sitenav.go, storage/sitepages.go,           *)
(* web/handlers/navadmin_web.go and pagesadmin_web.go.  A boot lifts the   *)
(* table of the first version, puts the shipped menus and links in where   *)
(* they are missing and copies both tables into memory; the pages of the   *)
(* site are drawn from that copy.  The editor of the menus posts the whole *)
(* grid as it was when it was opened, and the editor of a page may place   *)
(* the page in a menu; neither is a transaction, and each renews the copy   *)
(* of its own process at the end.                                          *)
(*                                                                         *)
(* A menu is its key, and a link of the site's own is its storey and its   *)
(* address: one address may be in the top bar and in the footer.  Labels,  *)
(* icons and order are left out.                                           *)
(***************************************************************************)
EXTENDS Naturals, FiniteSets

CONSTANTS
    Servers,    \* the processes that serve the site
    Admins,
    Shipped,    \* the links of the site's own: a function from <<storey, address>> to the menu
    Custom,     \* the menu an operator may add
    Page,       \* the address of a page an operator may add
    Gated,      \* the addresses the flavour of the site leaves out
    Edits,      \* bound: what a submit changes, besides adding a menu and moving a link
    MaxRow,     \* bound: the last id of a link
    MaxNavMishaps   \* bound: statements that fail and processes that end

ASSUME SiteNavAssumption ==
    /\ Shipped \in [DOMAIN Shipped -> {"releases", "other"}]
    /\ DOMAIN Shipped \subseteq {"top", "footer"} \X STRING
    /\ Custom \notin {"releases", "other"}
    /\ {MaxRow, MaxNavMishaps} \subseteq Nat

VARIABLES
    menus,      \* site_nav_groups: [hidden, builtin] by key
    links,      \* site_nav: a set of rows
    lastRow,    \* the last id given
    pages,      \* site_pages: the addresses that have a page
    navMirror,  \* of each process: both tables as it last read them
    booting,    \* of each process: how far its boot is
    editing,    \* of each admin: the request he waits for
    navMishaps  \* failures so far

navTables == <<menus, links, lastRow, pages>>
navVars == <<menus, links, lastRow, pages, navMirror, booting, editing, navMishaps>>

BuiltinMenus == {"releases", "other"}
AsShipped == [hidden |-> FALSE, builtin |-> TRUE]
NoMirror == [menus |-> << >>, links |-> {}]

NotEditing == [at |-> "idle", on |-> "", seen |-> NoMirror, read |-> NoMirror, wish |-> [op |-> "none", menu |-> "none", row |-> 0]]

\* The key of what an operator added, and of what the first version shipped.
NoKey == << >>
ShippedRow(k, id) ==
    [id |-> id, key |-> k, href |-> k[2], grp |-> Shipped[k],
     hidden |-> FALSE, builtin |-> TRUE]

NavTables == [menus |-> menus, links |-> links]

-----------------------------------------------------------------------------
(* What is drawn.                                                          *)

\* The copy, or what is shipped when there is nothing in it.
CurrentNav(s) ==
    IF DOMAIN navMirror[s].menus = {} \/ navMirror[s].links = {}
    THEN [menus |-> [m \in BuiltinMenus |-> AsShipped],
          links |-> {ShippedRow(k, 0) : k \in DOMAIN Shipped}]
    ELSE navMirror[s]

\* Mutant: a link whose menu is gone stays with it.
NotRescued(nav, row) == row.grp
\* A link whose menu is gone is drawn under Other.
Bucket(nav, row) == IF row.grp \in DOMAIN nav.menus THEN row.grp ELSE "other"

\* customSitePage: a page without a row is a 404.
CustomSitePage(href) == href \in pages

AssembleNav(nav) ==
    [m \in {g \in DOMAIN nav.menus : ~nav.menus[g].hidden} |->
        {row \in nav.links : ~row.hidden /\ row.href \notin Gated /\ Bucket(nav, row) = m}]

-----------------------------------------------------------------------------
(* Boot.                                                                   *)

Booted(s) == booting[s] = [at |-> "up"]
BootAt(s, step) == booting' = [booting EXCEPT ![s] = step]

\* MigrateSiteNav: the links the first version shipped, all in the top bar, get the keys
\* they have now.
KeyOf(row) == IF row.builtin /\ row.key = NoKey THEN <<"top", row.href>> ELSE row.key
Lifted == {[row EXCEPT !.key = KeyOf(row)] : row \in links}

MigrateNav(s) ==
    /\ booting[s] = [at |-> "down"]
    /\ links' = Lifted
    /\ BootAt(s, [at |-> "menus"])
    /\ UNCHANGED <<menus, lastRow, pages, navMirror, editing, navMishaps>>

\* EnsureSiteNavGroup: ON CONFLICT DO NOTHING.
EnsureMenus(s) ==
    /\ booting[s] = [at |-> "menus"]
    /\ menus' = [m \in DOMAIN menus \cup BuiltinMenus |->
                    IF m \in DOMAIN menus THEN menus[m] ELSE AsShipped]
    /\ BootAt(s, [at |-> "links", left |-> DOMAIN Shipped, look |-> NoKey])
    /\ UNCHANGED <<links, lastRow, pages, navMirror, editing, navMishaps>>

\* EnsureSiteNavKeyed: one statement looks for the key and inserts; nothing locks the two together.
NotThere(k) == ~\E row \in links : row.key = k

LookForLink(s) ==
    /\ booting[s].at = "links" /\ booting[s].look = NoKey
    /\ \E k \in booting[s].left :
          BootAt(s, [booting[s] EXCEPT !.look = IF NotThere(k) THEN k ELSE @,
                                       !.left = IF NotThere(k) THEN @ ELSE @ \ {k}])
    /\ UNCHANGED <<navTables, navMirror, editing, navMishaps>>

EnsureLink(s) ==
    /\ booting[s].at = "links" /\ booting[s].look # NoKey
    /\ lastRow < MaxRow
    /\ links' = links \cup {ShippedRow(booting[s].look, lastRow + 1)}
    /\ lastRow' = lastRow + 1
    /\ BootAt(s, [booting[s] EXCEPT !.look = NoKey, !.left = @ \ {booting[s].look}])
    /\ UNCHANGED <<menus, pages, navMirror, editing, navMishaps>>

\* refreshNavMirror, at the end of a boot.
BootMirrors(s) ==
    /\ booting[s].at = "links" /\ booting[s].left = {}
    /\ navMirror' = [navMirror EXCEPT ![s] = NavTables]
    /\ BootAt(s, [at |-> "up"])
    /\ UNCHANGED <<navTables, editing, navMishaps>>

\* loadSiteNav that fails is logged, and the process serves the shipped menus.
LoadSiteNavFails(s) ==
    /\ booting[s].at \in {"menus", "links"}
    /\ navMishaps < MaxNavMishaps
    /\ navMishaps' = navMishaps + 1
    /\ BootAt(s, [at |-> "up"])
    /\ UNCHANGED <<navTables, navMirror, editing>>

\* A process ends, its copy with it, and the requests it was answering.
NavRestart(s) ==
    /\ booting[s].at # "down"
    /\ navMishaps < MaxNavMishaps
    /\ navMishaps' = navMishaps + 1
    /\ BootAt(s, [at |-> "down"])
    /\ navMirror' = [navMirror EXCEPT ![s] = NoMirror]
    /\ editing' = [a \in Admins |-> IF editing[a].on = s THEN NotEditing ELSE editing[a]]
    /\ UNCHANGED navTables

-----------------------------------------------------------------------------
(* The editor of the menus.                                                *)

WaitsAt(a, where) == editing' = [editing EXCEPT ![a] = where]

\* GET /admin/nav: the grid as it is now, which may be posted a good while later.
AdminNavEditor(a, s) ==
    /\ editing[a].at = "idle" /\ Booted(s)
    /\ WaitsAt(a, [NotEditing EXCEPT !.at = "grid", !.on = s, !.seen = NavTables])
    /\ UNCHANGED <<navTables, navMirror, booting, navMishaps>>

\* What one submit asks for, on top of the rows of the grid as they were.
Asked(seen) ==
    [op : Edits \cap {"hide menu", "remove menu"}, menu : DOMAIN seen.menus, row : {0}]
    \cup [op : {"add menu"}, menu : {Custom}, row : {0}]
    \cup [op : Edits \cap {"add link"}, menu : DOMAIN seen.menus \cup {Custom}, row : {0}]
    \cup [op : Edits \cap {"hide link", "remove link"}, menu : {"none"}, row : {r.id : r \in seen.links}]
    \cup [op : {"move link"}, menu : DOMAIN seen.menus, row : {r.id : r \in seen.links}]

\* POST /admin/nav reads both tables again.
AdminNavSave(a) ==
    /\ editing[a].at = "grid"
    /\ \E wish \in Asked(editing[a].seen) :
          WaitsAt(a, [editing[a] EXCEPT !.at = "save", !.read = NavTables, !.wish = wish])
    /\ UNCHANGED <<navTables, navMirror, booting, navMishaps>>

OfMenu(a, op, m) == editing[a].wish.op = op /\ editing[a].wish.menu = m
OfLink(a, op, id) == editing[a].wish.op = op /\ editing[a].wish.row = id

\* The menus this save adds, and those of the operator's own it takes away.
AddedMenus(a) == IF editing[a].wish.op = "add menu" THEN {Custom} ELSE {}
RemovedMenus(a) ==
    {m \in DOMAIN editing[a].read.menus :
        OfMenu(a, "remove menu", m) /\ ~editing[a].read.menus[m].builtin}

\* The set of menus this save knows, by what it read.
GroupSet(a) == (DOMAIN editing[a].read.menus \cup AddedMenus(a)) \ RemovedMenus(a)

\* A menu is taken away when the rows this save read leave it empty; a key is added once.
Refused(a) ==
    \/ AddedMenus(a) \cap DOMAIN editing[a].read.menus # {}
    \/ \E row \in editing[a].read.links : row.grp \in RemovedMenus(a)

\* UpsertSiteNavGroup writes every menu of the grid, also one that is gone meanwhile.
SentMenus(a) == DOMAIN editing[a].seen.menus \cap DOMAIN editing[a].read.menus
MenusSaved(a, sent) ==
    [m \in (DOMAIN menus \cup sent \cup AddedMenus(a)) \ RemovedMenus(a) |->
        IF m \in sent
        THEN [hidden |-> editing[a].seen.menus[m].hidden \/ OfMenu(a, "hide menu", m),
              builtin |-> editing[a].read.menus[m].builtin]
        ELSE IF m \in DOMAIN menus THEN menus[m]
        ELSE [hidden |-> FALSE, builtin |-> FALSE]]

\* UpdateSiteNav and DeleteSiteNav find the rows by id, and may find none.
SentLinks(a) == {row.id : row \in editing[a].seen.links} \cap {row.id : row \in editing[a].read.links}
RowOf(rows, id) == CHOOSE row \in rows : row.id = id
LinkSaved(a, row) ==
    LET seen == RowOf(editing[a].seen.links, row.id)
        read == RowOf(editing[a].read.links, row.id)
        grp == IF OfLink(a, "move link", row.id) THEN editing[a].wish.menu ELSE seen.grp
    IN  [row EXCEPT !.grp = IF grp \in GroupSet(a) THEN grp ELSE read.grp,
                    !.hidden = seen.hidden \/ OfLink(a, "hide link", row.id)]

OperatorRow(href, grp) ==
    [id |-> lastRow + 1, key |-> NoKey, href |-> href, grp |-> grp, hidden |-> FALSE, builtin |-> FALSE]

AddedLinks(a) ==
    IF editing[a].wish.op # "add link" THEN {}
    ELSE {OperatorRow(Page, IF editing[a].wish.menu \in GroupSet(a) THEN editing[a].wish.menu ELSE "other")}

LinksSaved(a, sent) ==
    AddedLinks(a) \cup
    {IF row.id \in sent THEN LinkSaved(a, row) ELSE row :
        row \in {r \in links : ~(OfLink(a, "remove link", r.id) /\ ~r.builtin /\ r.id \in sent)}}

\* The statements of the save, with nothing of another request between them.
WriteMenus(a) ==
    /\ editing[a].at = "save" /\ ~Refused(a)
    /\ lastRow + Cardinality(AddedLinks(a)) <= MaxRow
    /\ menus' = MenusSaved(a, SentMenus(a))
    /\ links' = LinksSaved(a, SentLinks(a))
    /\ lastRow' = lastRow + Cardinality(AddedLinks(a))
    /\ WaitsAt(a, [NotEditing EXCEPT !.at = "refresh", !.on = editing[a].on])
    /\ UNCHANGED <<pages, navMirror, booting, navMishaps>>

\* A save that is refused, or of which a menu's statement fails, leaves the menus it wrote
\* before that and renews no copy.
GiveUp(a) ==
    /\ editing[a].at = "save"
    /\ IF Refused(a)
       THEN UNCHANGED navMishaps
       ELSE navMishaps < MaxNavMishaps /\ navMishaps' = navMishaps + 1
    /\ IF AddedMenus(a) \cap DOMAIN editing[a].read.menus # {}
       THEN UNCHANGED menus
       ELSE \E sent \in SUBSET (SentMenus(a) \ RemovedMenus(a)) :
               menus' = [m \in DOMAIN menus \cup DOMAIN MenusSaved(a, sent) |->
                            IF m \in DOMAIN MenusSaved(a, sent) THEN MenusSaved(a, sent)[m] ELSE menus[m]]
    /\ WaitsAt(a, NotEditing)
    /\ UNCHANGED <<links, lastRow, pages, navMirror, booting>>

\* A link's statement fails, the one that adds or one that saves: the menus are written, and
\* the links before it.
StopsAtLinks(a) ==
    /\ editing[a].at = "save" /\ ~Refused(a)
    /\ navMishaps < MaxNavMishaps /\ navMishaps' = navMishaps + 1
    /\ menus' = MenusSaved(a, SentMenus(a))
    /\ \/ AddedLinks(a) # {} /\ UNCHANGED <<links, lastRow>>
       \/ /\ lastRow + Cardinality(AddedLinks(a)) <= MaxRow
          /\ \E failed \in SentLinks(a), sent \in SUBSET SentLinks(a) :
                failed \notin sent /\ links' = LinksSaved(a, sent)
          /\ lastRow' = lastRow + Cardinality(AddedLinks(a))
    /\ WaitsAt(a, NotEditing)
    /\ UNCHANGED <<pages, navMirror, booting>>

\* refreshNavMirror reads the tables and then swaps the copy; a read that fails is logged.
RefreshReads(a) ==
    /\ editing[a].at = "refresh"
    /\ \/ /\ WaitsAt(a, [editing[a] EXCEPT !.at = "swap", !.read = NavTables])
          /\ UNCHANGED navMishaps
       \/ /\ navMishaps < MaxNavMishaps
          /\ navMishaps' = navMishaps + 1
          /\ WaitsAt(a, NotEditing)
    /\ UNCHANGED <<navTables, navMirror, booting>>
RefreshSwaps(a) ==
    /\ editing[a].at = "swap"
    /\ navMirror' = [navMirror EXCEPT ![editing[a].on] = editing[a].read]
    /\ WaitsAt(a, NotEditing)
    /\ UNCHANGED <<navTables, booting, navMishaps>>

-----------------------------------------------------------------------------
(* The editor of a page: one request, its statements together.             *)

\* The copy says which menus there are, and whether the page is in one already.
PlacedIn(s) == {row \in CurrentNav(s).links : row.href = Page /\ row.key = NoKey}

\* DeleteSiteNavHref
Unplace == links' = {row \in links : ~(row.href = Page /\ row.key = NoKey)} /\ UNCHANGED lastRow

PlacePage(s, grp) ==
    IF grp \notin DOMAIN CurrentNav(s).menus
    THEN Unplace
    ELSE \/ \E placed \in PlacedIn(s) :
               /\ links' = {IF row.id = placed.id
                            THEN [row EXCEPT !.grp = grp, !.hidden = placed.hidden] ELSE row :
                               row \in links}
               /\ UNCHANGED lastRow
         \/ /\ PlacedIn(s) = {} /\ lastRow < MaxRow
            /\ links' = links \cup {OperatorRow(Page, grp)}
            /\ lastRow' = lastRow + 1

\* Placing is best effort, and so is renewing the copy: at most one of them fails.
PageHandler(s, save, placing) ==
    /\ Booted(s)
    /\ pages' = save
    /\ \E fails \in {"none", "place", "refresh"} :
          /\ IF fails = "none" THEN UNCHANGED navMishaps
             ELSE navMishaps < MaxNavMishaps /\ navMishaps' = navMishaps + 1
          /\ IF fails = "place" THEN UNCHANGED <<links, lastRow>> ELSE placing
          /\ navMirror' = IF fails = "refresh" THEN navMirror
                          ELSE [navMirror EXCEPT ![s] = [menus |-> menus, links |-> links']]
    /\ UNCHANGED <<menus, booting, editing>>

\* POST /admin/pages with a menu to place the page in, or none.
AdminPagesSave(s) ==
    \E grp \in BuiltinMenus \cup {Custom, "none"} :
        PageHandler(s, pages \cup {Page}, PlacePage(s, grp))

\* POST /admin/pages/delete: a deleted page leaves the menus too.
AdminPagesDelete(s) == PageHandler(s, pages \ {Page}, Unplace)

-----------------------------------------------------------------------------
\* A fresh database, or the table of the first version, where an operator hid a link or did not.
NavInit ==
    /\ menus = << >>
    /\ \/ links = {} /\ lastRow = 0
       \/ \E k \in DOMAIN Shipped, hidden \in BOOLEAN :
             /\ k[1] = "top"
             /\ links = {[ShippedRow(k, 1) EXCEPT !.key = NoKey, !.hidden = hidden]}
             /\ lastRow = 1
    /\ pages = {}
    /\ navMirror = [s \in Servers |-> NoMirror]
    /\ booting = [s \in Servers |-> [at |-> "down"]]
    /\ editing = [a \in Admins |-> NotEditing]
    /\ navMishaps = 0

NavNext ==
    \/ \E s \in Servers :
          \/ MigrateNav(s) \/ EnsureMenus(s) \/ LookForLink(s) \/ EnsureLink(s)
          \/ BootMirrors(s) \/ LoadSiteNavFails(s) \/ NavRestart(s)
          \/ AdminPagesSave(s) \/ AdminPagesDelete(s)
    \/ \E a \in Admins, s \in Servers : AdminNavEditor(a, s)
    \/ \E a \in Admins :
          \/ AdminNavSave(a) \/ WriteMenus(a) \/ GiveUp(a) \/ StopsAtLinks(a)
          \/ RefreshReads(a) \/ RefreshSwaps(a)

NavSpec == NavInit /\ [][NavNext]_navVars

-----------------------------------------------------------------------------
NavTypeOK ==
    /\ \A m \in DOMAIN menus : menus[m] \in [hidden : BOOLEAN, builtin : BOOLEAN]
    /\ \A row \in links : row.id \in 1..lastRow /\ row.hidden \in BOOLEAN
    /\ pages \subseteq {Page}
    /\ lastRow \in 0..MaxRow

\* A shipped link has one row, lifted or not, whatever the boots before left of it.
ShippedOnce ==
    \A k \in DOMAIN Shipped : Cardinality({row \in links : KeyOf(row) = k}) <= 1

\* A link that is not hidden is drawn, and in one menu, as long as there is Other to take
\* it (navadmin_web.go:234-235); only a menu the operator hid takes its links along.
DrawnOnce ==
    \A s \in Servers : Booted(s) =>
        LET nav == CurrentNav(s)
            drawn == AssembleNav(nav)
        IN  \A row \in nav.links :
            (~row.hidden /\ row.href \notin Gated /\ "other" \in DOMAIN nav.menus) =>
                \/ Cardinality({m \in DOMAIN drawn : row \in drawn[m]}) = 1
                \/ \E m \in DOMAIN nav.menus : nav.menus[m].hidden /\ m = Bucket(nav, row)

\* The menus are whole: no editor, boot or lift of an older table doubles a shipped link
\* or leaves a link in a menu that nobody draws.
MenusAreWhole == ShippedOnce /\ DrawnOnce

\* A site that is up has Other.  Checked by hand: a boot that failed to write the menus of
\* a fresh database leaves none, and the first menu of the operator's own is then the only one.
OtherIsThere == \A s \in Servers : Booted(s) => "other" \in DOMAIN CurrentNav(s).menus

\* A page that was deleted is in no menu, once nobody is at work.  Checked by hand.
NoDeadLinks ==
    (\A a \in Admins : editing[a].at \in {"idle", "grid"}) =>
        \A row \in links : row.href = Page => CustomSitePage(row.href)

\* The copy is what the tables say, once nobody is at work.  Checked by hand.
MirrorFollowsTables ==
    (\A a \in Admins : editing[a].at \in {"idle", "grid"}) /\ navMishaps = 0 =>
        \A s \in Servers : Booted(s) => navMirror[s] = NavTables
===============================================================================
