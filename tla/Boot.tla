-------------------------------- MODULE Boot --------------------------------
(***************************************************************************)
(* How a process of the site comes up: web/handlers/main.go and the phases *)
(* split out of it.  A boot is a fixed program of steps over a database    *)
(* that other processes boot against at the same time.  A step runs the    *)
(* statements of a migration, one by one and in no transaction, reads      *)
(* tables, offers seams to the plugins of its own process, or asks for     *)
(* seams.  A step that fails ends the process or is logged and passed      *)
(* over, as the code has it; a process that ended is started again.        *)
(*                                                                         *)
(* Tables and columns are names; an index, being needed by nothing, only   *)
(* needs.  The tables loon, loon-baseline and the plugins keep are         *)
(* modelled by what the host's own statements need of them.                *)
(***************************************************************************)
EXTENDS Naturals, Sequences

CONSTANTS
    Processes,      \* the containers that run this binary on one database
    DonationsOn,    \* LOON_DONATIONS is 1
    TrackerOn,      \* the flavour of the site has the tracker
    DispatchOn,     \* AGENT_DISPATCH is set
    MaxTroubles     \* bound: statements that fail and processes that are killed

ASSUME BootAssumption ==
    /\ {DonationsOn, TrackerOn, DispatchOn} \subseteq BOOLEAN
    /\ MaxTroubles \in Nat

VARIABLES
    objects,        \* tables and columns in the database
    display,        \* the view user_display: its columns, and whether two are constants
    pc,             \* of each process: the step it runs next, 0 when it is down
    registered,        \* the seams registered in the process
    missed,         \* the seams somebody looked up in it when they were not there
    passedOver,     \* the steps of this boot that were refused, and logged
    troubles        \* how many failures from outside so far, over all boots

bootDb == <<objects, display>>
bootProcess == <<pc, registered, missed, passedOver>>
bootVars == <<objects, display, pc, registered, missed, passedOver, troubles>>

-----------------------------------------------------------------------------
(* Statements.                                                             *)

Statement(needs, makes) ==
    [needs |-> needs, makes |-> makes, drops |-> {}, unless |-> "", shape |-> {}, stubs |-> FALSE]

\* CREATE TABLE IF NOT EXISTS, with foreign keys; on a table that is there it adds nothing.
Table(t, references) == Statement(references, {t})
\* ALTER TABLE .. ADD COLUMN IF NOT EXISTS
Columns(t, cs) == Statement({t}, cs)
\* CREATE INDEX IF NOT EXISTS, an UPDATE, a DELETE
Over(ts) == Statement(ts, {})
\* DROP TABLE of a version of t that lacks a column
DropUnless(t, column) == [Statement({}, {}) EXCEPT !.drops = {t}, !.unless = column]
\* CREATE OR REPLACE VIEW user_display
DisplayView(columns, stubs, needs) ==
    [Statement(needs, {"user_display"}) EXCEPT !.shape = columns, !.stubs = stubs]

DisplayColumns == {"id", "username", "role", "avatar_path", "reputation_tier"}

\* Tables and columns after the first k statements; what a migration drops it drops first.
After(stmts, k) ==
    (objects \ UNION {stmts[i].drops : i \in {j \in 1..k : stmts[j].unless \notin objects}})
        \cup UNION {stmts[i].makes : i \in 1..k}

\* A statement is refused when it names what is not there, or would take columns from the view.
Accepted(stmts, k) ==
    /\ stmts[k].needs \subseteq After(stmts, k - 1)
    /\ stmts[k].shape = {} \/ display.columns \subseteq stmts[k].shape

\* How far a migration may get: the first statement that is refused is the end of it.
Ran(stmts) ==
    IF \A k \in DOMAIN stmts : Accepted(stmts, k)
    THEN Len(stmts)
    ELSE CHOOSE n \in 0..(Len(stmts) - 1) :
            /\ ~Accepted(stmts, n + 1)
            /\ \A k \in 1..n : Accepted(stmts, k)

-----------------------------------------------------------------------------
(* Migrations: storage/migrate.go and the files beside it.                 *)

\* What loon-baseline runs for its users: the table, and the view with two columns stubbed.
MigrateUsers ==
    << Table("users", {}),
       DisplayView(DisplayColumns, TRUE, {"users"}) >>

MigrateUserStats == << Over({"users"}) >>

\* Mutant: one more column for the plugins, which the baseline's view does not have.
DisplayWidened ==
    << Columns("users", {"users.avatar_path", "users.reputation_tier", "users.joined_at"}),
       DisplayView(DisplayColumns \cup {"joined_at"}, FALSE, {"users", "users.joined_at"}) >>

MigrateUserDisplay ==
    << Columns("users", {"users.avatar_path"}),
       Columns("users", {"users.reputation_tier"}),
       DisplayView(DisplayColumns, FALSE, {"users", "users.avatar_path", "users.reputation_tier"}) >>
    \o MigrateUserStats

MigrateAvatarMod ==
    << Columns("users", {"users.avatar_updated_at"}),
       Columns("users", {"users.avatar_reviewed_at"}),
       Over({"users", "users.avatar_updated_at", "users.avatar_path"}) >>

MigrateCart ==
    << Table("release_cart", {"users"}), Over({"release_cart"}) >>

MigrateBookmarks ==
    << Table("release_bookmark", {"users"}), Over({"release_bookmark"}) >>

MigrateCommunities ==
    << Table("communities", {"users"}),
       Table("community_subscribers", {"communities", "users"}),
       Table("community_mods", {"communities", "users"}),
       Table("community_rules", {"communities"}),
       Table("community_threads", {"communities", "users"}),
       Over({"community_threads"}),
       Table("community_posts", {"community_threads", "users"}),
       Over({"community_posts"}),
       Table("community_join_requests", {"communities", "users"}),
       Over({"community_join_requests"}),
       Table("community_invites", {"communities"}) >>

MigrateCommunityMod ==
    << Table("moderation_items", {}),
       Over({"moderation_items"}),
       Over({"moderation_items"}),
       Table("moderation_votes", {"moderation_items"}) >>

MigrateDonations ==
    << Table("site_costs", {}),
       Table("donation_packages", {}),
       Table("donations", {"users", "donation_packages"}),
       Over({"donations"}),
       Over({"donations"}),
       Columns("users", {"users.donation_count"}),
       Columns("users", {"users.donation_total_usd"}),
       Columns("users", {"users.donator"}),
       Columns("donations", {"donations.anonymous"}) >>

MigrateFollows ==
    << Table("user_follow", {"users"}), Over({"user_follow"}) >>

MigrateForum ==
    << Table("forum_categories", {}),
       Table("forum_threads", {"forum_categories", "users"}),
       Table("forum_posts", {"forum_threads", "users"}),
       Table("forum_post_reactions", {"forum_posts", "users"}) >>
    \o [gate \in 1..6 |-> Columns("forum_categories", {"forum_categories.gates"})]
    \o << Over({"forum_threads"}), Over({"forum_posts"}), Over({"forum_post_reactions"}) >>

MigrateGifts ==
    << Table("point_gifts", {"users"}), Over({"point_gifts"}), Over({"point_gifts"}) >>

MigrateGrabs ==
    << Table("release_grab", {"users"}), Over({"release_grab"}), Over({"release_grab"}) >>

MigrateInviteCodes ==
    << Table("invite_codes", {}),
       Over({"invite_codes"}),
       Columns("invite_codes", {"invite_codes.email"}),
       Columns("invite_codes", {"invite_codes.message"}),
       Columns("invite_codes", {"invite_codes.internal_note"}),
       Columns("invite_codes", {"invite_codes.sent_at"}),
       Columns("invite_codes", {"invite_codes.revoked_at"}),
       Columns("invite_codes", {"invite_codes.revoked_by"}),
       Columns("invite_codes", {"invite_codes.deleted_at"}),
       Over({"invite_codes", "invite_codes.revoked_at"}),
       Over({"invite_codes", "invite_codes.email"}) >>

MigrateInvites == << Columns("users", {"users.invites"}) >>

MigrateMessages ==
    << Table("dm_threads", {"users"}),
       Over({"dm_threads"}),
       Table("dm_messages", {"dm_threads", "users"}),
       Over({"dm_messages"}),
       Table("dm_blocks", {"users"}),
       Table("messages", {}),
       Table("message_reads", {"messages", "users"}),
       Columns("users", {"users.avatar_path"}) >>

MigrateNews ==
    << Table("news_posts", {}), Over({"news_posts"}) >>

MigratePoints ==
    << Columns("users", {"users.points"}),
       Columns("users", {"users.reputation_tier"}),
       Table("points_ledger", {"users"}),
       Over({"points_ledger"}),
       Table("seed_points_carry", {"users"}) >>

MigrateLastSeen == << Columns("users", {"users.last_seen_at"}) >>

MigrateProfileBio == << Columns("users", {"users.bio"}) >>

MigrateSecurity ==
    << Columns("users", {"users.totp_secret"}),
       Columns("users", {"users.totp_pending"}),
       Columns("users", {"users.totp_enabled_at"}),
       Table("totp_recovery_codes", {"users"}),
       Over({"totp_recovery_codes"}),
       Table("email_changes", {"users"}) >>

MigrateSettings ==
    << Columns("users", {"users.private_profile"}),
       Table("notification_prefs", {"users"}) >>

MigrateTickets ==
    << Table("support_tickets", {"users"}),
       Over({"support_tickets"}),
       Over({"support_tickets"}),
       Over({"support_tickets"}),
       Table("ticket_replies", {"support_tickets", "users"}),
       Over({"ticket_replies"}) >>

MigrateUndo ==
    << Table("undo_actions", {}), Over({"undo_actions"}) >>

MigrateWidgets ==
    << Table("widget_placement", {}),
       Over({"widget_placement"}),
       Columns("widget_placement", {"widget_placement.config"}),
       Columns("widget_placement", {"widget_placement.pages"}) >>

MigrateWiki ==
    << Table("wiki_topics", {}),
       Table("wiki_posts", {"wiki_topics"}),
       Over({"wiki_posts"}),
       Over({"wiki_posts"}) >>

MigrateWishlist ==
    << Table("wishlist_items", {"users"}), Over({"wishlist_items"}), Over({"wishlist_items"}) >>

MigrateSiteSettings == << Table("site_settings", {}) >>

\* The first version of the menu was keyed by address; the statements lift it.
MigrateSiteNav ==
    << Table("site_nav_groups", {}),
       Table("site_nav", {}),
       Columns("site_nav", {"site_nav.id"}),
       Columns("site_nav", {"site_nav.key"}),
       Over({"site_nav", "site_nav.id"}),
       Over({"site_nav", "site_nav.key"}) >>

MigrateI18n == << Table("i18n_messages", {}) >>

MigrateSitePages ==
    << Table("site_pages", {}), Columns("site_pages", {"site_pages.format"}) >>

MigrateAPIRequests ==
    << Table("api_request_days", {}), Over({"api_request_days"}) >>

\* A table of agents from before tokens were hashed is dropped, and the agents in it.
MigrateAgents ==
    << DropUnless("agent", "agent.token_hash"),
       Statement({}, {"agent", "agent.token_hash"}),
       Table("agent_prefs", {}) >>

MigrateAgentTasks == << Table("agent_task", {}) >>
MigrateTrackerKeys == << Table("tracker_key", {}) >>
MigrateNeutral == << Table("neutral_torrents", {}) >>

-----------------------------------------------------------------------------
(* Steps.                                                                  *)

AStep == [stmts |-> <<>>, offers |-> {}, wants |-> {}, requires |-> {},
          fatal |-> TRUE, skips |-> 1, outside |-> FALSE]

\* A migration whose error ends the process.
Migrating(stmts) == [AStep EXCEPT !.stmts = stmts]
\* A read, or a seed, of tables, whose error is logged.
Reading(tables) == [AStep EXCEPT !.stmts = <<Over(tables)>>, !.fatal = FALSE]
\* Seams registered for the plugins, and lookups: neither touches the database.
Offering(seams) == [AStep EXCEPT !.offers = seams]
Looking(seams) == [AStep EXCEPT !.wants = seams]

-----------------------------------------------------------------------------
(* The program, phase by phase.                                            *)

\* Ten attempts to reach the database, and then the process ends.
Connect == << [AStep EXCEPT !.outside = TRUE] >>

\* The tables of loon-baseline; only the restore of the maintenance flag may fail.
WireBaselineStores ==
    << Migrating(MigrateUsers),
       Migrating(<<Table("login_log", {}), Table("auth_tokens", {"users"}),
                   Table("job_settings", {}), Table("api_keys", {"users"}),
                   Table("maintenance", {})>>),
       Reading({"maintenance"}),
       Migrating(<<Table("job_triggers", {}), Table("heartbeats", {})>>) >>

MigrateSiteTables ==
    << Reading({"users"}),                                  \* seedDemoUsers
       Migrating(MigrateForum),
       Reading({"forum_categories", "forum_threads", "forum_posts", "users"}),  \* forumSeed
       Migrating(MigrateInviteCodes),
       Migrating(MigrateSiteSettings),
       Migrating(MigrateTrackerKeys \o MigrateAgents \o MigrateAgentTasks),
       Reading({"site_settings"}),     \* access, invites, flavour, features, cover mode
       Migrating(MigrateProfileBio \o MigrateI18n \o MigrateSitePages
                 \o MigrateAPIRequests \o MigrateSiteNav),
       Reading({"site_nav", "site_nav_groups", "site_nav.id", "site_nav.key"}) >>   \* loadSiteNav

\* Redis, or without it the memory of the process, and then no plugin gets the client.
ChooseCache ==
    << [AStep EXCEPT !.outside = TRUE, !.fatal = FALSE, !.offers = {"redis"}] >>
\* Redis, or without it a cookie.
ChooseSessions ==
    << [AStep EXCEPT !.outside = TRUE, !.fatal = FALSE, !.offers = {"server sessions"}] >>

MigrateHostTables ==
    << Migrating(MigratePoints \o MigrateSettings \o MigrateGrabs \o MigrateBookmarks \o MigrateCart),
       Migrating(MigrateWidgets \o MigrateLastSeen \o MigrateFollows),
       Migrating(<<Table("notifications", {"users"})>>) >>

\* What the agent plugin asks its host for.
WireAgentPlugin == << Offering({"agent deps"}) >>

\* A gin-template plugin whose tables the host makes before it hands over the seams.
Behind(stmts, deps) == << [Migrating(stmts) EXCEPT !.offers = {deps}] >>

WireForum == << Offering({"forum deps"}) >>
WireNews == Behind(MigrateNews, "news deps")
\* The directory of uploads is made here, and may fail.
WireWiki == Behind(MigrateWiki, "wiki deps") \o << [AStep EXCEPT !.outside = TRUE] >>
WireCommunities == Behind(MigrateCommunities, "communities deps")
WireMessages == Behind(MigrateMessages, "messages deps")
WireTickets == Behind(MigrateTickets, "tickets deps")
WireHitRun == {"hitrun deps"}
WirePerks == {"perks deps"}
WireSeedLock == {"seedlock deps"}
WireTracker == {"tracker deps"}
WireStore == {"store deps"}
WirePlaylists == {"playlists deps"}

\* The tables come whatever the switch says; the toggle is read only when it is on.
WireDonations(donations) ==
    << Migrating(MigrateDonations) >>
    \o (IF donations THEN << Reading({"site_settings"}) >> ELSE <<>>)
    \o << Offering({"donations deps"}) >>

WirePluginSeams(donations) ==
    WireForum \o WireNews \o WireWiki \o WireCommunities \o WireMessages
    \o << Offering(WireHitRun \cup WirePerks \cup WireSeedLock \cup WireTracker
                   \cup WireStore \cup WirePlaylists) >>
    \o WireTickets \o WireDonations(donations)

WireMetadataSources == << Offering({"catalog.registry"}) >>
WireInvites == << [Migrating(MigrateInvites) EXCEPT !.offers = {"invite.granter"}] >>

\* Here a migration that fails is logged, and the rest of the wiring stays away with it.
WireNeutral ==
    << [Migrating(MigrateNeutral) EXCEPT !.fatal = FALSE, !.skips = 3],
       Reading({"neutral_torrents", "site_settings"}),
       Offering({"policy.host"}) >>

\* What a site without a tracker cannot answer is left out, not answered with zero.
RegisterRankStats(tracker) == IF tracker THEN {"rank.stats"} ELSE {}
RegisterAchievementMetrics ==
    {"achievements.metrics", "rewards.sources", "rewards.payouts", "rewards.csrf",
     "files", "achievements.icons"}
\* What a plugin asks the message catalogue for, under the key it knows.
RegisterI18nSeams == {"l10n.slugs", "l10n.resolve", "message.catalogue", "i18n.declare"}

RegisterCapabilities(tracker) ==
    << Offering({"captcha", "stylesheets", "notify.fanout", "events"}
                \cup RegisterAchievementMetrics \cup RegisterRankStats(tracker)
                \cup {"store.flavour", "csrf", "icons", "user.tag"} \cup RegisterI18nSeams
                \cup {"scraper deps", "stats deps", "backups deps"}) >>

\* The view is replaced last, when every column it shows is there.
MigrateBeforeBoot ==
    << Migrating(MigrateAvatarMod \o MigrateSecurity),
       Migrating(MigrateWishlist \o MigrateGifts \o MigrateUndo \o MigrateCommunityMod),
       Migrating(MigrateUserDisplay) >>

\* What the host answers itself has to be there before the plugins start inside core.Boot.
RegisterBuiltinWidgets == {"builtin widgets"}
OfferBeforeBoot ==
    << Offering(RegisterBuiltinWidgets
                \cup {"invite.issuer", "apikey.resolver", "grab.lookup", "image.intake"}) >>

\* What the plugins check when they are provisioned, and refuse to boot without.
PluginDeps ==
    {"agent deps", "forum deps", "news deps", "wiki deps", "communities deps",
     "messages deps", "hitrun deps", "perks deps", "seedlock deps", "tracker deps",
     "store deps", "playlists deps", "tickets deps", "donations deps",
     "scraper deps", "stats deps", "backups deps"}

\* What they look up while they are provisioned and started, and do without.
PluginSeams ==
    {"redis", "catalog.registry", "invite.granter", "policy.host", "captcha", "stylesheets",
     "notify.fanout", "events", "rank.stats", "store.flavour", "csrf", "icons", "user.tag",
     "builtin widgets", "invite.issuer", "apikey.resolver", "grab.lookup", "image.intake"}
    \cup RegisterAchievementMetrics \cup RegisterI18nSeams

\* core.Boot: the plugins' own tables, and the seams they offer the host.
PluginTables == {"ranks.groups", "store.items", "rewards.achievements", "rewards.rewards", "polls", "tracker"}
HostLooksUp ==
    {"usenet.index", "series.index", "usenet.newznab", "torrent.mirrors", "media.summaries",
     "mirror.maker", "dailyreward.status", "catalog", "achievements.list"}
CoreBoot ==
    << [AStep EXCEPT !.stmts = << Over({"user_display"}), Statement({"users"}, PluginTables) >>,
                     !.requires = PluginDeps,
                     !.wants = PluginSeams,
                     !.offers = HostLooksUp \cup {"request.filer"}] >>

\* The audit reads and reports; it stops nothing.
AfterBoot == << Reading({"rewards.rewards", "rewards.achievements", "user_display"}) >>

SeedDemo ==
    << Reading({"rewards.achievements"}),
       Reading({"ranks.groups", "store.items", "news_posts", "polls",
                "widget_placement", "widget_placement.config", "site_settings"}),
       Reading({"tracker", "users"}) >>

\* The dispatcher is published before the schedule looks for it, once.
WireAgentDispatch(dispatch) == IF dispatch THEN << Offering({"grab.dispatch"}) >> ELSE <<>>
WireTVSchedule ==
    << [Looking({"request.filer", "grab.dispatch"}) EXCEPT !.offers = {"tv.schedule", "tv.gaps"}] >>
ReloadTrackerKeys == << Reading({"tracker_key"}) >>

WireAdminAndViews(dispatch) ==
    << Looking(HostLooksUp) >> \o SeedDemo
    \o WireAgentDispatch(dispatch) \o WireTVSchedule
    \o << Offering({"trackers.search"}) >> \o ReloadTrackerKeys

\* In the flavour the site is set up for.
ProgramOf(donations, tracker, dispatch) ==
    Connect \o WireBaselineStores \o MigrateSiteTables
    \o ChooseCache \o ChooseSessions \o MigrateHostTables \o WireAgentPlugin
    \o WirePluginSeams(donations) \o WireMetadataSources \o WireInvites \o WireNeutral
    \o RegisterCapabilities(tracker) \o MigrateBeforeBoot \o OfferBeforeBoot
    \o CoreBoot \o AfterBoot \o WireAdminAndViews(dispatch)

Program == ProgramOf(DonationsOn, TrackerOn, DispatchOn)

-----------------------------------------------------------------------------
(* The order of a program, taken for itself.                               *)

Makes(step) == UNION {step.stmts[i].makes : i \in DOMAIN step.stmts}
\* What some migration drops.
Droppable(prog) == UNION {UNION {prog[j].stmts[i].drops : i \in DOMAIN prog[j].stmts} : j \in DOMAIN prog}
\* The steps that went through if the boot comes to step k: those that would have ended
\* the process, and those that would have skipped it.
StepsBefore(prog, k) == {j \in 1..(k - 1) : prog[j].fatal \/ k < j + prog[j].skips}
MadeBefore(prog, k) == (UNION {Makes(prog[j]) : j \in StepsBefore(prog, k)}) \ Droppable(prog)

\* Nobody asks for a seam that is published then or afterwards.
SeamsInOrder(prog, k) == \A j \in k..Len(prog) : prog[k].wants \cap prog[j].offers = {}

\* A step whose failure is passed over finds what it needs in what steps before it made
\* for good, and the steps it takes with it make nothing.
PassedOverInOrder(prog, k) ==
    LET step == prog[k]
    IN  /\ step.requires = {}
        /\ step.skips \in 1..(Len(prog) + 1 - k)
        /\ \A j \in (k + 1)..(k + step.skips - 1) : Makes(prog[j]) = {}
        /\ \A i \in DOMAIN step.stmts :
              /\ step.stmts[i].drops = {} /\ step.stmts[i].shape = {}
              /\ step.stmts[i].needs \subseteq
                    MadeBefore(prog, k) \cup UNION {step.stmts[m].makes : m \in 1..(i - 1)}

IsOrdered(prog) ==
    /\ Len(prog) \in Nat /\ DOMAIN prog = 1..Len(prog)
    /\ \A k \in DOMAIN prog :
          /\ Len(prog[k].stmts) \in Nat /\ DOMAIN prog[k].stmts = 1..Len(prog[k].stmts)
          /\ SeamsInOrder(prog, k)
          /\ ~prog[k].fatal => PassedOverInOrder(prog, k)

\* A fact about the steps above, which TLC computes.
ASSUME ProgramIsOrdered ==
    \A donations, tracker, dispatch \in BOOLEAN : IsOrdered(ProgramOf(donations, tracker, dispatch))

-----------------------------------------------------------------------------
(* Boots.                                                                  *)

\* What an older release of the site left: agents without hashed tokens, a menu
\* without keys, placements without settings, and the view already replaced.
Older ==
    {"users", "users.avatar_path", "users.reputation_tier", "user_display",
     "forum_categories", "site_nav", "widget_placement", "agent", "site_pages"}

BootEnds(p) ==
    /\ pc' = [pc EXCEPT ![p] = 0]
    /\ registered' = [registered EXCEPT ![p] = {}]
    /\ missed' = [missed EXCEPT ![p] = {}]
    /\ passedOver' = [passedOver EXCEPT ![p] = {}]

BootInit ==
    /\ \/ objects = {} /\ display = [columns |-> {}, stubbed |-> FALSE]
       \/ objects = Older /\ display = [columns |-> DisplayColumns, stubbed |-> FALSE]
    /\ pc = [p \in Processes |-> 0]
    /\ registered = [p \in Processes |-> {}]
    /\ missed = [p \in Processes |-> {}]
    /\ passedOver = [p \in Processes |-> {}]
    /\ troubles = 0

\* restart: unless-stopped.
BootStart(p) ==
    /\ pc[p] = 0
    /\ pc' = [pc EXCEPT ![p] = 1]
    /\ UNCHANGED <<bootDb, registered, missed, passedOver, troubles>>

Booting(p) == pc[p] \in 1..Len(Program)
Serving(p) == pc[p] = Len(Program) + 1

\* What the first k statements of a migration leave; it has one view at the most.
Leaves(stmts, k) ==
    LET views == {i \in 1..k : stmts[i].shape # {}}
    IN  /\ objects' = After(stmts, k)
        /\ IF views = {}
           THEN UNCHANGED display
           ELSE \E i \in views :
                   display' = [columns |-> stmts[i].shape, stubbed |-> stmts[i].stubs]

\* Mutant: a migration that fails is logged, whatever it was for.
StepIsLogged(p, step) ==
    /\ pc' = [pc EXCEPT ![p] = @ + step.skips]
    /\ UNCHANGED <<registered, missed>>
    /\ step.fatal => UNCHANGED passedOver
\* The step of a boot fails: the process ends, or it is logged and the boot goes on.
StepFails(p, step) ==
    IF step.fatal
    THEN BootEnds(p)
    ELSE /\ pc' = [pc EXCEPT ![p] = @ + step.skips]
         /\ UNCHANGED <<registered, missed>>

BootAdvance(p) ==
    /\ Booting(p)
    /\ LET step == Program[pc[p]]
           ran == Ran(step.stmts)
       IN  /\ Leaves(step.stmts, ran)
           /\ IF ran = Len(step.stmts) /\ step.requires \subseteq registered[p]
              THEN /\ pc' = [pc EXCEPT ![p] = @ + 1]
                   /\ registered' = [registered EXCEPT ![p] = @ \cup step.offers]
                   /\ missed' = [missed EXCEPT ![p] = @ \cup (step.wants \ registered[p])]
                   /\ UNCHANGED passedOver
              ELSE /\ StepFails(p, step)
                   /\ ~step.fatal => passedOver' = [passedOver EXCEPT ![p] = @ \cup {pc[p]}]
    /\ UNCHANGED troubles

\* The database, Redis or the disk does not answer, after some of the statements.
BootTrouble(p) ==
    /\ Booting(p)
    /\ troubles < MaxTroubles
    /\ LET step == Program[pc[p]]
       IN  /\ step.outside \/ step.stmts # <<>>
           /\ \E k \in 0..Ran(step.stmts) : Leaves(step.stmts, k)
           /\ StepFails(p, step)
           /\ ~step.fatal => UNCHANGED passedOver
    /\ troubles' = troubles + 1

\* A process is killed, or redeployed, wherever it is.
BootKill(p) ==
    /\ pc[p] > 0
    /\ troubles < MaxTroubles
    /\ BootEnds(p)
    /\ troubles' = troubles + 1
    /\ UNCHANGED bootDb

BootNext == \E p \in Processes : BootStart(p) \/ BootAdvance(p) \/ BootTrouble(p) \/ BootKill(p)

BootSpec == BootInit /\ [][BootNext]_bootVars

-----------------------------------------------------------------------------
(* Properties.                                                             *)

BootTypeOK ==
    /\ pc \in [Processes -> 0..(Len(Program) + 1)]
    /\ passedOver \in [Processes -> SUBSET (1..Len(Program))]
    /\ display.stubbed \in BOOLEAN
    /\ troubles \in 0..MaxTroubles

\* No boot passes over a step because a table or a column comes later or was taken by
\* another boot, and no plugin of a process that serves asked for a seam that the host
\* published only afterwards (main.go:879-883, storage/migrate.go:1074-1086,
\* agentdispatch_web.go:88-89).
ServesWhole ==
    \A p \in Processes :
        /\ passedOver[p] = {}
        /\ Serving(p) => missed[p] \cap registered[p] = {}

\* However boots interleave, and wherever one was cut, in the end every process serves
\* and the identity view shows the columns of the host, not the stubs of the baseline.
BootsSettle ==
    (\E p \in Processes : Booting(p)) ~>
        [](/\ \A p \in Processes : Serving(p)
           /\ ~display.stubbed)

\* No process serves while the view is stubbed.  Checked by hand: another process that
\* boots replaces the view by the baseline's on its way.
NoStubsWhileServing == \A p \in Processes : Serving(p) => ~display.stubbed
=============================================================================
