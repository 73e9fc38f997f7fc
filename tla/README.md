# A TLA+ model of loon-site

loon-site is one Go program, run as one or several processes over a shared
PostgreSQL database (and, where there is one, Redis). It serves the pages of a
torrent and Usenet site, an API for a fleet of download agents, and a set of
scheduled jobs. Most of its features live in plugins outside this repository; what
the repository keeps for itself is storage, sign-in, invitations, points, the
agents' work queue, the catalogue, the menus and widgets, and the wiring.

The model is about the places where a request is more than one statement. Two
requests, two processes, or a request and a crash meet between those statements,
and no test of the repository runs them in that order.

## 1. Inventory

| Part | State | Operations | Meets | Module |
|---|---|---|---|---|
| **Agent work queue** (`storage/agenttasks.go`, `handlers/agentapi_web.go`, `agentdispatch_web.go`) | `agent_task` rows, `agent` rows (cap, counter, last seen) | dispatch, poll and lease, report and renew, complete, reclaim, retire, change a cap | agents over HTTP, the TV grab job, the operator | `AgentQueue`, `GrabLedger` |
| **Agent registry** (`storage/agents.go`, `agent_web.go`, `agentadmin_web.go`) | names, owners, hashes of tokens, the secret of the process | register, create, rotate, delete | workers with an old token, members and operators at once | `AgentRegistry` |
| **Invitations and registration** (`storage/invites.go`, `invitecodes_web.go`, `inviteissuer_web.go`, `auth_web.go`, `access_web.go`) | balances, codes, the registration mode | grant, issue, revoke, refund, expire, look up, redeem | plugins that issue, the operator's settings | `Invites` |
| **Second factor and sign-in** (`storage/security.go`, `security_web.go`, `totp_web.go`, `auth_web.go`) | live and pending secret, recovery codes, sessions | begin, confirm, cancel, regenerate, disable; password, challenge, recovery code | itself, from two tabs or browsers | `TwoFactor` |
| **Email change** (`storage/security.go`, `security_web.go`) | links, addresses | request, claim, apply, drop the others | another account that takes the address | `EmailChange` |
| **Rate limiting** (`middleware/throttle*.go`) | token buckets in a map or in Redis | take, give back, sweep, drop the table | login (refund), Redis outages | `Throttle`, `Budget` |
| **Points and gifts** (`storage/gifts.go`, `points_web.go`) | balances, ledger, row locks | transfer, award, charge | two crossed gifts | `Points` |
| **Seeding points** (`seedpoints_web.go`, `storage/seedpoints.go`) | balances, carry, last-run marker | a run, by the loop or by hand | the tracker's swarm, a run at once | `SeedPoints` |
| **Neutral leech** (`storage/neutral.go`, `neutral_web.go`) | marks, windows, a copy in memory | mark, clear, open a window, refresh | every announce | `Neutral` |
| **Cart, bookmarks, follows, wishlist, grabs** | one list each | add, remove, clear, archive | two tabs of one member | `MemberLists` |
| **Undo and avatars** (`undo_web.go`, `avatar*_web.go`) | files, columns of `users`, offers, the review queue | upload, remove, restore, review, sweep | moderation, the sweep of the directory | `Avatars` |
| **Community moderation** (`communitymod_web.go`) | reported items, their votes and resolutions | report, vote, decide, resolve by staff | the member's own picture and its undo, votes that cross | `CommunityMod` |
| **Site settings** (`storage/settings.go`, the admin pages) | rows, copies in the memory of each process | save, adopt, load at boot | every other part, other processes | `SiteSettings` |
| **Catalog chain and covers** (`internal/catalogchain`, `catalog_web.go`, `covercache_web.go`, `locallink_web.go`) | sources, entries, cover art, cursors | match, confirm, fetch, copy, sweep | providers, the operator's mode | `CatalogChain`, `CoverCache`, `CatalogSweep` |
| **TV schedule** (`tvschedule_web.go`, `tvgaps_web.go`, `tvgapsrequest_web.go`) | the window, gaps, requests | a pass: refill, compare, file | the upstream schedule, the index | `TvSchedule` |
| **Boot and migrations** (`main.go`, `*_wiring.go`, `storage/migrate.go`) | tables and columns, seams offered to plugins | the seventy steps of a boot, a restart | other processes booting on the same database | `Boot` |
| **Navigation and pages** (`storage/sitenav.go`, `navadmin_web.go`, `pagesadmin_web.go`) | menus, links, pages, the copy drawn from | lift, ensure, save the grid, place a page, delete | two editors, a boot | `SiteNav` |
| **Widgets** (`storage/widgets.go`, `widgetsadmin_web.go`, `widgets_web.go`, `widgetpages.go`) | placements, page rules, seeders' markers | place, remove, move, toggle, render, seed | two editors, a boot that seeds | `Widgets` |
| **Demo data** (`demoseed_web.go`, `demoseedtracker_web.go`, `forum_web.go`, `rewardsmetrics_web.go`) | rows planted in empty tables, ages of demo peers | plant, refresh | operators' edits, real clients | `DemoSeeds`, `DemoSwarm` |
| Everything else | plugin tables, editorial rows | one statement or one page each | | |

`PROJECT.json` lists every part, with what is left out of it, and every hazard at
its line with the properties that watch it. What is hard in the parts:

- *Queue.* The lease is one SQL statement, but under READ COMMITTED its subqueries
  count and list on the snapshot it starts with, and the row is locked and written
  later. Nothing reaps a stale lease except the next poll. Renewal is per agent, not
  per lease. Answers can be lost, and workers crash and come back under their name.
- *Registry.* The row keeps a hash, so a token exists only in the answer to the call
  that minted it. Three kinds of caller write one name at once, and a registration
  may be handled after its repetition.
- *Invitations.* A registration looks a code up, creates the account, redeems the
  code and issues the session, in four steps. Limits are checked before the mint. A
  refund follows its revocation. The mode is read twice.
- *Second factor.* The form's check, the new recovery codes and the promotion of
  the secret are three statements; so are the check, the removal and the deletion.
- *Points, rates, carts, settings.* Check-then-act on counts; writes that belong
  together and are not one transaction; markers written last; copies in memory that
  only a write or a boot refreshes.
- *Boot.* The order of its steps is held by nothing but their place in the code;
  most of them only log what fails, and they run again, from the top, on a database
  another process may be booting against.
- *Editors.* A grid or an order is read, and saved over whatever came since.
- *Moderation.* A vote is cast by one statement and counted by the next, and a decision
  is three more: look the item up, take the picture down, close the item.
- *Seeders.* They count rows, and never return to a table that has one.

## 2. Modules

A component module holds the state, the operations and the properties of its part.
The parts of a composite share no state, so that in each of its behaviours one of
them moves, chosen in the initial state by `part`; a run then checks several of them.

| Module | What it is |
|---|---|
| `AgentQueue` | the queue, statement by statement, with the workers as far as the protocol prescribes them |
| `GrabLedger` | what the dispatcher promises: a torrent is taken up once and dealt with once. `AgentQueue!DealtWithOnce` is its specification under the mapping `Ledger` |
| `Invites` | balances, codes and the registration gate |
| `TwoFactor` | one account's second factor and the sign-ins that depend on it |
| `Budget` | what a rate limit promises. `Throttle!KeepsBudget` is its specification under `Credit` |
| `MCAgentQueue`, `MCInvites`, `MCTwoFactor` | values and symmetry sets of small instances |
| `MCAccounts` | `TwoFactor`, `EmailChange`, `Throttle`, `CommunityMod` |
| `MCMembers` | `Avatars`, `MemberLists`, `SeedPoints`, `AgentRegistry`, `Boot`, `SiteNav`, `Widgets`, `DemoSeeds`, `DemoSwarm` |
| `MCJobs` | `Points`, `CatalogSweep`, `TvSchedule`, `Boot`, each with its fairness |
| `MCOperator` | `AgentQueue` (its caps), `SiteSettings`, `Neutral`, `CatalogChain`, `CoverCache` |
| `AgentQueueProofs`, `InvitesProofs`, `TwoFactorProofs` | the theorems of `AgentQueue`, `Invites`, `TwoFactor` |
| `AccountProofs` | those of `EmailChange`, `Throttle` and `CommunityMod` |
| `OperatorProofs` | those of `Neutral`, `CoverCache`, `SiteSettings`, `CatalogChain` and `TvSchedule` |
| `MemberProofs` | those of `Points`, `SeedPoints`, `MemberLists` and `Avatars` |
| `SiteProofs` | those of `AgentRegistry`, `Boot`, `SiteNav`, `Widgets`, `DemoSeeds` and `DemoSwarm` |
| `Sums` | lemmas about sums over finite sets, and about the ranks of their members |

### AgentQueue

`task` is `agent_task`, keyed by the id sequence, with the state `"none"` where there
is no row; `agent` is the agent's row with its cap and counter; `poll` and `comp` are
handlers in flight. `worker` and `known` are the process on the other side, modelled
from the protocol and marked external. `silence` and `grants` are history.

| Action | Code |
|---|---|
| `Dispatch` | `agentDispatcher.Dispatch`, `EnqueueTask` (key trimmed and lowercased, any state blocks) |
| `agentPoll` | `agentPoll` up to the lease: reclaim, heartbeat, cap as authenticated |
| `LeaseSnapshot`, `LeaseTake`, `LeaseError` | `LeaseNextTask`: count on the snapshot, then the lock with SKIP LOCKED and the write |
| `Report` | `agentStatus`, `agentProgress`: renewal of all leases, then the task's own line |
| `agentComplete`, `agentCompleteUnparsed`, `CompleteTask` | `agentComplete`: `CloseTask`, then the counter |
| `DeleteTask`, `DeleteAgent`, `SetAgentMaxConcurrent` | the operator's pages |
| `Register`, `Crash`, `Restart`, `Tick` | the worker's process, `EnsureAgent`, and time |

Time is the age of a lease, which stops at `TTL + 1`: beyond that it is stale, and
nothing in the code tells older from older.

### Invites

`user` is the account with its balance and how it joined, `code` is `invite_codes`,
`mode` and `opts` are the mirrors that handlers read, and `visitor`, `issuer` and
`owed` are the handlers in flight: a registration between lookup, account and
redemption, an issue between its checks and its mint, a revocation whose refund is
due. `MintInviteCode` is one transaction and so is one step.

### TwoFactor

One account, since every statement is keyed by it. `tab` holds the settings requests
in flight (`issue` or `reissue`, `enable`, `spend`, `clear`, `delete`), `seat` each
browser's session. A code of an authenticator app is the secret it is made from; its
arithmetic and its ninety seconds are left out. `Fails` ends a request anywhere,
which covers failing statements and crashes alike. A tab keeps the secret whose code it
checked. `minted`, `issued`, `shown` and `accepted` are history, and so are the two records
of requests that met: `overtaken`, the requests under way whose ground another has changed
since their check (the pending column a confirmation is about to promote, the codes a
removal is about to delete), and `astray`, that such a request went through and no codes
were written since.

### EmailChange, Throttle

`EmailChange` has the links of several accounts and what each request has still to do:
`apply` after the claim, `drop` after the write. Any statement after the claim may
fail. `Throttle` counts tokens in ticks, `Every` of them to a token, so that fractions
are exact; a call reaches Redis in time, Redis too late and the local table, or the
local table alone (`Reached`), which are the outcomes of the script under its deadline.
Its refinement of `Budget` maps each table's bucket to the credit it would find now, so
that forgetting an idle bucket must not be seen, and dropping a table at its bound must.

### Points, SeedPoints, Neutral, MemberLists, Avatars

A gift holds row locks (`Holds`, `Waits`) from its first update to its commit; an award
is an update and then an insert. `SeedPoints` counts in units, `Unit` to a point, and
keeps the carry, the marker and the credit apart as the code does; `covered` and `due`
are history. `Neutral` has the rows, the copy and the pages that refresh it, with each
read failing on its own. `MemberLists` keeps the statements of each list apart by tab;
`Avatars` has the directory, the members' columns, the undo offers and the review queue,
and the sweep as list, read, read, remove.

### CommunityMod

`ballot` is what each member's request does next: `file`, `find`, `report` of a report,
`cast`, `decide` of a vote, and `resolve`, `apply`, `close` of a decision, the
community's (`Community`) or an administrator's. A picture is the member's nth; what it
leaves behind when it is cleared is in `Avatars`. `filed` says that the last vote on an
item came with a report, and `cleared` which removals were carried out: history.

### SiteSettings, CatalogChain, CoverCache, CatalogSweep, TvSchedule

A form is a program of stores, adoptions, copies and swaps (`SaveProgram`), taken from
its handler in order; a boot reads the rows group by group and goes on after a group it
cannot read. `torn` records the groups of which a save failed, was cut by a restart or
met another: there, and only there, rows of one form may be a mixture
(`RowsAreOneAnswer`). `CatalogChain` is the lookup over two kinds of sources, titles
being sets of words, and `live` the sources that answer. `CoverCache` has the goroutines
inside `localize`, the entry that joins them, and the mode read twice. `CatalogSweep`
has the two cursors, kept in the database and moved before the work. `TvSchedule` is one
pass with each of its upstream reads failing on its own.

### Boot

`Program` is the boot: a sequence of steps, each with the statements it runs (what a
statement needs, makes and reads), the seams it offers and looks up, and whether its
error ends the process. Several processes run it over one database; statements of one
step commit one by one. `MigrateUsers`, `PluginTables`, `CoreBoot` and `PluginDeps` stand
for code outside the repository, by what the host's statements need of it.

### SiteNav, Widgets

Tables and their copy per server; an editor holds the grid it opened and saves it row
by row (`editing`), a page's editor places and removes one link. Boots lift the old
table and ensure what is shipped. `AssembleNav` is the drawing, a pure function of the
copy, with the rescue of links whose menu is gone. `Widgets` keeps placements by region;
`RenderPlaced` is what a page draws, in the order of position and then of name.

### DemoSeeds, DemoSwarm, AgentRegistry

A seeder is its list of statements (`Scripts`) with what each needs and where the seeder
goes when it fails; a row is its table, key and number. `DemoSwarm` has ages in minutes, the
job's ranking and the clients that announce. `AgentRegistry` has rows with the hash of
a token under the secret of the process, registrations under way, and as history what
members were shown and what was revoked.

## 3. What is checked

Runs that pass:

| Run | Question | Bounds |
|---|---|---|
| `queue_leases` | Can two agents hold or close one row, or work be torn from an agent that reports? | 2 agents, 2 torrents, TTL 1, two requests at once, cap 1 |
| `queue_failures` | Does a torrent stay queued once and dealt with once, through crashes, restarts, lost answers, failing statements, unparsed bodies and deletions? | 2 agents, 1 torrent in two spellings, ids for 2 rows, TTL 0 |
| `queue_live` | Does the queue drain though a worker dies? | 2 agents, one mortal, 2 torrents, no symmetry |
| `invites_ledger` | Do invites come from grants alone? | 2 members, 3 codes, failing statements, refunds switched on and off |
| `invites_gate` | Is a code claimed once, by its address, and never also cancelled? | 3 accounts, 1 code, 2 registrations, one issuer, staff and plugin |
| `accounts` | Does a recovery code open one door, a password alone none while the factor is on, does the factor go on and off only as asked; is no link from an old address live; is nobody served beyond the budget; is what was voted for done once, before it is recorded, and not left undecided by votes that cross? | 2 browsers, 2 tabs, 3 secrets, 2 sets of 1 code; 2 accounts, 3 addresses, 2 links; 2 callers, 1 replica and Redis, burst 1; 2 administrators and a member (the quorum), one reported picture, one mishap |
| `members` | Does the sweep spare what is shown or could be restored; do carts keep their bound; is seeding time paid once; do two boots at once pass over nothing; are menus and the layout the operators'; do seeders pay what they promise and leave deletions alone; does the demo's swarm leave clients alone; do credentials open only their owner's agent? | below |
| `jobs` | Do balances add up and gifts end; do sweeps reach every release; are gaps requested, and nothing that is held; do boots settle? | 2 gifts and 1 charge, 2 members; 3 releases, batch 1; 3 episodes on 2 days, 1 request a pass; 1 process, 2 troubles |
| `operator` | Is the cap of a poll respected and every completion counted; is a confirmed title returned by the source that has it; is an image fetched once and the mode kept; does memory follow the rows, and are the rows of a form one answer; does an announce follow what was written? | 1 agent, 3 torrents, caps 1 and 2; 3 sources, of which the index strips the noise word of the release, stride 2 with ids at the stride; 2 callers; 2 processes, five forms, 2 saves, 1 boot, 1 mishap; 2 torrents, 3 hours, 1 failure |

Two actors are enough where the hazard is a race between two statements of the same
kind; a third torrent is there where a cap of two has to be passed, three codes where
a refund pays for the next invite. TTL 1 separates fresh, aged and stale; TTL 0 keeps
the failures run small and still has both sides of the comparison. In `members`: two
pictures, two requests of one uploader; two tabs and three releases of which two have
one name; two seeders, two economies, the loop and the trigger, three ticks and one
mishap; two processes with one trouble; one editor of the menus with two rows of their
own, and one link shipped; two editors of one region with two widgets; one planter with
two edits and two mishaps, three torrents; two members with four torrents each, one of
them with a real client, for four hours; one worker, two members, one name, four
tokens, two secrets, one mishap. Every bound is a constant of its module with a comment
that says what it bounds. `CHECK_DEADLOCK FALSE` is set throughout: an instance stops
when its ids, grants or mishaps are used up and nobody is at work.

Runs that find a statement of the code's own comments violated:

| Run | What happens |
|---|---|
| `invites_unredeemed` | Two registrations pass the lookup with one code; the one that loses the redemption is signed in all the same |
| `two_confirms` | A setup form is confirmed twice; the second `EnableTOTP` promotes the column the first has emptied, and the factor is off |
| `tv_bad_day` | One day of the schedule cannot be read; the window is refilled from the others, and the pass ends in error without gaps, requests or grabs |

### Counterexamples kept to be run by hand

As configurations: `AgentQueueTwoPolls` (two polls of one agent count on snapshots that
do not see each other), `AgentQueueRestart` (a worker that comes back under its name
renews the lease of work it has forgotten), `AgentQueueRetriedCompletion` (a repeated
completion closes nothing and is counted), `InvitesTwoIssuers` (two members invite one
address), `InvitesExpiredCancelled` (an expired invite is revoked and refunded),
`InvitesModeFlip` (the mode changes between two reads), `TwoFactorUnshown` (an enrolment
fails between its codes and the promotion).

As properties: copy the composite's configuration and name the property in place of its
own.

| Property | Configuration, and what to change | What it shows |
|---|---|---|
| `InvitesConserved` | `InvitesLedger`, `SiteIssues = TRUE` | an invite that was never charged is refunded |
| `LiveSecretIsProven` | `TwoFactorTwoConfirms` | a second tab begins anew between the check of a code and the promotion, and a secret nobody verified is live (`security_web.go:22`) |
| `LiveFactorHasCodes` | `TwoFactorTwoConfirms` | a removal deletes the codes that an enrolment beside it has just written, and the factor is on without any (`storage/security.go:107-108`) |
| `AppliedFromHere` | `Accounts` | two links are claimed before either drops the other, and the one applied last wins |
| `BalanceIsLedger` | `Jobs` | a balance moved and its ledger row failed (`points_web.go:35-37`) |
| `FractionsAreKept` | `Members`, `Runs = {"loop"}` | a carry that could not be read is overwritten |
| `ShownAvatarHasFile` | `Members` | a picture is swept between its listing and its showing (`avatarsweep_web.go:24-26`) |
| `WishesWithinCap` | `Members`, `Wishes = {1, 2}` | two tabs wish at once (`wishlist_web.go:43-46`) |
| `ArchiveNamesDistinct` | `Members`, `Titles <- ThreeNamesakes`, `CartCap = 3` | three files of one name make two entries of one name (`cart_web.go:280-285`) |
| `FetchedOnce`, `FailureKeepsTheUrl`, `ArtIsReachable` | `Operator` | an image asked for again after its entry went; a blank over a URL; a row and its entry with different covers |
| `RestartKeepsTheSiteClosed`, `FeaturesAgree` | `Operator` | a boot that cannot read goes by defaults; two processes differ |
| `ExpiredIsNotNeutral` | `Operator` | an expired mark counts until the next write (`storage/neutral.go:53-57`) |
| `AnnounceFollowsWrites` | `Operator`, two `Admins` | the older of two refreshes is swapped in last |
| `NoStubsWhileServing` | `Members` | a second boot stubs the view under a process that serves (`main.go:830-832`) |
| `OtherIsThere`, `NoDeadLinks`, `MirrorFollowsTables` | `Members`, two `Servers` for the last | a boot that could not write the menus; a link to a page that was deleted meanwhile; a copy of another process |
| `SlotsAreDistinct` | `Members` | two operators add at once (`storage/widgets.go:79-82`) |
| `AccountedBySize`, `NothingHalfPlanted`, `NoTwins` | `Members`, two `Planters` for the last | sizes of the neighbours once a torrent failed; a thread without its post; two boots plant one row |
| `StopsForClients`, `OrderIsKept`, `SwarmLooksAlive` with one row | `Members` | the job goes on beside real clients (`demoseedtracker_web.go:406`, `admin_wiring.go:212`); it changes who announced last (`:332`) |
| `DecidedAfterEveryVote` | `Accounts` | a report is a vote (`communitymod_web.go:42`) and `decide` is called "after every vote" (`:164`), but not after a report: a report can be the last vote and leave an item open with a decisive tally |
| `ReportedPictureGoes`, `KeptIsKept`, `OnlyOpenIsVotedOn` | `Accounts`, `MaxPictures = 2` for the first | what is taken down is what the member shows by then (`storage/migrate.go:307-309`); an item closed as kept while a removal was under way; a vote cast on an item closed since it was looked up (`storage/settings.go:61-63`) |
| `RegistrationSparesOthers` | `Members`, `Workers = {"w1", "w2"}` | two machines under one name take the token from each other (`agentapi_web.go:62`) |

Comments of the code that the model does not follow: `plugins_wiring.go:53-56` has the
communities last, the code has others after them; `migrate.go:12-14` has the donations'
tables made only where donations are switched on, `donations_web.go:116-120` makes them
wherever there is a database; the news text of `demoseed_web.go:240` promises that
anything deleted stays that way, which holds neither for rows asked for by name nor for a
table that was emptied.

### Fairness

`queue_live` (and `AgentQueueRestart`): weak fairness of `Tick`, time passes; of `Lease`
and `CompleteTask`, a request the site has begun is answered, one statement after the
other; of `Register`, `agentPoll`, `Report(a, NoLock)` and of completing something held,
a worker that is up runs the loop that the protocol gives it. A crashed worker is
promised nothing, and neither are the dispatcher and the operator. Every agent is in
`Prompt`: a worker that runs reports at least once per TTL, as the status interval
against the fifteen-minute lease provides; without it a healthy worker can lose its
lease again and again and the queue need not drain.

`jobs`: strong fairness of a gift's next statement, or of its refusal or of the deadlock
detector's rollback where that is what comes next, since a row's lock is a queue and
whoever waits in it is served in turn although others come; a statement that fails is
never owed; weak fairness of the two sweeps and of a pass, which are loops on tickers of
a process that runs; weak fairness of `BootStart` and `BootAdvance`, since
`docker-compose.yml` restarts the process unless it is stopped. Mishaps are bounded and
get no fairness.

## 4. What is proved

Each theorem is for every value of the constants that the module's `ASSUME` admits:
any number of agents, members, pictures, tabs, processes, any cap, TTL or rate, and any
number of failures unless a hypothesis says otherwise. The assumptions are few and about
data: which placeholder is not a real value, which bound is a natural number, what is
finite. A property of a run with a theorem of its own is named with it.

| Theorem | Property it states | Hypothesis |
|---|---|---|
| `AgentQueueProofs`: `TypeCorrect`, `DedupHolds`, `HealthyHolds`, `QueueBetweenHolders`, `FinishedStays`, `HolderCloses`, also `SilenceHolds`, `HolderReports` | `TypeOK`, `OneRowPerTorrent`, `HealthyAgentKeepsLease`, `LeaseMovesThroughQueue`, `FinishedIsFinal`, `OnlyHolderCloses` | |
| `QueueImplementsLedger` | `DealtWithOnce`, the refinement of `GrabLedger` | |
| `CapsAndCountersHold` | `CappedAndCounted` | `OnePollAtATime`, `~Faults` |
| `InvitesProofs`: `TypeCorrect`, `ClaimsHold`, `ChainHolds` | `ClaimedAsIssued`, `ChainIsFinal` | |
| `Conserved` | `InvitesConserved` | `~SiteIssues` |
| `TwoFactorProofs`: `TypeCorrect`, `CodesOpenOnce`, `AcceptedWasValid`, `NoPasswordAlone` | `CodeOpensOnce`, `AcceptedCodeWasValid`, `PasswordAloneOnlyWhileOff` | |
| `SecretIsVerified`, `FactorHasCodes` | `SecretMovesAsVerified`, `CodesStandBehindFactor` | |
| `AccountProofs`: `EmailTypeCorrect`, `OldLinksAreDead` | `NoLinkFromOldAddress` | |
| `ThrottleTypeCorrect`, `LimiterKeepsBudget` | `KeepsBudget`, the refinement of `Budget` | |
| `ModTypeCorrect`, `QueueDecides` | `VotesDecide` | |
| `OperatorProofs`: `NeutralTypeCorrect`, `AnnouncesAreTold` | `AnnounceFollowsWrites` | `OneOperator`, for the second |
| `CoverTypeCorrect`, `CoversHold` | `CoversAreSound` | |
| `SettingsTypeCorrect`, `MemoryFollows` | `MemoryFollowsRows` | |
| `ChainTypeCorrect`, `AnswersAreRight` | `CatalogAnswersRight` | |
| `OnlyMissingIsRequested` | `NoRequestForWhatIsHeld`, the safety half of `RequestsAreRight` | |
| `MemberProofs`: `PointsTypeCorrect`, `BalancesHold` | `BalancesAddUp` | |
| `AvatarTypeCorrect`, `SweptIsSpare` | `SweptIsUnneeded` | |
| `SeedTypeCorrect`, `EarnedIsPaid` | `EarnedIsPaidOnce` | |
| `ListTypeCorrect`, `CartsAreBounded` | `CartBounded` | |
| `SiteProofs`: `RegistryTypeCorrect`, `Credentials` | `CredentialsHold` | |
| `BootsStand`, `BootsServeWhole` | `ServesWhole` | |
| `NavIsWhole` | `MenusAreWhole` | `[]OneServer` |
| `LayoutIsKept` | `LayoutIsTheOperators` | `[]OneHost` |
| `SeedsKeep` | `SeedsKeepTheirWord` | `OnePlanter`, `Trimmed` within `Editable` |
| `SwarmIsSeen`, `ClientsKeepTheirWord` | `ClientsAreLeftAlone`, a half of `SwarmIsPlausible` | `[]ClientsAnnounceInTime` |

Every hypothesis is one that the code needs. `~Faults` and `OnePollAtATime`: a completion
whose counter could not be written is not counted, and two polls of one agent count on
snapshots that do not see each other (`AgentQueueTwoPolls`). `~SiteIssues`: a plugin's
invite is not charged and its refund is one more.
`OneOperator`: two refreshes are swapped in in the other order. `OneServer`, `OneHost`,
`OnePlanter`: a second process that boots at the same time has looked before the first
wrote, and puts a shipped link in twice, a removed widget back, or rows into a table that
was filled and trimmed meanwhile. `Editable` names the tables that have an editor and a
seeder that goes by their being empty. `ClientsAnnounceInTime`: a client that is silent for
longer than the window is taken for one of the job's own rows.

### The queue

`OneRowPerTorrent` is not inductive, because `Dispatch` compares the new key with the
stored ones: stored keys must be in normal form (`KeysNormal`, which is where `InfoHash`
being idempotent comes in) and the sequence ahead of every row (`RowsBelowNext`), so that
an insert never lands on one. `LeaseNotOlderThanSilence` is inductive by itself. The
action properties rest on `RowMoves`, which says of every step what it can do to a row:
keep it, enqueue, lease, renew, reclaim, close, report, retire.

The refinement reads an entry of the ledger off the one row of its torrent. A step either
stirs rows (`Stirs`: it leaves each torrent's standing), or is a dispatch, a deletion or a
completion, and those are `TakeUp`, `Retire` and `Deal` of the torrent concerned or, where
the closing statement finds no lease, a stutter. One row per torrent is what makes the
torrent's entry the row's.

For the caps, the count of a poll stays an upper bound of what the agent holds
(`SnapshotsCover`), since a row comes to an agent through a poll of its own and there is
one. For the counter, an agent's completed rows are at most its counter and the bump that
is due (`CountersCover`), where an agent with a bump due has registered (`BumpsAreKnown`).

### Accounts

*Invitations.* A handler in flight carries what it looked up, and that must still be true
of the code when it redeems: minted, and of the address it was locked to (`GateKept`).
Claims and cancellations exclude each other because a code once spent keeps its claimant
and once revoked stays so, and a refund is due for a revoked code only. Conservation
counts each member's outstanding codes; the sets are shown finite along the way, so that a
refund, which takes one code out, and a mint, which adds one, move the count by one.

*Second factor.* An unused code has opened nothing, and therefore no code of a set still
to come has. Any number of tabs may enrol and remove at once: a confirmation past its check
finds in the pending column the secret it verified, and past its replacement of the codes
finds codes, unless it was overtaken; a removal past its first statement deletes nothing that
a live factor needs, unless codes came since (`EnrolInv`). What the two comments say without
those ways around is false with two tabs, and kept above to be run.

*Limiter.* A bucket that is forgotten would have been full, because it is kept for the time
it takes to fill; so the credit a table stands for (`Credit`) does not move when the sweep
takes a bucket, and a call changes it as the abstract budget's call does, whichever of the
two tables it reached. A table that is dropped whole is `Budget`'s own exception.

*Registry.* The promises are about tokens that rows no longer have, so they are carried by
the history: a token is in one row at most, in none once it is revoked, and in its owner's
only if it was shown.

*Email.* A live link was asked for under the present address, or the request that will
drop it is under way, or it could not be dropped (`OldLinksAreDropped`).

*Moderation.* An item with a decisive tally is in somebody's hands (`DecisiveIsInHand`):
whoever casts the decisive vote counts after it. A request that closes an item by the
community saw the quorum, and votes are never taken back.

### Operators

*Neutral.* A set of torrents that was read stays right while the clock goes on, since
expired rows may stay in it, and no write comes between as long as there is one
operator. *Covers.* Entry and download are one to one (`LeadersDownload`,
`DownloadsAreLed`), and whoever waits does so for one that goes on. *Settings.* A step
of a form's program adopts only what an earlier step stored (`Orderly`, checked form by
form), rows are only ever given values that were stored, and a process that read a group
has the rows' values but for what moved since. The rows of a group that is not torn are
one answer because a save of it is alone with it (`RowsInv`): the rows written so far
say what the save says, and a save that ends has written all of them
(`FormsWriteTheirGroups`, again form by form). *Catalogue.* An answer names its source
and the source's own id in one number; for any stride, and the ids that fit under it,
the number is read back to the source and the id it was made from (`EncodedIsDecoded`),
and so what is fetched is what was confirmed. *Television.* What the last pass called a
gap was one when it looked, or a release came since (`GapsAreGaps`), since a season that
could not be read counts as held; requests are filed for gaps alone.

### Members

*Points.* The sum of the balances is what was minted, where a gift takes from the giver and
adds to the receiver in its commit alone. A balance stays above zero because the row's lock
makes the guard of the debit still true at the commit (`GiftsAreFunded`, `OneHolder`).
*Avatars.* The sweep read the columns first and the offers after; a picture travels from
the column by way of a request to the offer (`Carried`), so that one that is needed is in
the list by the time each read is over, except for those that were under way as it read
(`crossed`). *Seeding.* Covered time and the time of runs under way are together within the
recorded time and a catch-up for each mishap (`TimeIsBounded`); points, fraction and carry
in hand are together within what is due, with a fraction lost by each mishap
(`FractionsAreCounted`), and equal to it while there was none (`FractionsAreExact`).
*Carts.* A cart and what the tabs are adding to it are together within the bound.

### The site

*Boot.* Whether what a step needs is made by the steps before it is a question about a
sequence of constants. It is settled once, for each of the eight flavours, by evaluation
(`ProgramIsOrdered`, an assumption that TLC checks on every run of `Boot`); the theorem is
that nothing else matters: tables are only added, whoever adds them, and a process at a step
has behind it what the earlier steps made or were allowed to pass over.

*Menus.* Drawing is a pure function of the copy, and that a link is drawn once follows from
how it picks a menu, whatever the tables hold. That the copy has no shipped link twice rests
on keys: an editor keeps the key of every row and gives its own rows none (`EditorsKeep`), and
what a boot is about to put in is still missing, since nobody else puts in rows with keys.

*Widgets.* A move numbers the order it read, so the reading has to be an order of the region,
every widget once: it ranks by position and then by slug, which is total whatever ties the
positions have (`ReadingIsAnOrder`). The widget moved up is then drawn before the one it
changed places with.

*Seeders.* A row that was taken out can only come back by a statement of a seeder, and that
went by an empty table; so while anything taken out is held against a table, the table has
rows (`HeldRows`), and no statement names a table of the operators that is not its seeder's
(`ScriptsAreRight`, script by script). An achievement comes last of its three statements
(`Readied`).

*Swarm.* A row that is outside the window has been so for no longer than the job has been
waiting, unless a pass failed; a client's row is never outside it, and the job writes no row
that is inside.

### Sums

Three of the members' arguments are about sums over a finite set, and a sum is a fold. The
library's induction theorems take an operator as a parameter, which the provers cannot
instantiate. `Sums` does without: it proves that a set of naturals has a least number and
a family of finite sets a smallest one, and shows by a least counterexample that a sum over
any finite set exists and obeys the equations the invariants need (`TotalMoves`,
`TotalOfTransfer`, `TotalGrows`). By the same means, ranks count (`RanksCount`): the members of
a finite set with a total order have the numbers from one up, each once.

### Changes the proofs asked for

The types of two of the histories in `Points` were wrong, and no run had checked that
invariant (charges make `minted` negative). Assumptions came to `EmailChange`, `Points`,
`SeedPoints`, `MemberLists`, `Avatars`, `Neutral`, `CoverCache` and `SiteSettings`.
Removing from a cart is stated as what is left, in its order (`LeftOf`), and not as a
recursive selection; a run of `SeedPoints` is a record of the set `Payouts`. The
behaviours are the same. A tab of `TwoFactor` keeps the secret it checked, and histories
say which requests met, so that the enrolment's theorems hold for any number of tabs.
`Throttle`, `Widgets` and `DemoSwarm` came to say of their constants what the code has
anyway (rates that are positive, slugs that are ordered one way, finite sets), and
`DemoSeeds` to keep its statements apart from the state they read. `Widgets!DrawnBefore`
says which of two widgets comes first by the order they are read in.

Others were wrong. A shipped link is known by its storey and its address, as in the
code, and not by its address alone; the two storeys' links to one page were one row
before. The assumption on `Boot` was about one flavour, and is about all. A grid of
which a link's statement fails keeps the links written before it
(`SiteNav!StopsAtLinks`), where it kept none. An achievements row of an operator's own
that was taken out and added again was still held against the seeders, which three edits
would have shown and the run's two did not; `DemoSeeds!AddOwn` forgets it. The seeder of
torrents went to a statement it does not have where there is no release to make one of
(`demoseedtracker_web.go:162`).

### Only model-checked

- Liveness: `QueueDrains`, `CrashedWorkReturns`, `EveryGiftEnds`, `SweepsReachEverything`,
  `BootsSettle`. The prover has neither ENABLED nor fairness.
- The half of `RequestsAreRight` that every gap is asked for in the end, which is liveness
  too.
- `SwarmLooksAlive`, the other half of `SwarmIsPlausible`: between passes somebody is counted,
  and no row is older than the window and an interval. Neither is so for every value of the
  constants: with a single row nobody is counted once that row reaches the window, and where
  the interval is no multiple of the clock's grain a row can be older by less than a grain,
  which is what `SwarmIsSeen` states. It is checked on the instance.
- The properties of the counterexamples above, and what their configurations bound.

## 5. What is not modelled

Inside the modelled parts: captcha, login log, mail delivery, the wording of pages, the
marks of an invite that nothing decides on, the tree of invitations (recursive reads),
the authenticator's arithmetic and clock window, images, labels and icons of the
menus, settings of a widget, preferences and status snapshots of an
agent. Failing reads are modelled where they decide something, not where a handler only
gives up. Type invariants of the composites (`AccountsTypeOK`, `MembersTypeOK`,
`JobsTypeOK`, `OperatorTypeOK`) and `Invites!TypeOK` hold, and are in no run.

Whole parts, with status `not_modelled` in `PROJECT.json`: adapters of plugins whose
state is outside this repository (store, donations, rewards, hit and run, communities,
forum, messages, wiki, tickets, news, playlists), pages that only read (search, browse,
Usenet views, series, calendar), lists written by one statement that nothing decides on
(subscriptions, suggestions, counters), functions of one request on strings (binding,
markdown, sanitising, CSP), and observation (metrics, logs, the debug server).

## 6. Plan

Every safety property that a run checks is stated by a theorem, but for `SwarmLooksAlive`.
What could be said next:

1. Theorems without the hypothesis of one process, of what remains true then: that achievements
   can be paid, that a link is drawn in one menu.
2. The hypotheses themselves as the weakest ones: which pairs of steps two refreshes of
   `Neutral` may not take.
3. Refinements: `Points` as transfers that are atomic, `SiteSettings` as one register for each
   row.
