-------------------------------- MODULE Neutral --------------------------------
(***************************************************************************)
(* Neutral leech: torrents an operator marked, and windows in which        *)
(* nothing counts, kept in the database and copied to memory for the       *)
(* announce path (neutral_web.go, storage/neutral.go).  A page that writes *)
(* reads both halves again and swaps the copy in whole.                    *)
(***************************************************************************)
EXTENDS Integers, FiniteSets

CONSTANTS
    Torrents, Admins,
    MaxWindow,     \* neutralMaxWindowHours
    Hours,         \* what an operator types, 0 for none
    LastHour,      \* bound: the clock
    MaxFailures     \* bound: statements that fail

ASSUME NeutralAssumption ==
    MaxWindow \in Nat /\ Hours \subseteq Nat /\ LastHour \in Nat /\ MaxFailures \in Nat

None == -1       \* no row, or no window
Never == LastHour + MaxWindow + 9
Times == Nat
Expiries == Times \cup {Never}

VARIABLES
    now,
    rows,      \* neutral_torrents.expires_at by torrent, None where there is no row
    window,    \* the row neutral_until
    mirror,    \* neutralMirror: the marked torrents and the end of the window
    page,      \* adminNeutralSet in each operator's hands
    missed,    \* a refresh failed and none has succeeded since (history)
    failures

neutralVars == <<now, rows, window, mirror, page, missed, failures>>

NoPage == [pc |-> "idle"]
NeutralTypeOK ==
    /\ now \in 0..LastHour /\ rows \in [Torrents -> Expiries \cup {None}]
    /\ window \in Times \cup {None} /\ missed \in BOOLEAN /\ failures \in 0..MaxFailures
    /\ mirror \in [hashes : SUBSET Torrents, until : Times \cup {None}]
    /\ \A a \in Admins : page[a] = NoPage \/ page[a].pc \in {"refresh", "window", "swap"}

ActiveNeutralHashes == {h \in Torrents : rows[h] # None /\ rows[h] > now}

NeutralInit ==
    /\ now = 0 /\ rows = [h \in Torrents |-> None] /\ window = None
    /\ mirror = [hashes |-> {}, until |-> None]
    /\ page = [a \in Admins |-> NoPage] /\ missed = FALSE /\ failures = 0

NeutralTick == now < LastHour /\ now' = now + 1 /\ UNCHANGED <<rows, window, mirror, page, missed, failures>>

(***************************************************************************)
(* adminNeutralSet.  A write that fails is logged, and the copy refreshed  *)
(* all the same.                                                           *)
(***************************************************************************)
Writes(a) == page[a] = NoPage /\ page' = [page EXCEPT ![a] = [pc |-> "refresh"]]

OpenWindow(a, hours) ==
    /\ Writes(a)
    /\ window' = IF hours = 0 THEN None ELSE now + (IF hours > MaxWindow THEN MaxWindow ELSE hours)
    /\ UNCHANGED <<now, rows, mirror, missed, failures>>

Mark(a, h, hours) ==
    /\ Writes(a)
    /\ rows' = [rows EXCEPT ![h] = IF hours = 0 THEN Never ELSE now + hours]
    /\ UNCHANGED <<now, window, mirror, missed, failures>>

ClearNeutralTorrent(a, h) ==
    /\ Writes(a)
    /\ rows' = [rows EXCEPT ![h] = None] /\ UNCHANGED <<now, window, mirror, missed, failures>>

WriteFails(a) ==
    /\ failures < MaxFailures /\ failures' = failures + 1 /\ Writes(a)
    /\ UNCHANGED <<now, rows, window, mirror, missed>>

(***************************************************************************)
(* refreshNeutralMirror: the torrents, then the window, then the swap.     *)
(***************************************************************************)
ReadHashes(a) ==
    /\ page[a].pc = "refresh"
    /\ page' = [page EXCEPT ![a] = [pc |-> "window", hashes |-> ActiveNeutralHashes]]
    /\ UNCHANGED <<now, rows, window, mirror, missed, failures>>

ReadHashesFails(a) ==
    /\ page[a].pc = "refresh" /\ failures < MaxFailures /\ failures' = failures + 1
    /\ page' = [page EXCEPT ![a] = NoPage] /\ missed' = TRUE
    /\ UNCHANGED <<now, rows, window, mirror>>

\* A window that cannot be read is no window.
ReadWindow(a, read) ==
    /\ page[a].pc = "window"
    /\ read \/ failures < MaxFailures
    /\ failures' = IF read THEN failures ELSE failures + 1
    /\ page' = [page EXCEPT ![a] = [pc |-> "swap", hashes |-> @.hashes, read |-> read,
                                    until |-> IF read THEN window ELSE None]]
    /\ UNCHANGED <<now, rows, window, mirror, missed>>

SwappedTorrentsOnly(a) == [hashes |-> page[a].hashes, until |-> mirror.until]
Swapped(a) == [hashes |-> page[a].hashes, until |-> page[a].until]

Swap(a) ==
    /\ page[a].pc = "swap"
    /\ mirror' = Swapped(a) /\ missed' = ~ page[a].read
    /\ page' = [page EXCEPT ![a] = NoPage] /\ UNCHANGED <<now, rows, window, failures>>

\* wireNeutral at boot: the copy begins empty and is read as after a write.
NeutralRestart(a) ==
    /\ page' = [b \in Admins |-> IF b = a THEN [pc |-> "refresh"] ELSE NoPage]
    /\ mirror' = [hashes |-> {}, until |-> None]
    /\ UNCHANGED <<now, rows, window, missed, failures>>

\* hostPolicySource.Flag: what an announce is told.
Flag(h) == (mirror.until # None /\ now < mirror.until) \/ h \in mirror.hashes

NeutralNext ==
    \/ NeutralTick
    \/ \E a \in Admins :
           \/ \E hours \in Hours : OpenWindow(a, hours) \/ \E h \in Torrents : Mark(a, h, hours)
           \/ \E h \in Torrents : ClearNeutralTorrent(a, h)
           \/ WriteFails(a) \/ ReadHashes(a) \/ ReadHashesFails(a)
           \/ \E read \in BOOLEAN : ReadWindow(a, read)
           \/ Swap(a) \/ NeutralRestart(a)

NeutralSpec == NeutralInit /\ [][NeutralNext]_neutralVars

(***************************************************************************)
(* Properties.                                                             *)
(***************************************************************************)
Settled == ~ missed /\ \A a \in Admins : page[a] = NoPage
Due(h) == (window # None /\ now < window) \/ h \in ActiveNeutralHashes

\* Nobody writing and no read having failed, an announce is told of every mark and
\* window in force, and of none that was cleared ("the write that did not refresh
\* it would leave the change invisible until the next boot").
AnnounceFollowsWrites ==
    Settled => \A h \in Torrents : /\ Due(h) => Flag(h)
                                   /\ rows[h] = None /\ ~ Due(h) => ~ Flag(h)

\* A mark that has expired is not in force: "nothing reads them as active because
\* ActiveNeutralHashes filters on the same clause".
ExpiredIsNotNeutral ==
    Settled => \A h \in Torrents : Flag(h) => Due(h)
===============================================================================
