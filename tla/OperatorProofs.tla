----------------------------- MODULE OperatorProofs ----------------------------
(***************************************************************************)
(* What is proved of what an operator sets while the site is at work:      *)
(* neutral leech (Neutral), the mode of the cover art (CoverCache), the    *)
(* settings and their copies in memory (SiteSettings), the catalogue's     *)
(* sources (CatalogChain) and the requests for what is missing on          *)
(* television (TvSchedule).                                                *)
(***************************************************************************)
EXTENDS Neutral, CoverCache, SiteSettings, CatalogChain, TvSchedule, Sums, FiniteSetTheorems, TLAPS

(***************************************************************************)
(* Neutral leech.  A set of torrents that was read stays right as the      *)
(* clock goes on: what expires may stay in it, and nothing else changes    *)
(* while one operator is at work.                                          *)
(***************************************************************************)
Follows(hashes) ==
    \A h \in Torrents : /\ h \in ActiveNeutralHashes => h \in hashes
                        /\ h \in hashes => rows[h] # None

IsPage(r) ==
    \/ r = NoPage \/ r = [pc |-> "refresh"]
    \/ \E S \in SUBSET Torrents : r = [pc |-> "window", hashes |-> S]
    \/ \E S \in SUBSET Torrents, read \in BOOLEAN, until \in Times \cup {None} :
           r = [pc |-> "swap", hashes |-> S, read |-> read, until |-> until]
PageShape == \A a \in Admins : IsPage(page[a])

NeutralShape ==
    /\ now \in 0..LastHour /\ rows \in [Torrents -> Expiries \cup {None}]
    /\ window \in Times \cup {None} /\ missed \in BOOLEAN /\ failures \in 0..MaxFailures
    /\ mirror \in [hashes : SUBSET Torrents, until : Times \cup {None}]
    /\ DOMAIN page = Admins /\ PageShape

\* What a refresh has in its hands is what the tables say.
PageIsFresh ==
    \A a \in Admins :
        /\ page[a].pc \in {"window", "swap"} => Follows(page[a].hashes)
        /\ page[a].pc = "swap" => (page[a].read => page[a].until = window)
MirrorIsFresh == Settled => Follows(mirror.hashes) /\ mirror.until = window

NeutralInv == NeutralShape /\ PageIsFresh /\ MirrorIsFresh

\* One operator is at work at a time.
OneOperator == \A a, b \in Admins : a = b

LEMMA NeutralInitInv == NeutralInit => NeutralInv
<1> SUFFICES ASSUME NeutralInit PROVE NeutralInv
    OBVIOUS
<1> USE DEF NeutralInit, NoPage
<1>1. NeutralShape
    <2>1. 0 \in 0..LastHour /\ 0 \in 0..MaxFailures
        BY NeutralAssumption
    <2>2. mirror \in [hashes : SUBSET Torrents, until : Times \cup {None}]
        OBVIOUS
    <2>3. DOMAIN page = Admins /\ PageShape
        BY DEF PageShape, IsPage
    <2> QED BY <2>1, <2>2, <2>3 DEF NeutralShape
<1>2. PageIsFresh /\ MirrorIsFresh
    BY DEF PageIsFresh, MirrorIsFresh, Follows, ActiveNeutralHashes
<1> QED BY <1>1, <1>2 DEF NeutralInv

\* The shapes alone, whoever is at work.
LEMMA NeutralShapeNext ==
    ASSUME NeutralShape, [NeutralNext]_neutralVars
    PROVE  NeutralShape'
<1> USE DEF NeutralShape
<1>1. ASSUME NEW a \in Admins, NEW r, IsPage(r), page' = [page EXCEPT ![a] = r]
      PROVE  DOMAIN page' = Admins /\ PageShape'
    <2>1. \A b \in Admins : page'[b] = IF b = a THEN r ELSE page[b]
        BY <1>1
    <2>2. PageShape'
        <3> SUFFICES ASSUME NEW b \in Admins PROVE IsPage(page'[b])
            BY DEF PageShape, IsPage, NoPage
        <3> QED BY <1>1, <2>1 DEF PageShape
    <2> QED BY <1>1, <2>2
<1>2. IsPage(NoPage) /\ IsPage([pc |-> "refresh"])
    BY DEF IsPage
<1>3. CASE NeutralTick
    BY <1>3, NeutralAssumption DEF NeutralTick, PageShape, IsPage
<1>4. ASSUME NEW a \in Admins, Writes(a) PROVE DOMAIN page' = Admins /\ PageShape'
    <2>1. page' = [page EXCEPT ![a] = [pc |-> "refresh"]]
        BY <1>4 DEF Writes
    <2> QED BY <1>1, <1>2, <2>1
<1>5. ASSUME NEW a \in Admins, NEW hours \in Hours, OpenWindow(a, hours) PROVE NeutralShape'
    <2>1. hours \in Nat /\ MaxWindow \in Nat /\ now \in Nat
        BY NeutralAssumption
    <2>2. window' \in Times \cup {None} /\ Writes(a) /\ UNCHANGED <<now, rows, mirror, missed, failures>>
        BY <1>5, <2>1 DEF OpenWindow, Times
    <2> QED BY <1>4, <2>2
<1>6. ASSUME NEW a \in Admins, NEW h \in Torrents, NEW hours \in Hours, Mark(a, h, hours)
      PROVE  NeutralShape'
    <2>1. hours \in Nat /\ now \in Nat
        BY NeutralAssumption
    <2>2. now + hours \in Expiries /\ Never \in Expiries
        BY <2>1 DEF Expiries, Times
    <2>3. Writes(a) /\ UNCHANGED <<now, window, mirror, missed, failures>>
        BY <1>6 DEF Mark
    <2>4. rows' \in [Torrents -> Expiries \cup {None}]
        BY <1>6, <2>2 DEF Mark
    <2> QED BY <1>4, <2>3, <2>4
<1>7. ASSUME NEW a \in Admins, NEW h \in Torrents, ClearNeutralTorrent(a, h) PROVE NeutralShape'
    BY <1>4, <1>7 DEF ClearNeutralTorrent
<1>8. ASSUME NEW a \in Admins, WriteFails(a) PROVE NeutralShape'
    BY <1>4, <1>8, NeutralAssumption DEF WriteFails
<1>9. ASSUME NEW a \in Admins, ReadHashes(a) PROVE NeutralShape'
    <2>1. ActiveNeutralHashes \in SUBSET Torrents
        BY DEF ActiveNeutralHashes
    <2>2. IsPage([pc |-> "window", hashes |-> ActiveNeutralHashes])
        BY <2>1 DEF IsPage
    <2>3. /\ page' = [page EXCEPT ![a] = [pc |-> "window", hashes |-> ActiveNeutralHashes]]
          /\ UNCHANGED <<now, rows, window, mirror, missed, failures>>
        BY <1>9 DEF ReadHashes
    <2> HIDE DEF ActiveNeutralHashes
    <2> QED BY <1>1, <2>2, <2>3
<1>10. ASSUME NEW a \in Admins, ReadHashesFails(a) PROVE NeutralShape'
    <2>1. /\ page' = [page EXCEPT ![a] = NoPage] /\ missed' = TRUE /\ failures' \in 0..MaxFailures
          /\ UNCHANGED <<now, rows, window, mirror>>
        BY <1>10, NeutralAssumption DEF ReadHashesFails
    <2> QED BY <1>1, <1>2, <2>1
<1>11. ASSUME NEW a \in Admins, NEW read \in BOOLEAN, ReadWindow(a, read) PROVE NeutralShape'
    <2> DEFINE S == page[a].hashes
               until == IF read THEN window ELSE None
               r == [pc |-> "swap", hashes |-> S, read |-> read, until |-> until]
    <2>1. page[a].pc = "window" /\ page' = [page EXCEPT ![a] = r] /\ UNCHANGED <<now, rows, window, mirror, missed>>
        BY <1>11 DEF ReadWindow
    <2>2. failures' \in 0..MaxFailures
        BY <1>11, NeutralAssumption DEF ReadWindow
    <2>3. S \in SUBSET Torrents /\ until \in Times \cup {None}
        BY <2>1 DEF PageShape, IsPage, NoPage
    <2>4. IsPage(r)
        <3> HIDE DEF S, until
        <3> QED BY <2>3 DEF IsPage
    <2> HIDE DEF r
    <2> QED BY <1>1, <2>1, <2>2, <2>4
<1>12. ASSUME NEW a \in Admins, Swap(a) PROVE NeutralShape'
    <2>1. /\ page[a].pc = "swap" /\ page' = [page EXCEPT ![a] = NoPage]
          /\ mirror' = [hashes |-> page[a].hashes, until |-> page[a].until] /\ missed' = ~ page[a].read
          /\ UNCHANGED <<now, rows, window, failures>>
        BY <1>12 DEF Swap, Swapped
    <2>2. mirror' \in [hashes : SUBSET Torrents, until : Times \cup {None}] /\ missed' \in BOOLEAN
        BY <2>1 DEF PageShape, IsPage, NoPage
    <2> QED BY <1>1, <1>2, <2>1, <2>2
<1>13. ASSUME NEW a \in Admins, NeutralRestart(a) PROVE NeutralShape'
    <2>1. /\ DOMAIN page' = Admins
          /\ \A b \in Admins : page'[b] = IF b = a THEN [pc |-> "refresh"] ELSE NoPage
          /\ mirror' = [hashes |-> {}, until |-> None]
          /\ UNCHANGED <<now, rows, window, missed, failures>>
        BY <1>13 DEF NeutralRestart
    <2>2. PageShape'
        BY <2>1 DEF PageShape, IsPage
    <2> QED BY <2>1, <2>2
<1>14. CASE UNCHANGED neutralVars
    BY <1>14 DEF neutralVars, PageShape, IsPage
<1> QED BY <1>3, <1>5, <1>6, <1>7, <1>8, <1>9, <1>10, <1>11, <1>12, <1>13, <1>14 DEF NeutralNext

\* A write leaves a refresh to be done, and until it is nothing is settled.
LEMMA WritingIsSafe ==
    ASSUME OneOperator, NeutralInv, NEW a \in Admins, Writes(a)
    PROVE  PageIsFresh' /\ MirrorIsFresh'
<1>1. page' = [page EXCEPT ![a] = [pc |-> "refresh"]] /\ Admins = {a}
    BY DEF Writes, OneOperator
<1>2. page'[a] = [pc |-> "refresh"] /\ DOMAIN page' = Admins
    BY <1>1 DEF NeutralInv, NeutralShape
<1>3. page'[a] # NoPage
    BY <1>2 DEF NoPage
<1> QED BY <1>1, <1>2, <1>3 DEF PageIsFresh, MirrorIsFresh, Settled

LEMMA NeutralNextInv ==
    ASSUME OneOperator, NeutralInv, [NeutralNext]_neutralVars
    PROVE  NeutralInv'
<1> USE DEF NeutralInv, NeutralShape
<1>0. NeutralShape'
    BY NeutralShapeNext
<1> SUFFICES PageIsFresh' /\ MirrorIsFresh'
    BY <1>0
<1>1. CASE NeutralTick
    <2>1. now' \in 0..LastHour /\ now' >= now /\ UNCHANGED <<rows, window, mirror, page, missed, failures>>
        BY <1>1, NeutralAssumption DEF NeutralTick
    <2>2. \A S : Follows(S) => Follows(S)'
        <3> SUFFICES ASSUME NEW S, Follows(S), NEW h \in Torrents
                     PROVE  /\ (h \in ActiveNeutralHashes)' => h \in S
                            /\ h \in S => (rows[h] # None)'
            BY DEF Follows
        <3>1. rows[h] \in Expiries \cup {None} /\ rows'[h] = rows[h]
            BY <2>1
        <3>2. rows[h] \in Int
            BY <3>1, NeutralAssumption DEF Expiries, Times, Never, None
        <3>3. (h \in ActiveNeutralHashes)' => h \in ActiveNeutralHashes
            BY <2>1, <3>1, <3>2, NeutralAssumption DEF ActiveNeutralHashes
        <3> QED BY <3>1, <3>3 DEF Follows
    <2>3. PageIsFresh'
        <3> SUFFICES ASSUME NEW a \in Admins
                     PROVE  /\ page[a].pc \in {"window", "swap"} => Follows(page[a].hashes)'
                            /\ page[a].pc = "swap" => (page[a].read => page[a].until = window)
            BY <2>1 DEF PageIsFresh
        <3> DEFINE S == page[a].hashes
        <3>1. page[a].pc \in {"window", "swap"} => Follows(S)
            BY DEF PageIsFresh
        <3>2. S' = S
            BY <2>1
        <3> QED BY <3>1, <3>2, <2>1, <2>2 DEF PageIsFresh
    <2>4. MirrorIsFresh'
        BY <2>1, <2>2 DEF MirrorIsFresh, Settled
    <2> QED BY <2>3, <2>4
<1>2. ASSUME NEW a \in Admins, Writes(a) PROVE PageIsFresh' /\ MirrorIsFresh'
    BY <1>2, WritingIsSafe
<1>3. ASSUME NEW a \in Admins, NEW hours \in Hours, OpenWindow(a, hours) \/ \E h \in Torrents : Mark(a, h, hours)
      PROVE  PageIsFresh' /\ MirrorIsFresh'
    BY <1>2, <1>3 DEF OpenWindow, Mark
<1>4. ASSUME NEW a \in Admins, WriteFails(a) \/ \E h \in Torrents : ClearNeutralTorrent(a, h)
      PROVE  PageIsFresh' /\ MirrorIsFresh'
    BY <1>2, <1>4 DEF WriteFails, ClearNeutralTorrent
<1>6. ASSUME NEW a \in Admins, ReadHashes(a) PROVE PageIsFresh' /\ MirrorIsFresh'
    <2> DEFINE r == [pc |-> "window", hashes |-> ActiveNeutralHashes]
    <2>1. page' = [page EXCEPT ![a] = r] /\ UNCHANGED <<now, rows, window, mirror, missed, failures>>
        BY <1>6 DEF ReadHashes
    <2>2. page'[a] = r /\ DOMAIN page' = Admins /\ Admins = {a}
        BY <2>1 DEF OneOperator
    <2>5. rows \in [Torrents -> Int] /\ now >= 0
        BY NeutralAssumption DEF Expiries, Times, Never, None
    <2>6. Follows(ActiveNeutralHashes)
        BY <2>5 DEF Follows, ActiveNeutralHashes, None
    <2>7. Follows(ActiveNeutralHashes)'
        BY <2>1, <2>6 DEF Follows, ActiveNeutralHashes
    <2>8. PageIsFresh'
        BY <2>1, <2>2, <2>6 DEF PageIsFresh, Follows, ActiveNeutralHashes
    <2>9. MirrorIsFresh'
        BY <2>2 DEF MirrorIsFresh, Settled, NoPage
    <2> QED BY <2>8, <2>9
<1>7. ASSUME NEW a \in Admins, ReadHashesFails(a) PROVE PageIsFresh' /\ MirrorIsFresh'
    <2>1. /\ page' = [page EXCEPT ![a] = NoPage] /\ missed' = TRUE /\ failures' \in 0..MaxFailures
          /\ UNCHANGED <<now, rows, window, mirror>>
        BY <1>7, NeutralAssumption DEF ReadHashesFails
    <2>2. page'[a] = NoPage /\ DOMAIN page' = Admins /\ Admins = {a}
        BY <2>1 DEF OneOperator
    <2> QED BY <2>1, <2>2 DEF PageIsFresh, MirrorIsFresh, Settled, NoPage
<1>8. ASSUME NEW a \in Admins, NEW read \in BOOLEAN, ReadWindow(a, read) PROVE PageIsFresh' /\ MirrorIsFresh'
    <2> DEFINE S == page[a].hashes
               until == IF read THEN window ELSE None
               r == [pc |-> "swap", hashes |-> S, read |-> read, until |-> until]
    <2>1. /\ page[a].pc = "window" /\ page' = [page EXCEPT ![a] = r]
          /\ UNCHANGED <<now, rows, window, mirror, missed>>
        BY <1>8 DEF ReadWindow
    <2>2. page'[a] = r /\ DOMAIN page' = Admins /\ Admins = {a}
        BY <2>1 DEF OneOperator
    <2>5. Follows(S)
        BY <2>1 DEF PageIsFresh
    <2>6. PageIsFresh'
        <3>1. r.pc = "swap" /\ r.hashes = S /\ r.read = read /\ (read => r.until = window)
            OBVIOUS
        <3> HIDE DEF r, S, until
        <3> QED BY <2>1, <2>2, <2>5, <3>1 DEF PageIsFresh, Follows, ActiveNeutralHashes
    <2>7. MirrorIsFresh'
        BY <2>2 DEF MirrorIsFresh, Settled, NoPage
    <2> QED BY <2>6, <2>7
<1>9. ASSUME NEW a \in Admins, Swap(a) PROVE PageIsFresh' /\ MirrorIsFresh'
    <2>1. /\ page[a].pc = "swap" /\ page' = [page EXCEPT ![a] = NoPage]
          /\ mirror' = [hashes |-> page[a].hashes, until |-> page[a].until] /\ missed' = ~ page[a].read
          /\ UNCHANGED <<now, rows, window, failures>>
        BY <1>9 DEF Swap, Swapped
    <2>2. page'[a] = NoPage /\ DOMAIN page' = Admins /\ Admins = {a}
        BY <2>1 DEF OneOperator
    <2>3. PICK S \in SUBSET Torrents, read \in BOOLEAN, until \in Times \cup {None} :
              page[a] = [pc |-> "swap", hashes |-> S, read |-> read, until |-> until]
        BY <2>1 DEF PageShape, IsPage, NoPage
    <2>5. Follows(S) /\ (read => until = window)
        BY <2>3 DEF PageIsFresh
    <2>6. PageIsFresh'
        BY <2>2 DEF PageIsFresh, NoPage
    <2>7. MirrorIsFresh'
        <3>1. mirror'.hashes = S /\ mirror'.until = until /\ missed' = ~ read
            BY <2>1, <2>3
        <3>2. missed' = FALSE => Follows(mirror'.hashes) /\ mirror'.until = window
            BY <3>1, <2>5
        <3> QED BY <2>1, <3>2 DEF MirrorIsFresh, Settled, Follows, ActiveNeutralHashes
    <2> QED BY <2>6, <2>7
<1>10. ASSUME NEW a \in Admins, NeutralRestart(a) PROVE PageIsFresh' /\ MirrorIsFresh'
    <2>1. Admins = {a}
        BY DEF OneOperator
    <2>2. /\ DOMAIN page' = Admins /\ page'[a] = [pc |-> "refresh"]
          /\ mirror' = [hashes |-> {}, until |-> None]
          /\ UNCHANGED <<now, rows, window, missed, failures>>
        BY <1>10 DEF NeutralRestart
    <2> QED BY <2>1, <2>2 DEF PageIsFresh, MirrorIsFresh, Settled, NoPage
<1>11. CASE UNCHANGED neutralVars
    BY <1>11 DEF neutralVars, PageShape, IsPage, PageIsFresh, MirrorIsFresh, Settled, Follows, ActiveNeutralHashes
<1> QED BY <1>1, <1>3, <1>4, <1>6, <1>7, <1>8, <1>9, <1>10, <1>11 DEF NeutralNext

LEMMA NeutralInductive == ASSUME OneOperator PROVE NeutralSpec => []NeutralInv
<1>1. NeutralInit => NeutralInv
    BY NeutralInitInv
<1>2. NeutralInv /\ [NeutralNext]_neutralVars => NeutralInv'
    BY NeutralNextInv
<1> QED BY <1>1, <1>2, PTL DEF NeutralSpec

\* Type correctness of the tables, the copy and the page, for any number of operators.
THEOREM NeutralTypeCorrect == NeutralSpec => []NeutralTypeOK
<1>1. NeutralInit => NeutralShape
    BY NeutralInitInv DEF NeutralInv
<1>2. NeutralShape /\ [NeutralNext]_neutralVars => NeutralShape'
    BY NeutralShapeNext
<1>3. NeutralShape => NeutralTypeOK
    BY DEF NeutralShape, PageShape, IsPage, NeutralTypeOK
<1> QED BY <1>1, <1>2, <1>3, PTL DEF NeutralSpec

\* With one operator at work, and for every torrent, window and clock: once nothing is
\* being written and the last refresh read everything, an announce is told of every
\* mark and window in force and of none that was cleared (refreshNeutralMirror).
THEOREM AnnouncesAreTold == ASSUME OneOperator PROVE NeutralSpec => []AnnounceFollowsWrites
<1>1. ASSUME NeutralInv PROVE AnnounceFollowsWrites
    <2> SUFFICES ASSUME Settled, NEW h \in Torrents
                 PROVE  /\ Due(h) => Flag(h)
                        /\ rows[h] = None /\ ~ Due(h) => ~ Flag(h)
        BY DEF AnnounceFollowsWrites
    <2>1. Follows(mirror.hashes) /\ mirror.until = window
        BY <1>1 DEF NeutralInv, MirrorIsFresh
    <2> QED BY <2>1 DEF Follows, Due, Flag
<1> QED BY <1>1, NeutralInductive, PTL

(***************************************************************************)
(* Cover art.  A download belongs to the caller that inflight names, and   *)
(* those who wait follow it; the two flags say what the mode has been      *)
(* since a call began, and Settle reads the mode once more.                *)
(***************************************************************************)
CoverShape ==
    /\ mode \in Modes /\ entry \in [Posters -> Shapes] /\ cover \in [Releases -> Shapes]
    /\ DOMAIN inflight \subseteq Posters
    /\ call \in [Callers -> Calls \cup {NoCall}]
    /\ gets \in [Posters -> 0..MaxGets]

Downloads == {"fetching", "clearing"}
LeadersDownload ==
    \A u \in DOMAIN inflight :
        inflight[u] \in Callers /\ call[inflight[u]].pc \in Downloads /\ Url(inflight[u]) = u
DownloadsAreLed ==
    \A j \in Callers : call[j].pc \in Downloads => Url(j) \in DOMAIN inflight /\ inflight[Url(j)] = j
WaitersFollow ==
    \A k \in Callers : Busy(k, "waiting") =>
        call[call[k].lead].pc \in Downloads /\ Url(call[k].lead) = Url(k)
FlagsAreTrue ==
    \A j \in Callers : call[j] # NoCall =>
        /\ call[j].strict => mode = "local"
        /\ call[j].lenient => mode # "local"

CoverInv == CoverShape /\ LeadersDownload /\ DownloadsAreLed /\ WaitersFollow /\ FlagsAreTrue /\ ModeIsKept

LEMMA CoverInitInv == CoverInit => CoverInv
<1> SUFFICES ASSUME CoverInit PROVE CoverInv
    OBVIOUS
<1> USE DEF CoverInit
<1>1. CoverShape
    BY CoverAssumption DEF CoverShape, Modes, Shapes
<1>2. LeadersDownload /\ DownloadsAreLed /\ WaitersFollow /\ FlagsAreTrue /\ ModeIsKept
    BY DEF LeadersDownload, DownloadsAreLed, Downloads, WaitersFollow, FlagsAreTrue, ModeIsKept, Busy, NoCall
<1> QED BY <1>1, <1>2 DEF CoverInv

\* A caller at work is a record with all its fields.
LEMMA AtWork ==
    ASSUME CoverShape, NEW j \in Callers, call[j].pc # "idle"
    PROVE  call[j] \in Calls /\ call[j] # NoCall
BY DEF CoverShape, NoCall

LEMMA NotAtWork == NoCall.pc = "idle" /\ \A c \in Calls : c.pc # "idle" /\ c # NoCall
BY DEF NoCall, Calls

\* A step of one caller that neither begins nor ends a download.
LEMMA CallerMoves ==
    ASSUME CoverInv, CoverShape', NEW j \in Callers, NEW v \in Calls \cup {NoCall},
           call' = [call EXCEPT ![j] = v], inflight' = inflight, mode' = mode,
           call[j].pc \notin Downloads, v.pc \notin Downloads,
           v.pc = "waiting" => /\ v.lead \in Callers /\ call[v.lead].pc \in Downloads
                               /\ Url(v.lead) = PosterOf[v.release],
           v # NoCall => /\ v.strict => mode = "local"
                         /\ v.lenient => mode # "local",
           (v.pc = "store" /\ v.was = "remote") =>
               /\ v.strict => v.result # "remote"
               /\ v.lenient => v.result # "blank"
    PROVE  CoverInv'
<1>1. call'[j] = v /\ \A k \in Callers : k # j => call'[k] = call[k]
    BY DEF CoverInv, CoverShape
<1>2. LeadersDownload'
    <2> SUFFICES ASSUME NEW u \in DOMAIN inflight
                 PROVE  /\ inflight[u] \in Callers /\ call'[inflight[u]].pc \in Downloads
                        /\ PosterOf[call'[inflight[u]].release] = u
        BY DEF LeadersDownload, Url, Downloads
    <2>1. inflight[u] \in Callers /\ call[inflight[u]].pc \in Downloads /\ PosterOf[call[inflight[u]].release] = u
        BY DEF CoverInv, LeadersDownload, Url
    <2> QED BY <2>1, <1>1
<1>3. DownloadsAreLed'
    BY <1>1 DEF CoverInv, DownloadsAreLed, Url, Downloads
<1>4. WaitersFollow'
    <2> SUFFICES ASSUME NEW k \in Callers, call'[k].pc = "waiting"
                 PROVE  /\ call'[call'[k].lead].pc \in Downloads
                        /\ PosterOf[call'[call'[k].lead].release] = PosterOf[call'[k].release]
        BY DEF WaitersFollow, Busy, Url, Downloads
    <2> DEFINE l == call'[k].lead
    <2>1. l \in Callers /\ call[l].pc \in Downloads /\ PosterOf[call[l].release] = PosterOf[call'[k].release]
        <3>1. CASE k = j
            BY <3>1, <1>1 DEF Url
        <3>2. CASE k # j
            <4>1. call'[k] = call[k] /\ call[k] \in Calls
                BY <3>2, <1>1, AtWork DEF CoverInv
            <4> QED BY <4>1 DEF CoverInv, WaitersFollow, Busy, Url, Calls
        <3> QED BY <3>1, <3>2
    <2>2. l # j
        BY <2>1
    <2> HIDE DEF l
    <2> QED BY <2>1, <2>2, <1>1 DEF l
<1>5. FlagsAreTrue'
    BY <1>1 DEF CoverInv, FlagsAreTrue
<1>6. ModeIsKept'
    BY <1>1 DEF CoverInv, ModeIsKept, Busy
<1> QED BY <1>2, <1>3, <1>4, <1>5, <1>6 DEF CoverInv

LEMMA EnteringIsSafe ==
    ASSUME CoverInv, NEW j \in Callers, NEW for \in {"entry", "link", "fill"}, NEW r \in Releases,
           NEW was \in Shapes, Enter(j, for, r, was)
    PROVE  CoverInv'
<1> DEFINE v == [pc |-> "localize", for |-> for, release |-> r, was |-> was,
                 lead |-> j, ok |-> FALSE, result |-> "none",
                 strict |-> mode = "local", lenient |-> mode # "local"]
<1>1. v \in Calls
    BY DEF Calls, Shapes
<1>2. /\ call[j] = NoCall /\ call' = [call EXCEPT ![j] = v]
      /\ UNCHANGED <<mode, entry, cover, inflight, gets>>
    BY DEF Enter
<1>3. v.pc = "localize" /\ v.strict = (mode = "local") /\ v.lenient = (mode # "local")
    OBVIOUS
<1> HIDE DEF v
<1>4. CoverShape'
    BY <1>1, <1>2 DEF CoverInv, CoverShape
<1>5. call[j].pc \notin Downloads
    BY <1>2 DEF NoCall, Downloads
<1> QED BY <1>1, <1>2, <1>3, <1>4, <1>5, CallerMoves DEF Downloads

LEMMA ReturningIsSafe ==
    ASSUME CoverInv, NEW j \in Callers, NEW shape \in Shapes, Returns(j, shape),
           call[j].pc \in {"localize", "settle"}, UNCHANGED <<mode, entry, cover, inflight, gets>>,
           call[j].was = "remote" => /\ shape = "remote" => mode # "local"
                                     /\ shape = "blank" => mode = "local"
    PROVE  CoverInv'
<1> DEFINE v == [call[j] EXCEPT !.pc = "store", !.result = shape]
<1>1. call[j] \in Calls /\ call[j] # NoCall
    BY AtWork DEF CoverInv
<1>2. call' = [call EXCEPT ![j] = v]
    BY DEF Returns
<1>3. /\ v \in Calls /\ v.pc = "store" /\ v.result = shape /\ v.was = call[j].was
      /\ v.strict = call[j].strict /\ v.lenient = call[j].lenient
    BY <1>1 DEF Calls
<1> HIDE DEF v
<1>4. CoverShape'
    BY <1>2, <1>3 DEF CoverInv, CoverShape
<1>5. /\ call[j].strict => mode = "local"
      /\ call[j].lenient => mode # "local"
    BY <1>1 DEF CoverInv, FlagsAreTrue
<1>6. call[j].pc \notin Downloads
    BY DEF Downloads
<1> QED BY <1>2, <1>3, <1>4, <1>5, <1>6, CallerMoves DEF Downloads

LEMMA DecidingIsSafe ==
    ASSUME CoverInv, NEW j \in Callers, Decide(j)
    PROVE  CoverInv'
<1>1. call[j].pc = "localize" /\ UNCHANGED <<mode, entry, cover, inflight, gets>>
    BY DEF Decide, Busy
<1>2. call[j] \in Calls /\ call[j] # NoCall
    BY <1>1, AtWork DEF CoverInv
<1>3. CASE (call[j].was # "remote" \/ mode \in {"remote", "remote_local"}) /\ Returns(j, call[j].was)
    <2>1. call[j].was \in Shapes
        BY <1>2 DEF Calls
    <2> QED BY <1>1, <1>3, <2>1, ReturningIsSafe
<1>4. CASE call' = [call EXCEPT ![j].pc = "join"]
    <2> DEFINE v == [call[j] EXCEPT !.pc = "join"]
    <2>1. call' = [call EXCEPT ![j] = v]
        BY <1>4
    <2>2. v \in Calls /\ v.pc = "join" /\ v.strict = call[j].strict /\ v.lenient = call[j].lenient
        BY <1>2 DEF Calls
    <2> HIDE DEF v
    <2>3. CoverShape'
        BY <1>1, <2>1, <2>2 DEF CoverInv, CoverShape
    <2>4. /\ call[j].strict => mode = "local"
          /\ call[j].lenient => mode # "local"
        BY <1>2 DEF CoverInv, FlagsAreTrue
    <2> QED BY <1>1, <2>1, <2>2, <2>3, <2>4, CallerMoves DEF Downloads
<1> QED BY <1>3, <1>4 DEF Decide

\* A caller whose URL is being fetched waits for it; another fetches it itself.
LEMMA JoiningIsSafe ==
    ASSUME CoverInv, NEW j \in Callers, Join(j)
    PROVE  CoverInv'
<1>1. call[j].pc = "join" /\ UNCHANGED <<mode, entry, cover>>
    BY DEF Join, Busy
<1>2. call[j] \in Calls /\ call[j] # NoCall
    BY <1>1, AtWork DEF CoverInv
<1>3. Url(j) \in Posters
    BY <1>2, CoverAssumption DEF Calls, Url
<1>4. /\ call[j].strict => mode = "local"
      /\ call[j].lenient => mode # "local"
    BY <1>2 DEF CoverInv, FlagsAreTrue
<1>5. CASE FetchRunning(Url(j))
    <2> DEFINE l == inflight[Url(j)]
               v == [call[j] EXCEPT !.pc = "waiting", !.lead = l]
    <2>1. call' = [call EXCEPT ![j] = v] /\ UNCHANGED <<inflight, gets>>
        BY <1>5 DEF Join
    <2>2. l \in Callers /\ call[l].pc \in Downloads /\ Url(l) = Url(j)
        BY <1>5 DEF FetchRunning, CoverInv, LeadersDownload
    <2> HIDE DEF l
    <2>3. /\ v \in Calls /\ v.pc = "waiting" /\ v.lead = l /\ v.release = call[j].release
          /\ v.strict = call[j].strict /\ v.lenient = call[j].lenient
        BY <1>2, <2>2 DEF Calls
    <2> HIDE DEF v
    <2>4. CoverShape'
        BY <1>1, <2>1, <2>3 DEF CoverInv, CoverShape
    <2>5. Url(l) = PosterOf[v.release] /\ call[j].pc \notin Downloads /\ v.pc \notin Downloads
        BY <1>1, <2>2, <2>3 DEF Url, Downloads
    <2> QED BY <1>1, <1>4, <2>1, <2>2, <2>3, <2>4, <2>5, CallerMoves
<1>6. CASE ~ FetchRunning(Url(j))
    <2> DEFINE u == Url(j)
               v == [call[j] EXCEPT !.pc = "fetching"]
    <2>1. /\ call' = [call EXCEPT ![j] = v] /\ inflight' = [w \in DOMAIN inflight \cup {u} |-> IF w = u THEN j ELSE inflight[w]]
          /\ gets[u] < MaxGets /\ gets' = [gets EXCEPT ![u] = @ + 1]
        BY <1>6 DEF Join
    <2>2. /\ v \in Calls /\ v.pc = "fetching" /\ v.release = call[j].release
          /\ v.strict = call[j].strict /\ v.lenient = call[j].lenient
        BY <1>2 DEF Calls
    <2>3. u \notin DOMAIN inflight /\ u \in Posters /\ PosterOf[call[j].release] = u
        BY <1>3, <1>6 DEF FetchRunning, Url
    <2> HIDE DEF u, v
    <2>4. /\ DOMAIN inflight' = DOMAIN inflight \cup {u} /\ inflight'[u] = j
          /\ \A w \in DOMAIN inflight : inflight'[w] = inflight[w]
        BY <2>1, <2>3
    <2>5. call'[j] = v /\ \A k \in Callers : k # j => call'[k] = call[k]
        BY <2>1 DEF CoverInv, CoverShape
    <2>6. CoverShape'
        <3>1. gets' \in [Posters -> 0..MaxGets]
            BY <2>1, <2>3, CoverAssumption DEF CoverInv, CoverShape
        <3> QED BY <1>1, <2>1, <2>2, <2>3, <2>4, <3>1 DEF CoverInv, CoverShape
    <2>7. LeadersDownload'
        <3> SUFFICES ASSUME NEW w \in DOMAIN inflight'
                     PROVE  /\ inflight'[w] \in Callers /\ call'[inflight'[w]].pc \in Downloads
                            /\ PosterOf[call'[inflight'[w]].release] = w
            BY DEF LeadersDownload, Url, Downloads
        <3>1. CASE w = u
            BY <3>1, <2>2, <2>3, <2>4, <2>5 DEF Downloads
        <3>2. CASE w # u
            <4>1. w \in DOMAIN inflight /\ inflight'[w] = inflight[w]
                BY <3>2, <2>4
            <4>2. /\ inflight[w] \in Callers /\ call[inflight[w]].pc \in Downloads
                  /\ PosterOf[call[inflight[w]].release] = w
                BY <4>1 DEF CoverInv, LeadersDownload, Url
            <4>3. inflight[w] # j
                BY <4>2, <1>1 DEF Downloads
            <4> QED BY <4>1, <4>2, <4>3, <2>5
        <3> QED BY <3>1, <3>2
    <2>8. DownloadsAreLed'
        <3> SUFFICES ASSUME NEW k \in Callers, call'[k].pc \in Downloads
                     PROVE  /\ PosterOf[call'[k].release] \in DOMAIN inflight'
                            /\ inflight'[PosterOf[call'[k].release]] = k
            BY DEF DownloadsAreLed, Url, Downloads
        <3>1. CASE k = j
            BY <3>1, <2>2, <2>3, <2>4, <2>5
        <3>2. CASE k # j
            BY <3>2, <2>4, <2>5 DEF CoverInv, DownloadsAreLed, Url
        <3> QED BY <3>1, <3>2
    <2>9. WaitersFollow'
        <3> SUFFICES ASSUME NEW k \in Callers, call'[k].pc = "waiting"
                     PROVE  /\ call'[call'[k].lead].pc \in Downloads
                            /\ PosterOf[call'[call'[k].lead].release] = PosterOf[call'[k].release]
            BY DEF WaitersFollow, Busy, Url, Downloads
        <3>1. k # j /\ call'[k] = call[k]
            BY <2>2, <2>5
        <3>2. call[k] \in Calls
            BY <3>1, AtWork DEF CoverInv
        <3>3. /\ call[k].lead \in Callers /\ call[call[k].lead].pc \in Downloads
              /\ PosterOf[call[call[k].lead].release] = PosterOf[call[k].release]
            BY <3>1, <3>2 DEF CoverInv, WaitersFollow, Busy, Url, Calls
        <3>4. call[k].lead # j
            BY <3>3, <1>1 DEF Downloads
        <3> QED BY <3>1, <3>3, <3>4, <2>5
    <2>10. FlagsAreTrue'
        <3>1. mode' = mode /\ call[j] # NoCall
            BY <1>1, <1>2
        <3> QED BY <3>1, <1>4, <2>2, <2>5 DEF CoverInv, FlagsAreTrue
    <2>11. ModeIsKept'
        BY <2>2, <2>5 DEF CoverInv, ModeIsKept, Busy
    <2> QED BY <2>6, <2>7, <2>8, <2>9, <2>10, <2>11 DEF CoverInv
<1> QED BY <1>5, <1>6

(***************************************************************************)
(* A download ends, and its entry is deleted: those who wait go on, and    *)
(* those who wait for another are as they were.                            *)
(***************************************************************************)
LEMMA DownloadsEnd ==
    ASSUME CoverInv, NEW j \in Callers, call[j].pc \in Downloads,
           NEW pc \in {"clearing", "settle"}, NEW mine \in BOOLEAN, NEW theirs \in BOOLEAN,
           call' = [k \in Callers |->
                       IF k = j THEN [call[k] EXCEPT !.pc = pc, !.ok = mine]
                       ELSE IF k \in Waiters(j) THEN [call[k] EXCEPT !.pc = "settle", !.ok = theirs]
                       ELSE call[k]],
           DOMAIN inflight' = DOMAIN inflight \ (IF pc = "settle" THEN {Url(j)} ELSE {}),
           \A u \in DOMAIN inflight' : inflight'[u] = inflight[u],
           UNCHANGED <<mode, entry, cover, gets>>
    PROVE  CoverInv'
<1>1. call[j] \in Calls /\ call[j] # NoCall
    BY AtWork DEF CoverInv, Downloads
<1>2. \A k \in Waiters(j) : k \in Callers /\ k # j /\ call[k] \in Calls /\ call[k] # NoCall
    BY AtWork DEF CoverInv, Waiters, Busy, Downloads
<1>3. /\ call'[j] \in Calls /\ call'[j].pc = pc /\ call'[j].release = call[j].release
      /\ call'[j].strict = call[j].strict /\ call'[j].lenient = call[j].lenient
    BY <1>1 DEF Calls
<1>4. \A k \in Waiters(j) :
          /\ call'[k] \in Calls /\ call'[k].pc = "settle"
          /\ call'[k].strict = call[k].strict /\ call'[k].lenient = call[k].lenient
    BY <1>2 DEF Calls
<1>5. \A k \in Callers : (k # j /\ k \notin Waiters(j)) => call'[k] = call[k]
    OBVIOUS
<1>6. CoverShape'
    <2>1. \A k \in Callers : call'[k] \in Calls \cup {NoCall}
        BY <1>3, <1>4, <1>5 DEF CoverInv, CoverShape
    <2>2. call' \in [Callers -> Calls \cup {NoCall}]
        BY <2>1
    <2> QED BY <2>2 DEF CoverInv, CoverShape
<1>7. \A k \in Callers : call'[k].pc \in Downloads =>
          call[k].pc \in Downloads /\ call'[k].release = call[k].release /\ (k = j => pc = "clearing")
    BY <1>3, <1>4, <1>5 DEF Downloads
<1>8. \A k \in Callers : (call[k].pc \in Downloads /\ (k = j => pc = "clearing")) =>
          call'[k].pc \in Downloads /\ call'[k].release = call[k].release
    BY <1>3, <1>5 DEF Downloads, Waiters, Busy
<1>9. LeadersDownload'
    <2> SUFFICES ASSUME NEW u \in DOMAIN inflight'
                 PROVE  /\ inflight'[u] \in Callers /\ call'[inflight'[u]].pc \in Downloads
                        /\ PosterOf[call'[inflight'[u]].release] = u
        BY DEF LeadersDownload, Url, Downloads
    <2>1. u \in DOMAIN inflight /\ inflight'[u] = inflight[u] /\ (pc = "settle" => u # Url(j))
        OBVIOUS
    <2>2. /\ inflight[u] \in Callers /\ call[inflight[u]].pc \in Downloads /\ Url(inflight[u]) = u
          /\ PosterOf[call[inflight[u]].release] = u
        BY <2>1 DEF CoverInv, LeadersDownload, Url
    <2>3. inflight[u] = j => pc = "clearing"
        BY <2>1, <2>2
    <2> QED BY <2>1, <2>2, <2>3, <1>8
<1>10. DownloadsAreLed'
    <2> SUFFICES ASSUME NEW k \in Callers, call'[k].pc \in Downloads
                 PROVE  /\ PosterOf[call'[k].release] \in DOMAIN inflight'
                        /\ inflight'[PosterOf[call'[k].release]] = k
        BY DEF DownloadsAreLed, Url, Downloads
    <2>1. call[k].pc \in Downloads /\ call'[k].release = call[k].release /\ (k = j => pc = "clearing")
        BY <1>7
    <2>2. Url(k) \in DOMAIN inflight /\ inflight[Url(k)] = k /\ inflight[Url(j)] = j
        BY <2>1 DEF CoverInv, DownloadsAreLed
    <2>3. Url(k) \in DOMAIN inflight'
        BY <2>1, <2>2
    <2>4. PosterOf[call'[k].release] = Url(k)
        BY <2>1 DEF Url
    <2> QED BY <2>2, <2>3, <2>4
<1>11. WaitersFollow'
    <2> SUFFICES ASSUME NEW k \in Callers, call'[k].pc = "waiting"
                 PROVE  /\ call'[call'[k].lead].pc \in Downloads
                        /\ PosterOf[call'[call'[k].lead].release] = PosterOf[call'[k].release]
        BY DEF WaitersFollow, Busy, Url, Downloads
    <2>1. k # j /\ k \notin Waiters(j) /\ call'[k] = call[k]
        BY <1>3, <1>4, <1>5
    <2>2. call[k] \in Calls /\ call[k].pc = "waiting"
        BY <2>1, AtWork DEF CoverInv
    <2>3. /\ call[k].lead \in Callers /\ call[call[k].lead].pc \in Downloads
          /\ PosterOf[call[call[k].lead].release] = PosterOf[call[k].release]
        BY <2>2 DEF CoverInv, WaitersFollow, Busy, Url, Calls
    <2>4. call[k].lead # j
        BY <2>1, <2>2 DEF Waiters, Busy
    <2> QED BY <2>1, <2>3, <2>4, <1>8
<1>12. FlagsAreTrue'
    <2> SUFFICES ASSUME NEW k \in Callers, call'[k] # NoCall
                 PROVE  /\ call'[k].strict => mode = "local"
                        /\ call'[k].lenient => mode # "local"
        BY DEF FlagsAreTrue
    <2>1. call[k] # NoCall /\ call'[k].strict = call[k].strict /\ call'[k].lenient = call[k].lenient
        BY <1>1, <1>2, <1>3, <1>4, <1>5
    <2> QED BY <2>1 DEF CoverInv, FlagsAreTrue
<1>13. ModeIsKept'
    <2> SUFFICES ASSUME NEW k \in Callers, call'[k].pc = "store", call'[k].was = "remote"
                 PROVE  /\ call'[k].strict => call'[k].result # "remote"
                        /\ call'[k].lenient => call'[k].result # "blank"
        BY DEF ModeIsKept, Busy
    <2>1. call'[k] = call[k]
        BY <1>3, <1>4, <1>5
    <2> QED BY <2>1 DEF CoverInv, ModeIsKept, Busy
<1> QED BY <1>6, <1>9, <1>10, <1>11, <1>12, <1>13 DEF CoverInv

LEMMA FetchEndingIsSafe ==
    ASSUME CoverInv, NEW j \in Callers, NEW ok \in BOOLEAN, FetchEnds(j, ok)
    PROVE  CoverInv'
<1>1. call[j].pc = "fetching" /\ UNCHANGED <<mode, entry, cover, inflight, gets>>
    BY DEF FetchEnds, Busy
<1>2. call' = [k \in Callers |->
                  IF k = j THEN [call[k] EXCEPT !.pc = "clearing", !.ok = ok]
                  ELSE IF k \in Waiters(j) THEN [call[k] EXCEPT !.pc = "settle", !.ok = ok]
                  ELSE call[k]]
    BY DEF FetchEnds
<1>3. call[j].pc \in Downloads
    BY <1>1 DEF Downloads
<1>4. DOMAIN inflight' = DOMAIN inflight \ (IF "clearing" = "settle" THEN {Url(j)} ELSE {})
    BY <1>1
<1> QED BY <1>1, <1>2, <1>3, <1>4, DownloadsEnd

LEMMA ClearingIsSafe ==
    ASSUME CoverInv, NEW j \in Callers, Clear(j)
    PROVE  CoverInv'
<1>1. /\ call[j].pc = "clearing" /\ UNCHANGED <<mode, entry, cover, gets>>
      /\ inflight' = [u \in DOMAIN inflight \ {Url(j)} |-> inflight[u]]
    BY DEF Clear, Busy
<1>2. call[j] \in Calls
    BY <1>1, AtWork DEF CoverInv
<1> DEFINE ok == call[j].ok
<1>3. ok \in BOOLEAN /\ [call[j] EXCEPT !.pc = "settle"] = [call[j] EXCEPT !.pc = "settle", !.ok = ok]
    BY <1>2 DEF Calls
<1>4. call' = [k \in Callers |->
                  IF k = j THEN [call[k] EXCEPT !.pc = "settle", !.ok = ok]
                  ELSE IF k \in Waiters(j) THEN [call[k] EXCEPT !.pc = "settle", !.ok = ok]
                  ELSE call[k]]
    BY <1>3 DEF Clear
<1>5. call[j].pc \in Downloads
    BY <1>1 DEF Downloads
<1>6. DOMAIN inflight' = DOMAIN inflight \ (IF "settle" = "settle" THEN {Url(j)} ELSE {})
    BY <1>1
<1>7. \A u \in DOMAIN inflight' : inflight'[u] = inflight[u]
    BY <1>1
<1> HIDE DEF ok
<1> QED BY <1>1, <1>3, <1>4, <1>5, <1>6, <1>7, DownloadsEnd

\* One who joined a download that is over, and the mode that is read again.
LEMMA SettlingIsSafe ==
    ASSUME CoverInv, NEW j \in Callers, JoinedLate(j) \/ Settle(j)
    PROVE  CoverInv'
<1>1. CASE JoinedLate(j)
    <2> DEFINE ok == call[call[j].lead].ok
               v == [call[j] EXCEPT !.pc = "settle", !.ok = ok]
    <2>1. /\ call[j].pc = "waiting" /\ call[call[j].lead].pc = "clearing" /\ call' = [call EXCEPT ![j] = v]
          /\ UNCHANGED <<mode, entry, cover, inflight, gets>>
        BY <1>1 DEF JoinedLate, Busy
    <2>2. call[j] \in Calls /\ call[j] # NoCall
        BY <2>1, AtWork DEF CoverInv
    <2>3. ok \in BOOLEAN
        <3>1. call[j].lead \in Callers
            BY <2>2 DEF Calls
        <3>2. call[call[j].lead] \in Calls
            BY <2>1, <3>1, AtWork DEF CoverInv
        <3> QED BY <3>2 DEF Calls
    <2> HIDE DEF ok
    <2>4. v \in Calls /\ v.pc = "settle" /\ v.strict = call[j].strict /\ v.lenient = call[j].lenient
        BY <2>2, <2>3 DEF Calls
    <2> HIDE DEF v
    <2>5. CoverShape'
        BY <2>1, <2>4 DEF CoverInv, CoverShape
    <2>6. /\ call[j].strict => mode = "local"
          /\ call[j].lenient => mode # "local"
        BY <2>2 DEF CoverInv, FlagsAreTrue
    <2> QED BY <2>1, <2>4, <2>5, <2>6, CallerMoves DEF Downloads
<1>2. CASE Settle(j)
    <2> DEFINE shape == IF call[j].ok THEN "local" ELSE OnCoverFailure(mode)
    <2>1. call[j].pc = "settle" /\ Returns(j, shape) /\ UNCHANGED <<mode, entry, cover, inflight, gets>>
        BY <1>2 DEF Settle, Busy
    <2>2. /\ shape \in Shapes
          /\ shape = "remote" => mode # "local"
          /\ shape = "blank" => mode = "local"
        BY DEF OnCoverFailure, Shapes
    <2> HIDE DEF shape
    <2> QED BY <2>1, <2>2, ReturningIsSafe
<1> QED BY <1>1, <1>2

LEMMA StoringIsSafe ==
    ASSUME CoverInv, NEW j \in Callers, Store(j) \/ RowFails(j)
    PROVE  CoverInv'
<1>1. /\ call[j].pc = "store" /\ call' = [call EXCEPT ![j] = NoCall]
      /\ UNCHANGED <<mode, inflight, gets>>
    BY DEF Store, RowFails, Busy
<1>2. call[j] \in Calls
    BY <1>1, AtWork DEF CoverInv
<1>3. call[j].result \in Shapes
    BY <1>2 DEF Calls
<1>4. entry' \in [Posters -> Shapes] /\ cover' \in [Releases -> Shapes]
    BY <1>3 DEF Store, RowFails, CoverInv, CoverShape
<1>5. CoverShape'
    BY <1>1, <1>4 DEF CoverInv, CoverShape
<1>6. NoCall.pc = "idle"
    BY NotAtWork
<1> QED BY <1>1, <1>5, <1>6, CallerMoves DEF Downloads

\* The operator changes the mode: no call goes elsewhere, and a flag that the new
\* mode contradicts is dropped.
LEMMA ModeChangesAreSafe ==
    ASSUME CoverInv, NEW to \in Modes, SaveCoverMode(to)
    PROVE  CoverInv'
<1>1. mode' = to /\ UNCHANGED <<entry, cover, inflight, gets>>
    BY DEF SaveCoverMode
<1> DEFINE Seen(c) == [c EXCEPT !.strict = @ /\ to = "local", !.lenient = @ /\ to # "local"]
<1>2. \A k \in Callers : call'[k] = IF call[k] = NoCall THEN NoCall ELSE Seen(call[k])
    BY DEF SaveCoverMode
<1>3. \A c \in Calls :
          /\ Seen(c) \in Calls /\ Seen(c).pc = c.pc /\ Seen(c).release = c.release
          /\ Seen(c).lead = c.lead /\ Seen(c).was = c.was /\ Seen(c).result = c.result
          /\ Seen(c).strict => c.strict /\ to = "local"
          /\ Seen(c).lenient => c.lenient /\ to # "local"
    BY DEF Calls
<1> HIDE DEF Seen
<1>4. \A k \in Callers :
          /\ call'[k].pc = call[k].pc
          /\ call[k].pc # "idle" =>
                 /\ call[k] \in Calls /\ call'[k] \in Calls /\ call'[k].release = call[k].release
                 /\ call'[k].lead = call[k].lead /\ call'[k].was = call[k].was
                 /\ call'[k].result = call[k].result
                 /\ call'[k].strict => call[k].strict /\ to = "local"
                 /\ call'[k].lenient => call[k].lenient /\ to # "local"
    <2> SUFFICES ASSUME NEW k \in Callers
                 PROVE  /\ call'[k].pc = call[k].pc
                        /\ call[k].pc # "idle" =>
                             /\ call[k] \in Calls /\ call'[k] \in Calls /\ call'[k].release = call[k].release
                             /\ call'[k].lead = call[k].lead /\ call'[k].was = call[k].was
                             /\ call'[k].result = call[k].result
                             /\ call'[k].strict => call[k].strict /\ to = "local"
                             /\ call'[k].lenient => call[k].lenient /\ to # "local"
        OBVIOUS
    <2>1. CASE call[k] = NoCall
        BY <2>1, <1>2, NotAtWork
    <2>2. CASE call[k] \in Calls
        <3>1. call'[k] = Seen(call[k])
            BY <2>2, <1>2, NotAtWork
        <3> QED BY <2>2, <3>1, <1>3
    <2> QED BY <2>1, <2>2 DEF CoverInv, CoverShape
<1>5. CoverShape'
    <2>1. \A k \in Callers : call'[k] \in Calls \cup {NoCall}
        BY <1>2, <1>3 DEF CoverInv, CoverShape
    <2>2. call' \in [Callers -> Calls \cup {NoCall}]
        BY <2>1 DEF SaveCoverMode
    <2> QED BY <1>1, <2>2 DEF CoverInv, CoverShape
<1>6. LeadersDownload' /\ DownloadsAreLed'
    BY <1>1, <1>4 DEF CoverInv, LeadersDownload, DownloadsAreLed, Url, Downloads
<1>7. WaitersFollow'
    <2> SUFFICES ASSUME NEW k \in Callers, call'[k].pc = "waiting"
                 PROVE  /\ call'[call'[k].lead].pc \in Downloads
                        /\ PosterOf[call'[call'[k].lead].release] = PosterOf[call'[k].release]
        BY DEF WaitersFollow, Busy, Url, Downloads
    <2>1. call[k].pc = "waiting" /\ call[k] \in Calls /\ call'[k].lead = call[k].lead
          /\ call'[k].release = call[k].release
        BY <1>4
    <2>2. /\ call[k].lead \in Callers /\ call[call[k].lead].pc \in Downloads
          /\ PosterOf[call[call[k].lead].release] = PosterOf[call[k].release]
        BY <2>1 DEF CoverInv, WaitersFollow, Busy, Url, Calls
    <2> QED BY <2>1, <2>2, <1>4 DEF Downloads
<1>8. FlagsAreTrue'
    <2> SUFFICES ASSUME NEW k \in Callers, call'[k] # NoCall
                 PROVE  /\ call'[k].strict => to = "local"
                        /\ call'[k].lenient => to # "local"
        BY <1>1 DEF FlagsAreTrue
    <2>1. call[k] # NoCall
        BY <1>2
    <2>2. call[k].pc # "idle"
        BY <2>1, NotAtWork DEF CoverInv, CoverShape
    <2> QED BY <2>2, <1>4
<1>9. ModeIsKept'
    <2> SUFFICES ASSUME NEW k \in Callers, call'[k].pc = "store", call'[k].was = "remote"
                 PROVE  /\ call'[k].strict => call'[k].result # "remote"
                        /\ call'[k].lenient => call'[k].result # "blank"
        BY DEF ModeIsKept, Busy
    <2> QED BY <1>4 DEF CoverInv, ModeIsKept, Busy
<1> QED BY <1>5, <1>6, <1>7, <1>8, <1>9 DEF CoverInv

LEMMA CoverInductive == CoverSpec => []CoverInv
<1>1. CoverInit => CoverInv
    BY CoverInitInv
<1>2. ASSUME CoverInv, [CoverNext]_coverVars PROVE CoverInv'
    <2>1. ASSUME NEW to \in Modes \ {mode}, SaveCoverMode(to) PROVE CoverInv'
        BY <1>2, <2>1, ModeChangesAreSafe
    <2>2. ASSUME NEW j \in Callers, NEW r \in Releases, Upsert(j, r) \/ Link(j, r) \/ Backfill(j, r)
          PROVE  CoverInv'
        <3>1. "remote" \in Shapes /\ PosterOf[r] \in Posters
            BY CoverAssumption DEF Shapes
        <3>2. entry[PosterOf[r]] \in Shapes /\ cover[r] \in Shapes
            BY <1>2, <3>1 DEF CoverInv, CoverShape
        <3> QED BY <1>2, <2>2, <3>1, <3>2, EnteringIsSafe DEF Upsert, Link, Backfill
    <2>3. ASSUME NEW j \in Callers, Decide(j) PROVE CoverInv'
        BY <1>2, <2>3, DecidingIsSafe
    <2>4. ASSUME NEW j \in Callers, Fetching(j) PROVE CoverInv'
        BY <1>2, <2>4, JoiningIsSafe, SettlingIsSafe, ClearingIsSafe, FetchEndingIsSafe DEF Fetching
    <2>5. ASSUME NEW j \in Callers, Settle(j) PROVE CoverInv'
        BY <1>2, <2>5, SettlingIsSafe
    <2>6. ASSUME NEW j \in Callers, Store(j) \/ RowFails(j) PROVE CoverInv'
        BY <1>2, <2>6, StoringIsSafe
    <2>7. CASE UNCHANGED coverVars
        BY <1>2, <2>7 DEF coverVars, CoverInv, CoverShape, LeadersDownload, DownloadsAreLed, Downloads,
                          WaitersFollow, FlagsAreTrue, ModeIsKept, Busy, Url
    <2> QED BY <1>2, <2>1, <2>2, <2>3, <2>4, <2>5, <2>6, <2>7 DEF CoverNext
<1> QED BY <1>1, <1>2, PTL DEF CoverSpec

\* Type correctness of the covers, the calls and the downloads.
THEOREM CoverTypeCorrect == CoverSpec => []CoverTypeOK
<1>1. CoverInv => CoverTypeOK
    BY DEF CoverInv, CoverShape, LeadersDownload, CoverTypeOK
<1> QED BY <1>1, CoverInductive, PTL

\* For every number of callers, posters and releases, and whatever the operator makes of
\* the mode: an image is not being downloaded twice at once, nobody waits for a download
\* that is over, and no call stores what the mode it saw throughout forbids (localize,
\* onCoverFailure).
THEOREM CoversHold == CoverSpec => []CoversAreSound
<1>1. ASSUME CoverInv PROVE CoversAreSound
    <2>1. OneFetchPerUrl
        <3> SUFFICES ASSUME NEW j \in Callers, NEW k \in Callers
                     PROVE  /\ (j # k /\ Busy(j, "fetching") /\ Busy(k, "fetching")) => Url(j) # Url(k)
                            /\ Busy(k, "waiting") => /\ call[call[k].lead].pc \in {"fetching", "clearing"}
                                                     /\ Url(call[k].lead) = Url(k)
            BY DEF OneFetchPerUrl
        <3> QED BY <1>1 DEF CoverInv, DownloadsAreLed, WaitersFollow, Downloads, Busy
    <2> QED BY <1>1, <2>1 DEF CoverInv, CoversAreSound
<1> QED BY <1>1, CoverInductive, PTL

(***************************************************************************)
(* The settings.  Whatever a form copies to memory, but donations, it has  *)
(* stored before; a row that is not there is read as the default; and what *)
(* moved since a process began to boot is what another request wrote.      *)
(***************************************************************************)
SaveShape ==
    \A s \in Saves : save[s] = NoSave \/
        /\ save[s] \in [form : Forms, at : Processes, value : Values, pc : 1..12, old : [Keys -> Values]]
        /\ save[s].pc \in 1..Len(SaveProgram(save[s].form))
SettingsShape ==
    /\ stored \in [Keys -> Values \cup {Unset}] /\ memory \in [Processes -> [Keys -> Values]]
    /\ booting \in [Processes -> SUBSET GroupsInUse] /\ unread \in [Processes -> SUBSET GroupsInUse]
    /\ ever \in [Keys -> SUBSET Values] /\ moved \in [Processes -> SUBSET Keys]
    /\ DOMAIN save = Saves /\ SaveShape

StoredBefore(form, n) ==
    {SaveProgram(form)[i].key : i \in {x \in 1..n - 1 : SaveProgram(form)[x].op = "store"}}

EverIsKept ==
    \A k \in Keys : "default" \in ever[k] /\ (stored[k] # Unset => stored[k] \in ever[k])
SavesAreStored ==
    \A s \in Saves : save[s] # NoSave =>
        /\ \A k \in StoredBefore(save[s].form, save[s].pc) : save[s].value \in ever[k]
        /\ \A k \in Keys \ {"donate"} : save[s].old[k] \in ever[k]
UnsetIsDefault ==
    \A p \in Processes : \A k \in Keys \ moved[p] : stored[k] = Unset => memory[p][k] = "default"
ReadIsStored ==
    \A p \in Processes : \A g \in GroupsInUse \ (booting[p] \cup unread[p]) : \A k \in KeysOf(g) \ moved[p] :
        memory[p][k] = IF stored[k] = Unset THEN "default" ELSE stored[k]

SettingsInv ==
    SettingsShape /\ EverIsKept /\ SavesAreStored /\ AdoptedWasStored /\ UnsetIsDefault /\ ReadIsStored

\* A program stores a key before it adopts it.
Ops == [op : {"store", "adopt", "copy", "swap"}, key : Keys]
Orderly(prog) ==
    /\ prog \in Seq(Ops)
    /\ \A i \in 1..Len(prog) : (prog[i].op = "adopt" /\ prog[i].key # "donate") =>
           \E j \in 1..i - 1 : prog[j].op = "store" /\ prog[j].key = prog[i].key
    /\ \A i \in 1..Len(prog) : prog[i].op = "swap" =>
           i = 3 /\ prog[1].op = "store" /\ prog[1].key = prog[i].key

LEMMA OneAfterAnother ==
    ASSUME NEW a \in Seq(Ops), NEW b \in Seq(Ops), Orderly(a), Orderly(b),
           \A i \in 1..Len(b) : b[i].op # "swap"
    PROVE  Orderly(a \o b)
<1> DEFINE c == a \o b
<1>1. c \in Seq(Ops) /\ Len(c) = Len(a) + Len(b) /\ Len(a) \in Nat /\ Len(b) \in Nat
    OBVIOUS
<1>2. /\ \A i \in 1..Len(a) : c[i] = a[i]
      /\ \A i \in 1..Len(b) : c[Len(a) + i] = b[i]
    OBVIOUS
<1> HIDE DEF c
<1>3. \A i \in 1..Len(c) : i \in 1..Len(a) \/ \E x \in 1..Len(b) : i = Len(a) + x
    <2> TAKE i \in 1..Len(c)
    <2>1. CASE i <= Len(a)
        BY <2>1, <1>1
    <2>2. CASE i > Len(a)
        <3>1. i - Len(a) \in 1..Len(b) /\ i = Len(a) + (i - Len(a))
            BY <2>2, <1>1
        <3> QED BY <3>1
    <2> QED BY <2>1, <2>2, <1>1
<1>4. ASSUME NEW i \in 1..Len(c), c[i].op = "adopt", c[i].key # "donate"
      PROVE  \E j \in 1..i - 1 : c[j].op = "store" /\ c[j].key = c[i].key
    <2>1. CASE i \in 1..Len(a)
        <3>1. PICK j \in 1..i - 1 : a[j].op = "store" /\ a[j].key = a[i].key
            BY <2>1, <1>2, <1>4 DEF Orderly
        <3>2. j \in 1..Len(a)
            BY <2>1, <1>1
        <3> QED BY <2>1, <3>1, <3>2, <1>2
    <2>2. ASSUME NEW x \in 1..Len(b), i = Len(a) + x
          PROVE  \E j \in 1..i - 1 : c[j].op = "store" /\ c[j].key = c[i].key
        <3>1. PICK j \in 1..x - 1 : b[j].op = "store" /\ b[j].key = b[x].key
            BY <2>2, <1>2, <1>4 DEF Orderly
        <3>2. j \in 1..Len(b) /\ Len(a) + j \in 1..i - 1
            BY <2>2, <1>1
        <3>3. c[Len(a) + j] = b[j] /\ c[i] = b[x]
            BY <2>2, <3>2, <1>2
        <3> QED BY <3>1, <3>2, <3>3
    <2> QED BY <2>1, <2>2, <1>3
<1>5. ASSUME NEW i \in 1..Len(c), c[i].op = "swap"
      PROVE  i = 3 /\ c[1].op = "store" /\ c[1].key = c[i].key
    <2>1. i \in 1..Len(a)
        BY <1>2, <1>3, <1>5
    <2>2. 1 \in 1..Len(a)
        BY <2>1, <1>1
    <2> QED BY <2>1, <2>2, <1>2, <1>5 DEF Orderly
<1>6. Orderly(c)
    BY <1>1, <1>4, <1>5 DEF Orderly
<1> QED BY <1>6 DEF c

LEMMA GroupLengths ==
    \A g \in 1..6 : /\ Len(Groups[g]) \in 1..3
                    /\ \A i \in 1..Len(Groups[g]) : Groups[g][i] \in KeysOf(g)
                    /\ DOMAIN Groups[g] = 1..Len(Groups[g])
<1>1. Len(<<"registration", "browsing">>) = 2 /\ DOMAIN <<"registration", "browsing">> = 1..2
    OBVIOUS
<1>2. Len(<<"ttl", "email">>) = 2 /\ DOMAIN <<"ttl", "email">> = 1..2
    OBVIOUS
<1>3. Len(<<"flavour">>) = 1 /\ DOMAIN <<"flavour">> = 1..1
    OBVIOUS
<1>4. Len(<<"search", "shop">>) = 2 /\ DOMAIN <<"search", "shop">> = 1..2
    OBVIOUS
<1>5. Len(<<"cover">>) = 1 /\ DOMAIN <<"cover">> = 1..1
    OBVIOUS
<1>6. Len(<<"donate">>) = 1 /\ DOMAIN <<"donate">> = 1..1
    OBVIOUS
<1>7. /\ Groups[1] = <<"registration", "browsing">> /\ Groups[2] = <<"ttl", "email">>
      /\ Groups[3] = <<"flavour">> /\ Groups[4] = <<"search", "shop">>
      /\ Groups[5] = <<"cover">> /\ Groups[6] = <<"donate">>
    BY DEF Groups
<1>8. \A g \in 1..6 : g = 1 \/ g = 2 \/ g = 3 \/ g = 4 \/ g = 5 \/ g = 6
    OBVIOUS
<1>9. \A g \in 1..6 : Len(Groups[g]) \in 1..3 /\ DOMAIN Groups[g] = 1..Len(Groups[g])
    <2> TAKE g \in 1..6
    <2> HIDE DEF Groups
    <2>1. CASE g = 1
        BY <2>1, <1>1, <1>7
    <2>2. CASE g = 2
        BY <2>2, <1>2, <1>7
    <2>3. CASE g = 3
        BY <2>3, <1>3, <1>7
    <2>4. CASE g = 4
        BY <2>4, <1>4, <1>7
    <2>5. CASE g = 5
        BY <2>5, <1>5, <1>7
    <2>6. CASE g = 6
        BY <2>6, <1>6, <1>7
    <2> QED BY <1>8, <2>1, <2>2, <2>3, <2>4, <2>5, <2>6
<1> QED BY <1>9 DEF KeysOf

LEMMA SavingAGroup ==
    ASSUME NEW g \in 1..6, KeysOf(g) \subseteq Keys
    PROVE  /\ Orderly(SaveGroup(g)) /\ Len(SaveGroup(g)) \in 1..6
           /\ \A i \in 1..Len(SaveGroup(g)) : SaveGroup(g)[i].op \notin {"swap", "copy"}
<1> DEFINE n == Len(Groups[g])
           a == Each("store", g)
           b == Each("adopt", g)
           c == a \o b
<1>1. n \in 1..3 /\ \A i \in 1..n : Groups[g][i] \in Keys
    BY GroupLengths
<1>2. /\ a = [i \in 1..n |-> [op |-> "store", key |-> Groups[g][i]]]
      /\ b = [i \in 1..n |-> [op |-> "adopt", key |-> Groups[g][i]]]
    BY DEF Each, Op
<1> HIDE DEF a, b, n
<1>3. a \in Seq(Ops) /\ b \in Seq(Ops) /\ Len(a) = n /\ Len(b) = n
    <2>1. a \in [1..n -> Ops] /\ b \in [1..n -> Ops] /\ n \in Nat
        BY <1>1, <1>2 DEF Ops
    <2> QED BY <2>1
<1>4. c \in Seq(Ops) /\ Len(c) = n + n
    BY <1>3
<1>5. /\ \A i \in 1..n : c[i] = a[i]
      /\ \A i \in 1..n : c[n + i] = b[i]
    BY <1>1, <1>3
<1> HIDE DEF c
<1>6. \A i \in 1..Len(c) : i \in 1..n \/ \E x \in 1..n : i = n + x
    <2> TAKE i \in 1..Len(c)
    <2>1. CASE i <= n
        BY <2>1, <1>1, <1>4
    <2>2. CASE i > n
        <3>1. i - n \in 1..n /\ i = n + (i - n)
            BY <2>2, <1>1, <1>4
        <3> QED BY <3>1
    <2> QED BY <2>1, <2>2, <1>1, <1>4
<1>7. \A i \in 1..n : /\ c[i].op = "store" /\ c[i].key = Groups[g][i]
                      /\ c[n + i].op = "adopt" /\ c[n + i].key = Groups[g][i]
    <2> TAKE i \in 1..n
    <2>1. c[i] = [op |-> "store", key |-> Groups[g][i]] /\ c[n + i] = [op |-> "adopt", key |-> Groups[g][i]]
        BY <1>2, <1>5
    <2> QED BY <2>1
<1>8. \A i \in 1..Len(c) : c[i].op \notin {"swap", "copy"}
    BY <1>6, <1>7
<1>9. ASSUME NEW i \in 1..Len(c), c[i].op = "adopt"
      PROVE  \E j \in 1..i - 1 : c[j].op = "store" /\ c[j].key = c[i].key
    <2>1. PICK x \in 1..n : i = n + x
        BY <1>6, <1>7, <1>9
    <2>2. x \in 1..i - 1
        BY <2>1, <1>1
    <2>3. c[x].op = "store" /\ c[x].key = c[i].key
        BY <2>1, <1>7
    <2> QED BY <2>2, <2>3
<1>10. Orderly(c)
    BY <1>4, <1>8, <1>9 DEF Orderly
<1>11. Len(c) \in 1..6
    BY <1>1, <1>4
<1> QED BY <1>8, <1>10, <1>11 DEF SaveGroup, a, b, c

LEMMA KeysOfForms ==
    ASSUME NEW f \in Forms
    PROVE  /\ f = "access" => KeysOf(1) \subseteq Keys /\ KeysOf(3) \subseteq Keys
           /\ f = "invite" => KeysOf(2) \subseteq Keys
           /\ f \in Features => f \in Keys
           /\ f = "cover" => KeysOf(5) \subseteq Keys
           /\ f = "donate" => "donate" \in Keys
<1>1. \A g \in GroupsInUse : KeysOf(g) \subseteq Keys
    BY DEF Keys
<1>2. \A i \in DOMAIN FormOf[f] : FormOf[f][i] \in GroupsInUse
    BY DEF GroupsInUse
<1>3. f = "access" => 1 \in GroupsInUse /\ 3 \in GroupsInUse
    <2>1. FormOf["access"] = <<1, 3>> /\ 1 \in DOMAIN <<1, 3>> /\ 2 \in DOMAIN <<1, 3>>
        BY DEF FormOf
    <2>2. <<1, 3>>[1] = 1 /\ <<1, 3>>[2] = 3
        OBVIOUS
    <2> QED BY <2>1, <2>2, <1>2
<1>4. f = "invite" => 2 \in GroupsInUse
    <2>1. FormOf["invite"] = <<2>> /\ 1 \in DOMAIN <<2>> /\ <<2>>[1] = 2
        BY DEF FormOf
    <2> QED BY <2>1, <1>2
<1>5. f \in Features => 4 \in GroupsInUse
    <2>1. FormOf["search"] = <<4>> /\ FormOf["shop"] = <<4>> /\ 1 \in DOMAIN <<4>> /\ <<4>>[1] = 4
        BY DEF FormOf
    <2> QED BY <2>1, <1>2 DEF Features
<1>6. f = "cover" => 5 \in GroupsInUse
    <2>1. FormOf["cover"] = <<5>> /\ 1 \in DOMAIN <<5>> /\ <<5>>[1] = 5
        BY DEF FormOf
    <2> QED BY <2>1, <1>2
<1>7. f = "donate" => 6 \in GroupsInUse
    <2>1. FormOf["donate"] = <<6>> /\ 1 \in DOMAIN <<6>> /\ <<6>>[1] = 6
        BY DEF FormOf
    <2> QED BY <2>1, <1>2
<1>8. {"search", "shop"} \subseteq KeysOf(4) /\ "donate" \in KeysOf(6)
    <2>1. Groups[4] = <<"search", "shop">> /\ Groups[6] = <<"donate">>
        BY DEF Groups
    <2>2. /\ 1 \in DOMAIN <<"search", "shop">> /\ 2 \in DOMAIN <<"search", "shop">> /\ 1 \in DOMAIN <<"donate">>
          /\ <<"search", "shop">>[1] = "search" /\ <<"search", "shop">>[2] = "shop" /\ <<"donate">>[1] = "donate"
        OBVIOUS
    <2> QED BY <2>1, <2>2 DEF KeysOf
<1> QED BY <1>1, <1>3, <1>4, <1>5, <1>6, <1>7, <1>8 DEF Features

LEMMA GroupsAreNumbered == GroupsInUse \subseteq 1..6
<1>1. ASSUME NEW f \in Forms, NEW i \in DOMAIN FormOf[f] PROVE FormOf[f][i] \in 1..6
    <2>1. /\ DOMAIN <<1, 3>> = 1..2 /\ DOMAIN <<2>> = 1..1 /\ DOMAIN <<4>> = 1..1
          /\ DOMAIN <<5>> = 1..1 /\ DOMAIN <<6>> = 1..1
        OBVIOUS
    <2>2. /\ FormOf["access"] = <<1, 3>> /\ FormOf["invite"] = <<2>> /\ FormOf["search"] = <<4>>
          /\ FormOf["shop"] = <<4>> /\ FormOf["cover"] = <<5>> /\ FormOf["donate"] = <<6>>
        BY DEF FormOf
    <2>3. \A x \in 1..2 : <<1, 3>>[x] \in 1..6
        OBVIOUS
    <2>4. \A x \in 1..1 : <<2>>[x] \in 1..6 /\ <<4>>[x] \in 1..6 /\ <<5>>[x] \in 1..6 /\ <<6>>[x] \in 1..6
        OBVIOUS
    <2>5. f \in {"access", "invite", "search", "shop", "cover", "donate"}
        BY SettingsAssumption
    <2> QED BY <1>1, <2>1, <2>2, <2>3, <2>4, <2>5
<1> QED BY <1>1 DEF GroupsInUse

LEMMA ProgramsAreOrderly ==
    ASSUME NEW f \in Forms
    PROVE  /\ Orderly(SaveProgram(f)) /\ Len(SaveProgram(f)) \in 1..12
           /\ \A i \in 1..Len(SaveProgram(f)) :
                 /\ SaveProgram(f)[i].op = "swap" => SaveProgram(f)[i].key = f /\ f \in Features
                 /\ SaveProgram(f)[i].op = "copy" => i # Len(SaveProgram(f))
<1>1. CASE f \in Features
    <2> DEFINE a == [op |-> "store", key |-> f]
               b == [op |-> "copy", key |-> f]
               c == [op |-> "swap", key |-> f]
               prog == <<a, b, c>>
    <2>1. SaveProgram(f) = prog
        <3>1. SaveProgram(f) = <<Op("store", f), Op("copy", f), Op("swap", f)>>
            <4>1. f # "donate" /\ f # "access"
                BY <1>1 DEF Features
            <4> QED BY <1>1, <4>1 DEF SaveProgram
        <3> QED BY <3>1 DEF Op
    <2>2. a \in Ops /\ b \in Ops /\ c \in Ops
        BY <1>1, KeysOfForms DEF Ops
    <2>3. a.op = "store" /\ b.op = "copy" /\ c.op = "swap" /\ a.key = f /\ c.key = f
        OBVIOUS
    <2> HIDE DEF a, b, c
    <2>4. prog \in Seq(Ops) /\ Len(prog) = 3 /\ prog[1] = a /\ prog[2] = b /\ prog[3] = c
        BY <2>2
    <2> HIDE DEF prog
    <2>5. \A i \in 1..3 : i = 1 \/ i = 2 \/ i = 3
        OBVIOUS
    <2>6. Orderly(prog)
        BY <2>3, <2>4, <2>5 DEF Orderly
    <2> QED BY <1>1, <2>1, <2>3, <2>4, <2>5, <2>6
<1>2. CASE f = "donate"
    <2> DEFINE a == [op |-> "adopt", key |-> "donate"]
               b == [op |-> "store", key |-> "donate"]
               prog == <<a, b>>
    <2>1. SaveProgram(f) = prog
        BY <1>2 DEF SaveProgram, Op, Features
    <2>2. a \in Ops /\ b \in Ops
        BY <1>2, KeysOfForms DEF Ops
    <2>3. a.op = "adopt" /\ a.key = "donate" /\ b.op = "store"
        OBVIOUS
    <2> HIDE DEF a, b
    <2>4. prog \in Seq(Ops) /\ Len(prog) = 2 /\ prog[1] = a /\ prog[2] = b
        BY <2>2
    <2> HIDE DEF prog
    <2>5. \A i \in 1..2 : i = 1 \/ i = 2
        OBVIOUS
    <2>6. Orderly(prog)
        BY <2>3, <2>4, <2>5 DEF Orderly
    <2> QED BY <2>1, <2>3, <2>4, <2>5, <2>6
<1>3. ASSUME NEW g \in 1..6, KeysOf(g) \subseteq Keys, SaveProgram(f) = SaveGroup(g) PROVE
           /\ Orderly(SaveProgram(f)) /\ Len(SaveProgram(f)) \in 1..12
           /\ \A i \in 1..Len(SaveProgram(f)) : SaveProgram(f)[i].op \notin {"swap", "copy"}
    <2>1. Orderly(SaveGroup(g)) /\ Len(SaveGroup(g)) \in 1..6
        BY <1>3, SavingAGroup
    <2>2. \A i \in 1..Len(SaveGroup(g)) : SaveGroup(g)[i].op \notin {"swap", "copy"}
        BY <1>3, SavingAGroup
    <2> QED BY <1>3, <2>1, <2>2
<1>4. CASE f = "invite"
    <2>1. FormOf["invite"] = <<2>> /\ <<2>>[1] = 2
        BY DEF FormOf
    <2>2. SaveProgram(f) = SaveGroup(2)
        BY <1>4, <2>1 DEF SaveProgram, Features
    <2> QED BY <1>3, <1>4, <2>2, KeysOfForms
<1>5. CASE f = "cover"
    <2>1. FormOf["cover"] = <<5>> /\ <<5>>[1] = 5
        BY DEF FormOf
    <2>2. SaveProgram(f) = SaveGroup(5)
        BY <1>5, <2>1 DEF SaveProgram, Features
    <2> QED BY <1>3, <1>5, <2>2, KeysOfForms
<1>6. CASE f = "access"
    <2> DEFINE a == SaveGroup(1)
               b == SaveGroup(3)
    <2>1. SaveProgram(f) = a \o b
        BY <1>6 DEF SaveProgram, Features
    <2>2. KeysOf(1) \subseteq Keys /\ KeysOf(3) \subseteq Keys
        BY <1>6, KeysOfForms
    <2>3. /\ Orderly(a) /\ Len(a) \in 1..6 /\ Orderly(b) /\ Len(b) \in 1..6
          /\ \A i \in 1..Len(a) : a[i].op \notin {"swap", "copy"}
          /\ \A i \in 1..Len(b) : b[i].op \notin {"swap", "copy"}
        BY <2>2, SavingAGroup
    <2> HIDE DEF a, b
    <2>4. a \in Seq(Ops) /\ b \in Seq(Ops)
        BY <2>3 DEF Orderly
    <2>5. Orderly(a \o b)
        BY <2>3, <2>4, OneAfterAnother
    <2>6. Len(a \o b) = Len(a) + Len(b) /\ Len(a \o b) \in 1..12
        <3>1. Len(a \o b) = Len(a) + Len(b)
            BY <2>4
        <3>2. \A x, y \in 1..6 : x + y \in 1..12
            OBVIOUS
        <3> QED BY <2>3, <3>1, <3>2
    <2>7. \A i \in 1..Len(a \o b) : (a \o b)[i].op \notin {"swap", "copy"}
        <3> TAKE i \in 1..Len(a \o b)
        <3>1. CASE i <= Len(a)
            <4>1. i \in 1..Len(a) /\ (a \o b)[i] = a[i]
                BY <3>1, <2>3, <2>4, <2>6
            <4> QED BY <4>1, <2>3
        <3>2. CASE i > Len(a)
            <4>1. i - Len(a) \in 1..Len(b) /\ (a \o b)[i] = b[i - Len(a)]
                BY <3>2, <2>3, <2>4, <2>6
            <4> QED BY <4>1, <2>3
        <3> QED BY <3>1, <3>2, <2>3, <2>6
    <2> QED BY <2>1, <2>5, <2>6, <2>7
<1> QED BY <1>1, <1>2, <1>4, <1>5, <1>6, SettingsAssumption DEF Features

LEMMA StoredOneMore ==
    ASSUME NEW f, NEW n \in Nat
    PROVE  \A k \in StoredBefore(f, n + 1) :
               k \in StoredBefore(f, n) \/ (SaveProgram(f)[n].op = "store" /\ k = SaveProgram(f)[n].key)
<1> TAKE k \in StoredBefore(f, n + 1)
<1>1. PICK i \in 1..n : SaveProgram(f)[i].op = "store" /\ k = SaveProgram(f)[i].key
    BY DEF StoredBefore
<1>2. CASE i = n
    BY <1>1, <1>2
<1>3. CASE i # n
    <2>1. i \in 1..n - 1
        BY <1>3
    <2> QED BY <1>1, <2>1 DEF StoredBefore
<1> QED BY <1>2, <1>3

LEMMA StoredAreKeys ==
    ASSUME NEW f \in Forms, NEW n \in 1..Len(SaveProgram(f))
    PROVE  StoredBefore(f, n) \subseteq Keys
<1> SUFFICES ASSUME NEW k \in StoredBefore(f, n) PROVE k \in Keys
    OBVIOUS
<1>1. SaveProgram(f) \in Seq(Ops)
    BY ProgramsAreOrderly DEF Orderly
<1>2. PICK i \in 1..n - 1 : k = SaveProgram(f)[i].key
    BY DEF StoredBefore
<1>3. i \in 1..Len(SaveProgram(f))
    BY <1>1
<1>4. SaveProgram(f)[i] \in Ops
    BY <1>1, <1>3
<1> QED BY <1>2, <1>4 DEF Ops

\* What a save is about to do.
LEMMA AtItsStatement ==
    ASSUME SettingsShape, NEW s \in Saves, save[s] # NoSave
    PROVE  /\ save[s] = [form |-> save[s].form, at |-> save[s].at, value |-> save[s].value,
                         pc |-> save[s].pc, old |-> save[s].old]
           /\ save[s].form \in Forms /\ save[s].at \in Processes /\ save[s].value \in Values
           /\ save[s].old \in [Keys -> Values] /\ save[s].pc \in 1..12
           /\ save[s].pc \in 1..Len(SaveProgram(save[s].form))
           /\ NextOp(s) \in Ops
           /\ (NextOp(s).op = "adopt" /\ NextOp(s).key # "donate") =>
                  NextOp(s).key \in StoredBefore(save[s].form, save[s].pc)
           /\ NextOp(s).op = "swap" =>
                  save[s].form \in Features \cap Keys /\ save[s].form \in StoredBefore(save[s].form, save[s].pc)
           /\ NextOp(s).op = "copy" => save[s].pc # Len(SaveProgram(save[s].form))
<1> DEFINE f == save[s].form
           n == save[s].pc
           prog == SaveProgram(f)
<1>1. /\ save[s] \in [form : Forms, at : Processes, value : Values, pc : 1..12, old : [Keys -> Values]]
      /\ n \in 1..Len(prog)
    BY DEF SettingsShape, SaveShape
<1>2. f \in Forms /\ n \in 1..12
    BY <1>1
<1>3. /\ Orderly(prog)
      /\ \A i \in 1..Len(prog) : /\ prog[i].op = "swap" => prog[i].key = f /\ f \in Features
                                 /\ prog[i].op = "copy" => i # Len(prog)
    BY <1>2, ProgramsAreOrderly
<1>4. NextOp(s) = prog[n]
    BY DEF NextOp
<1>5. prog[n] \in Ops
    BY <1>1, <1>3 DEF Orderly
<1> HIDE DEF prog
<1>6. ASSUME prog[n].op = "adopt", prog[n].key # "donate" PROVE prog[n].key \in StoredBefore(f, n)
    <2>1. PICK j \in 1..n - 1 : prog[j].op = "store" /\ prog[j].key = prog[n].key
        BY <1>1, <1>3, <1>6 DEF Orderly
    <2> QED BY <2>1 DEF StoredBefore, prog
<1>7. ASSUME prog[n].op = "swap" PROVE f \in Features \cap Keys /\ f \in StoredBefore(f, n)
    <2>1. prog[n].key = f /\ f \in Features
        BY <1>1, <1>3, <1>7
    <2>2. f \in Keys
        BY <1>5, <2>1 DEF Ops
    <2>3. n = 3 /\ prog[1].op = "store" /\ prog[1].key = f
        BY <1>1, <1>3, <1>7, <2>1 DEF Orderly
    <2>4. 1 \in 1..n - 1
        BY <2>3
    <2>5. f \in StoredBefore(f, n)
        BY <2>3, <2>4 DEF StoredBefore, prog
    <2> QED BY <2>1, <2>2, <2>5
<1>8. save[s] = [form |-> save[s].form, at |-> save[s].at, value |-> save[s].value,
                 pc |-> save[s].pc, old |-> save[s].old]
    BY <1>1
<1>9. save[s].at \in Processes /\ save[s].value \in Values /\ save[s].old \in [Keys -> Values]
    BY <1>1
<1>10. prog[n].op = "copy" => n # Len(prog)
    BY <1>1, <1>3
<1> QED BY <1>1, <1>2, <1>4, <1>5, <1>6, <1>7, <1>8, <1>9, <1>10 DEF prog

\* A save that takes a step: nothing that was promised of the rows is lost, and a
\* statement that wrote is remembered.
LEMMA SaveMovesOn ==
    ASSUME SettingsShape, SavesAreStored, NEW s \in Saves, save[s] # NoSave,
           NEW o \in [Keys -> Values], \A k \in Keys \ {"donate"} : o[k] \in ever[k],
           DOMAIN save' = Saves, \A t \in Saves \ {s} : save'[t] = save[t],
           \/ save'[s] = NoSave
           \/ /\ save[s].pc # Len(SaveProgram(save[s].form))
              /\ save'[s] = [form |-> save[s].form, at |-> save[s].at, value |-> save[s].value,
                             pc |-> save[s].pc + 1, old |-> o],
           \A k \in Keys : ever[k] \subseteq ever'[k],
           NextOp(s).op = "store" => save[s].value \in ever'[NextOp(s).key]
    PROVE  SaveShape' /\ SavesAreStored'
<1> DEFINE f == save[s].form
           n == save[s].pc
<1>1. ASSUME NEW t \in Saves, t # s
      PROVE  save'[t] = NoSave \/
        /\ save'[t] \in [form : Forms, at : Processes, value : Values, pc : 1..12, old : [Keys -> Values]]
        /\ save'[t].pc \in 1..Len(SaveProgram(save'[t].form))
    BY <1>1 DEF SettingsShape, SaveShape
<1>2. /\ f \in Forms /\ save[s].at \in Processes /\ save[s].value \in Values /\ n \in 1..12
      /\ n \in 1..Len(SaveProgram(f)) /\ NextOp(s) = SaveProgram(f)[n]
    BY AtItsStatement DEF NextOp
<1>3. Len(SaveProgram(f)) \in 1..12
    BY <1>2, ProgramsAreOrderly
<1>4. ASSUME save'[s] # NoSave
      PROVE  /\ save'[s] \in [form : Forms, at : Processes, value : Values, pc : 1..12, old : [Keys -> Values]]
             /\ save'[s].pc \in 1..Len(SaveProgram(save'[s].form))
             /\ save'[s].form = f /\ save'[s].pc = n + 1 /\ save'[s].value = save[s].value /\ save'[s].old = o
    <2>1. n # Len(SaveProgram(f))
        BY <1>4
    <2>2. n + 1 \in 1..12 /\ n + 1 \in 1..Len(SaveProgram(f))
        <3>1. \A l \in 1..12 : \A m \in 1..l : m # l => m + 1 \in 1..12 /\ m + 1 \in 1..l
            OBVIOUS
        <3> QED BY <2>1, <1>2, <1>3, <3>1
    <2>3. save'[s] = [form |-> f, at |-> save[s].at, value |-> save[s].value, pc |-> n + 1, old |-> o]
        BY <1>4
    <2> QED BY <1>2, <2>2, <2>3
<1>5. SaveShape'
    BY <1>1, <1>4 DEF SaveShape
<1>6. ASSUME NEW t \in Saves, save'[t] # NoSave
      PROVE  /\ \A k \in StoredBefore(save'[t].form, save'[t].pc) : save'[t].value \in ever'[k]
             /\ \A k \in Keys \ {"donate"} : save'[t].old[k] \in ever'[k]
    <2>0. \A x \in Saves : save[x] # NoSave => StoredBefore(save[x].form, save[x].pc) \subseteq Keys
        BY AtItsStatement, StoredAreKeys
    <2>1. CASE t # s
        <3>1. save'[t] = save[t] /\ save[t] # NoSave
            BY <2>1, <1>6
        <3>2. /\ \A k \in StoredBefore(save[t].form, save[t].pc) : save[t].value \in ever[k]
              /\ \A k \in Keys \ {"donate"} : save[t].old[k] \in ever[k]
            BY <3>1 DEF SavesAreStored
        <3> QED BY <2>0, <3>1, <3>2
    <2>2. CASE t = s
        <3>1. \A k \in StoredBefore(f, n) : save[s].value \in ever[k]
            BY DEF SavesAreStored
        <3>2. \A k \in StoredBefore(f, n + 1) :
                  k \in StoredBefore(f, n) \/ (SaveProgram(f)[n].op = "store" /\ k = SaveProgram(f)[n].key)
            BY <1>2, StoredOneMore
        <3>3. \A k \in StoredBefore(f, n + 1) : save[s].value \in ever'[k]
            BY <1>2, <2>0, <3>1, <3>2
        <3> QED BY <1>4, <1>6, <2>2, <3>3
    <2> QED BY <2>1, <2>2
<1> QED BY <1>5, <1>6 DEF SavesAreStored

\* A save that ends, or the step of another form: the saves left alone.
LEMMA SavesAreKept ==
    ASSUME SettingsShape, SavesAreStored, DOMAIN save' = Saves,
           \A t \in Saves : save'[t] \in {save[t], NoSave},
           \A k \in Keys : ever[k] \subseteq ever'[k]
    PROVE  SaveShape' /\ SavesAreStored'
<1>1. SaveShape'
    BY DEF SettingsShape, SaveShape
<1>2. ASSUME NEW t \in Saves, save'[t] # NoSave
      PROVE  /\ \A k \in StoredBefore(save'[t].form, save'[t].pc) : save'[t].value \in ever'[k]
             /\ \A k \in Keys \ {"donate"} : save'[t].old[k] \in ever'[k]
    <2>1. save'[t] = save[t] /\ save[t] # NoSave
        BY <1>2
    <2>2. StoredBefore(save[t].form, save[t].pc) \subseteq Keys
        BY <2>1, AtItsStatement, StoredAreKeys
    <2> QED BY <2>1, <2>2 DEF SavesAreStored
<1> QED BY <1>1, <1>2 DEF SavesAreStored

\* A statement on one row.
LEMMA RowIsPut ==
    ASSUME SettingsShape, EverIsKept, NEW k \in Keys, NEW v \in Values \cup {Unset}, Put(k, v)
    PROVE  /\ stored' \in [Keys -> Values \cup {Unset}] /\ ever' \in [Keys -> SUBSET Values]
           /\ moved' \in [Processes -> SUBSET Keys] /\ EverIsKept'
           /\ \A x \in Keys : ever[x] \subseteq ever'[x]
           /\ v # Unset => v \in ever'[k]
           /\ \A p \in Processes : \A x \in Keys \ moved'[p] : x \in Keys \ moved[p] /\ stored'[x] = stored[x]
<1>1. /\ stored \in [Keys -> Values \cup {Unset}] /\ ever \in [Keys -> SUBSET Values]
      /\ moved \in [Processes -> SUBSET Keys]
    BY DEF SettingsShape
<1>2. /\ \A x \in Keys \ {k} : stored'[x] = stored[x] /\ ever'[x] = ever[x]
      /\ stored'[k] = v /\ ever'[k] = IF v = Unset THEN ever[k] ELSE ever[k] \cup {v}
    BY <1>1 DEF Put
<1>3. \A p \in Processes : moved'[p] = moved[p] \cup {k}
    BY DEF Put
<1>4. stored' \in [Keys -> Values \cup {Unset}]
    BY <1>1 DEF Put
<1>5. ever' \in [Keys -> SUBSET Values]
    <2>1. (IF v = Unset THEN ever[k] ELSE ever[k] \cup {v}) \in SUBSET Values
        BY <1>1
    <2> QED BY <1>1, <2>1 DEF Put
<1>6. moved' \in [Processes -> SUBSET Keys]
    BY <1>1 DEF Put
<1>7. EverIsKept'
    BY <1>2 DEF EverIsKept
<1> QED BY <1>2, <1>3, <1>4, <1>5, <1>6, <1>7

LEMMA BeginningIsSafe ==
    ASSUME SettingsInv, NEW s \in Saves, NEW f \in Forms, NEW p \in Processes, NEW v \in Values,
           BeginSave(s, f, p, v)
    PROVE  SettingsInv'
<1> DEFINE begun == [form |-> f, at |-> p, value |-> v, pc |-> 1, old |-> Defaults]
<1>1. DOMAIN save' = Saves /\ save'[s] = begun /\ \A t \in Saves \ {s} : save'[t] = save[t]
    BY DEF BeginSave, SettingsInv, SettingsShape
<1>2. UNCHANGED <<stored, memory, booting, ever, moved, unread>>
    BY DEF BeginSave
<1>3. Defaults \in [Keys -> Values] /\ \A k \in Keys : Defaults[k] = "default"
    BY DEF Defaults, Values
<1>4. 1 \in 1..12 /\ 1 \in 1..Len(SaveProgram(f))
    <2>1. Len(SaveProgram(f)) \in 1..12
        BY ProgramsAreOrderly
    <2>2. \A l \in 1..12 : 1 \in 1..l
        OBVIOUS
    <2>3. 1 \in 1..12
        OBVIOUS
    <2> QED BY <2>1, <2>2, <2>3
<1>5. StoredBefore(f, 1) = {}
    BY DEF StoredBefore
<1>6. /\ begun \in [form : Forms, at : Processes, value : Values, pc : 1..12, old : [Keys -> Values]]
      /\ begun.form = f /\ begun.pc = 1 /\ begun.old = Defaults /\ begun.value = v
    BY <1>3, <1>4
<1> HIDE DEF begun
<1>7. SaveShape'
    BY <1>1, <1>4, <1>6 DEF SettingsInv, SettingsShape, SaveShape
<1>8. ASSUME NEW t \in Saves, save'[t] # NoSave
      PROVE  /\ \A k \in StoredBefore(save'[t].form, save'[t].pc) : save'[t].value \in ever'[k]
             /\ \A k \in Keys \ {"donate"} : save'[t].old[k] \in ever'[k]
    <2>1. CASE t = s
        BY <2>1, <1>1, <1>2, <1>3, <1>5, <1>6 DEF SettingsInv, EverIsKept
    <2>2. CASE t # s
        BY <2>2, <1>1, <1>2, <1>8 DEF SettingsInv, SavesAreStored
    <2> QED BY <2>1, <2>2
<1>9. SavesAreStored'
    BY <1>8 DEF SavesAreStored
<1> QED BY <1>1, <1>2, <1>7, <1>9 DEF SettingsInv, SettingsShape, EverIsKept, AdoptedWasStored,
                                      UnsetIsDefault, ReadIsStored

\* What a step of a save does to the save.
LEMMA SteppedOn ==
    ASSUME SettingsShape, NEW s \in Saves, save[s] # NoSave, save' = [save EXCEPT ![s] = Stepped(s)]
    PROVE  /\ DOMAIN save' = Saves /\ \A t \in Saves \ {s} : save'[t] = save[t]
           /\ \/ save'[s] = NoSave /\ save[s].pc = Len(SaveProgram(save[s].form))
              \/ /\ save[s].pc # Len(SaveProgram(save[s].form))
                 /\ save'[s] = [form |-> save[s].form, at |-> save[s].at, value |-> save[s].value,
                                pc |-> save[s].pc + 1, old |-> save[s].old]
<1>1. DOMAIN save = Saves
    BY DEF SettingsShape
<1>2. save'[s] = Stepped(s)
    BY <1>1
<1>3. save[s] = [form |-> save[s].form, at |-> save[s].at, value |-> save[s].value,
                 pc |-> save[s].pc, old |-> save[s].old]
    BY AtItsStatement
<1>4. [save[s] EXCEPT !.pc = @ + 1] = [form |-> save[s].form, at |-> save[s].at, value |-> save[s].value,
                                       pc |-> save[s].pc + 1, old |-> save[s].old]
    BY <1>3
<1>5. CASE save[s].pc = Len(SaveProgram(save[s].form))
    BY <1>1, <1>2, <1>5 DEF Stepped
<1>6. CASE save[s].pc # Len(SaveProgram(save[s].form))
    BY <1>1, <1>2, <1>4, <1>6 DEF Stepped
<1> QED BY <1>5, <1>6

LEMMA StoringARowIsSafe ==
    ASSUME SettingsInv, NEW s \in Saves, StoreOne(s)
    PROVE  SettingsInv'
<1> DEFINE k == NextOp(s).key
<1>1. SettingsShape /\ EverIsKept /\ SavesAreStored /\ AdoptedWasStored /\ UnsetIsDefault /\ ReadIsStored
    BY DEF SettingsInv
<1>2. save[s] # NoSave /\ NextOp(s).op = "store" /\ UNCHANGED <<memory, booting, unread>>
    BY DEF StoreOne
<1>4. k \in Keys /\ save[s].value \in Values /\ save[s].old \in [Keys -> Values]
    BY <1>1, <1>2, AtItsStatement DEF Ops
<1>3. PICK v \in {save[s].value, Unset} : Put(k, v) /\ (v = Unset => save[s].value = "default")
    <2>1. save[s].value # Unset
        BY <1>4, SettingsAssumption DEF Values
    <2>2. CASE Put(k, save[s].value)
        BY <2>1, <2>2
    <2>3. CASE save[s].value = "default" /\ Put(k, Unset)
        BY <2>3
    <2> QED BY <2>2, <2>3 DEF StoreOne
<1> HIDE DEF k
<1>5. v \in Values \cup {Unset}
    BY <1>3, <1>4
<1>6. /\ stored' \in [Keys -> Values \cup {Unset}] /\ ever' \in [Keys -> SUBSET Values]
      /\ moved' \in [Processes -> SUBSET Keys] /\ EverIsKept'
      /\ \A x \in Keys : ever[x] \subseteq ever'[x]
      /\ v # Unset => v \in ever'[k]
      /\ \A p \in Processes : \A x \in Keys \ moved'[p] : x \in Keys \ moved[p] /\ stored'[x] = stored[x]
    BY <1>1, <1>3, <1>4, <1>5, RowIsPut
<1>7. save[s].value \in ever'[k]
    BY <1>3, <1>4, <1>6 DEF EverIsKept
<1>8. /\ DOMAIN save' = Saves /\ \A t \in Saves \ {s} : save'[t] = save[t]
      /\ \/ save'[s] = NoSave
         \/ /\ save[s].pc # Len(SaveProgram(save[s].form))
            /\ save'[s] = [form |-> save[s].form, at |-> save[s].at, value |-> save[s].value,
                           pc |-> save[s].pc + 1, old |-> save[s].old]
    <2>1. save' = [save EXCEPT ![s] = Stepped(s)]
        BY DEF StoreOne
    <2> QED BY <1>1, <1>2, <2>1, SteppedOn
<1>9. \A x \in Keys \ {"donate"} : save[s].old[x] \in ever[x]
    BY <1>1, <1>2 DEF SavesAreStored
<1>10. SaveShape' /\ SavesAreStored'
    <2>1. NextOp(s).op = "store" => save[s].value \in ever'[NextOp(s).key]
        BY <1>7 DEF k
    <2> QED BY <1>1, <1>2, <1>4, <1>6, <1>8, <1>9, <2>1, SaveMovesOn
<1>11. SettingsShape'
    BY <1>1, <1>2, <1>6, <1>8, <1>10 DEF SettingsShape
<1>12. AdoptedWasStored' /\ UnsetIsDefault'
    BY <1>1, <1>2, <1>6 DEF AdoptedWasStored, UnsetIsDefault
<1>13. ReadIsStored'
    <2> SUFFICES ASSUME NEW p \in Processes, NEW g \in GroupsInUse, g \notin booting[p] \cup unread[p],
                        NEW x \in KeysOf(g), x \notin moved'[p]
                 PROVE  memory[p][x] = IF stored'[x] = Unset THEN "default" ELSE stored'[x]
        BY <1>2 DEF ReadIsStored
    <2>1. x \in Keys
        BY DEF Keys
    <2> QED BY <1>1, <1>6, <2>1 DEF ReadIsStored
<1> QED BY <1>6, <1>10, <1>11, <1>12, <1>13 DEF SettingsInv

LEMMA SavesThatEndAreSafe ==
    ASSUME SettingsInv, NEW s \in Saves, StoreFails(s)
    PROVE  SettingsInv'
<1>1. UNCHANGED <<stored, memory, booting, ever, moved, unread>>
    BY DEF StoreFails
<1>2. DOMAIN save' = Saves /\ \A t \in Saves : save'[t] \in {save[t], NoSave}
    BY DEF StoreFails, SettingsInv, SettingsShape
<1>3. SaveShape' /\ SavesAreStored'
    BY <1>1, <1>2, SavesAreKept DEF SettingsInv
<1> QED BY <1>1, <1>2, <1>3 DEF SettingsInv, SettingsShape, EverIsKept, AdoptedWasStored,
                                UnsetIsDefault, ReadIsStored

\* A step that touches the memory of the process at which it is taken, and only there
\* the keys that it says have moved.
LEMMA MemoryIsMoved ==
    ASSUME SettingsInv, NEW q \in Processes, NEW ks \in SUBSET Keys,
           UNCHANGED <<stored, booting, ever, unread>>,
           memory' \in [Processes -> [Keys -> Values]], moved' \in [Processes -> SUBSET Keys],
           DOMAIN save' = Saves, SaveShape', SavesAreStored',
           \A p \in Processes \ {q} : memory'[p] = memory[p] /\ moved'[p] = moved[p],
           \A k \in Keys \ ks : memory'[q][k] = memory[q][k],
           \A k \in ks \ {"donate"} : memory'[q][k] \in ever[k],
           moved'[q] = moved[q] \cup ks
    PROVE  SettingsInv'
<1>1. SettingsShape /\ EverIsKept /\ SavesAreStored /\ AdoptedWasStored /\ UnsetIsDefault /\ ReadIsStored
    BY DEF SettingsInv
<1>2. SettingsShape'
    BY <1>1 DEF SettingsShape
<1>3. EverIsKept'
    BY <1>1 DEF EverIsKept
<1>4. AdoptedWasStored'
    <2> SUFFICES ASSUME NEW p \in Processes, NEW k \in Keys \ {"donate"} PROVE memory'[p][k] \in ever[k]
        BY DEF AdoptedWasStored
    <2> QED BY <1>1 DEF AdoptedWasStored
<1>5. \A p \in Processes : \A k \in Keys \ moved'[p] : k \notin moved[p] /\ memory'[p][k] = memory[p][k]
    OBVIOUS
<1>6. UnsetIsDefault'
    BY <1>1, <1>5 DEF UnsetIsDefault
<1>7. ReadIsStored'
    <2> SUFFICES ASSUME NEW p \in Processes, NEW g \in GroupsInUse, g \notin booting[p] \cup unread[p],
                        NEW x \in KeysOf(g), x \notin moved'[p]
                 PROVE  memory'[p][x] = IF stored[x] = Unset THEN "default" ELSE stored[x]
        BY DEF ReadIsStored
    <2>1. x \in Keys
        BY DEF Keys
    <2> QED BY <1>1, <1>5, <2>1 DEF ReadIsStored
<1> QED BY <1>2, <1>3, <1>4, <1>6, <1>7 DEF SettingsInv

LEMMA AdoptingIsSafe ==
    ASSUME SettingsInv, NEW s \in Saves, Adopt(s)
    PROVE  SettingsInv'
<1> DEFINE k == NextOp(s).key
           q == save[s].at
<1>1. SettingsShape /\ SavesAreStored
    BY DEF SettingsInv
<1>2. save[s] # NoSave /\ NextOp(s).op = "adopt" /\ UNCHANGED <<stored, booting, ever, unread>>
    BY DEF Adopt
<1>3. /\ k \in Keys /\ save[s].value \in Values /\ save[s].old \in [Keys -> Values] /\ q \in Processes
      /\ k # "donate" => k \in StoredBefore(save[s].form, save[s].pc)
    BY <1>1, <1>2, AtItsStatement DEF Ops
<1>4. /\ DOMAIN save' = Saves /\ \A t \in Saves \ {s} : save'[t] = save[t]
      /\ \/ save'[s] = NoSave
         \/ /\ save[s].pc # Len(SaveProgram(save[s].form))
            /\ save'[s] = [form |-> save[s].form, at |-> save[s].at, value |-> save[s].value,
                           pc |-> save[s].pc + 1, old |-> save[s].old]
    <2>1. save' = [save EXCEPT ![s] = Stepped(s)]
        BY DEF Adopt
    <2> QED BY <1>1, <1>2, <2>1, SteppedOn
<1>5. \A x \in Keys \ {"donate"} : save[s].old[x] \in ever[x]
    BY <1>1, <1>2 DEF SavesAreStored
<1>6. SaveShape' /\ SavesAreStored'
    BY <1>1, <1>2, <1>3, <1>4, <1>5, SaveMovesOn
<1>7. memory' = [memory EXCEPT ![q][k] = save[s].value] /\ moved' = [moved EXCEPT ![q] = @ \cup {k}]
    BY DEF Adopt, Adopted
<1>8. k # "donate" => save[s].value \in ever[k]
    BY <1>1, <1>2, <1>3 DEF SavesAreStored
<1> HIDE DEF k, q
<1>9. memory \in [Processes -> [Keys -> Values]] /\ moved \in [Processes -> SUBSET Keys]
    BY <1>1 DEF SettingsShape
<1>10. /\ memory' \in [Processes -> [Keys -> Values]] /\ moved' \in [Processes -> SUBSET Keys]
       /\ \A p \in Processes \ {q} : memory'[p] = memory[p] /\ moved'[p] = moved[p]
       /\ \A x \in Keys \ {k} : memory'[q][x] = memory[q][x]
       /\ memory'[q][k] = save[s].value /\ moved'[q] = moved[q] \cup {k}
    BY <1>3, <1>7, <1>9
<1>11. {k} \in SUBSET Keys /\ \A x \in {k} \ {"donate"} : memory'[q][x] \in ever[x]
    BY <1>3, <1>8, <1>10
<1> QED BY <1>2, <1>3, <1>4, <1>6, <1>10, <1>11, MemoryIsMoved

LEMMA CopyingIsSafe ==
    ASSUME SettingsInv, NEW s \in Saves, CopyFeatures(s)
    PROVE  SettingsInv'
<1> DEFINE m == memory[save[s].at]
<1>1. SettingsShape /\ SavesAreStored
    BY DEF SettingsInv
<1>2. save[s] # NoSave /\ NextOp(s).op = "copy" /\ UNCHANGED <<stored, memory, booting, ever, moved, unread>>
    BY DEF CopyFeatures
<1>3. /\ save[s] = [form |-> save[s].form, at |-> save[s].at, value |-> save[s].value,
                    pc |-> save[s].pc, old |-> save[s].old]
      /\ save[s].pc # Len(SaveProgram(save[s].form)) /\ save[s].at \in Processes
    BY <1>1, <1>2, AtItsStatement
<1>4. m \in [Keys -> Values] /\ \A k \in Keys \ {"donate"} : m[k] \in ever[k]
    BY <1>3 DEF SettingsInv, SettingsShape, AdoptedWasStored
<1>5. Stepped(s) = [save[s] EXCEPT !.pc = @ + 1]
    BY <1>3 DEF Stepped
<1>6. [Stepped(s) EXCEPT !.old = m] = [form |-> save[s].form, at |-> save[s].at, value |-> save[s].value,
                                       pc |-> save[s].pc + 1, old |-> m]
    <2> DEFINE x == [form |-> save[s].form, at |-> save[s].at, value |-> save[s].value,
                     pc |-> save[s].pc + 1, old |-> save[s].old]
    <2>1. Stepped(s) = x
        BY <1>3, <1>5
    <2>2. [x EXCEPT !.old = m] = [form |-> save[s].form, at |-> save[s].at, value |-> save[s].value,
                                  pc |-> save[s].pc + 1, old |-> m]
        OBVIOUS
    <2> QED BY <2>1, <2>2
<1>7. /\ DOMAIN save' = Saves /\ \A t \in Saves \ {s} : save'[t] = save[t]
      /\ save'[s] = [Stepped(s) EXCEPT !.old = m]
    BY DEF CopyFeatures, SettingsInv, SettingsShape
<1> HIDE DEF m
<1>8. SaveShape' /\ SavesAreStored'
    BY <1>1, <1>2, <1>3, <1>4, <1>6, <1>7, SaveMovesOn
<1> QED BY <1>2, <1>7, <1>8 DEF SettingsInv, SettingsShape, EverIsKept, AdoptedWasStored,
                                UnsetIsDefault, ReadIsStored

LEMMA SwappingIsSafe ==
    ASSUME SettingsInv, NEW s \in Saves, SwapFeatures(s)
    PROVE  SettingsInv'
<1> DEFINE q == save[s].at
           f == save[s].form
           ks == Features \cap Keys
           new == [k \in Keys |-> IF k = f THEN save[s].value
                                  ELSE IF k \in Features THEN save[s].old[k] ELSE memory[q][k]]
<1>1. SettingsShape /\ SavesAreStored
    BY DEF SettingsInv
<1>2. save[s] # NoSave /\ NextOp(s).op = "swap" /\ UNCHANGED <<stored, booting, ever, unread>>
    BY DEF SwapFeatures
<1>3. /\ save[s].value \in Values /\ save[s].old \in [Keys -> Values] /\ q \in Processes
      /\ f \in ks /\ f \in StoredBefore(f, save[s].pc)
    BY <1>1, <1>2, AtItsStatement
<1>4. /\ DOMAIN save' = Saves /\ \A t \in Saves \ {s} : save'[t] = save[t]
      /\ \/ save'[s] = NoSave
         \/ /\ save[s].pc # Len(SaveProgram(save[s].form))
            /\ save'[s] = [form |-> save[s].form, at |-> save[s].at, value |-> save[s].value,
                           pc |-> save[s].pc + 1, old |-> save[s].old]
    <2>1. save' = [save EXCEPT ![s] = Stepped(s)]
        BY DEF SwapFeatures
    <2> QED BY <1>1, <1>2, <2>1, SteppedOn
<1>5. \A x \in Keys \ {"donate"} : save[s].old[x] \in ever[x]
    BY <1>1, <1>2 DEF SavesAreStored
<1>6. SaveShape' /\ SavesAreStored'
    BY <1>1, <1>2, <1>3, <1>4, <1>5, SaveMovesOn
<1>7. save[s].value \in ever[f]
    BY <1>1, <1>2, <1>3 DEF SavesAreStored
<1>8. memory \in [Processes -> [Keys -> Values]] /\ moved \in [Processes -> SUBSET Keys]
    BY <1>1 DEF SettingsShape
<1>9. memory' = [memory EXCEPT ![q] = new] /\ moved' = [moved EXCEPT ![q] = @ \cup ks]
    BY <1>3, <1>8 DEF SwapFeatures
<1>10. /\ new \in [Keys -> Values]
       /\ \A k \in Keys \ ks : new[k] = memory[q][k]
       /\ \A k \in ks \ {"donate"} : new[k] \in ever[k]
    BY <1>3, <1>5, <1>7, <1>8
<1> HIDE DEF new, q, f
<1>11. /\ memory' \in [Processes -> [Keys -> Values]] /\ moved' \in [Processes -> SUBSET Keys]
       /\ \A p \in Processes \ {q} : memory'[p] = memory[p] /\ moved'[p] = moved[p]
       /\ memory'[q] = new /\ moved'[q] = moved[q] \cup ks
    BY <1>3, <1>8, <1>9, <1>10
<1> HIDE DEF ks
<1>12. ks \in SUBSET Keys
    BY DEF ks
<1>13. /\ \A k \in Keys \ ks : memory'[q][k] = memory[q][k]
       /\ \A k \in ks \ {"donate"} : memory'[q][k] \in ever[k]
    BY <1>10, <1>11
<1>14. q \in Processes /\ DOMAIN save' = Saves /\ SaveShape' /\ SavesAreStored'
    BY <1>3, <1>4, <1>6
<1> QED BY <1>2, <1>11, <1>12, <1>13, <1>14, MemoryIsMoved

LEMMA BootingIsSafe ==
    ASSUME SettingsInv, NEW q \in Processes, Boot(q)
    PROVE  SettingsInv'
<1>1. SettingsShape /\ EverIsKept /\ SavesAreStored /\ AdoptedWasStored /\ UnsetIsDefault /\ ReadIsStored
    BY DEF SettingsInv
<1>2. /\ memory \in [Processes -> [Keys -> Values]] /\ moved \in [Processes -> SUBSET Keys]
      /\ booting \in [Processes -> SUBSET GroupsInUse] /\ unread \in [Processes -> SUBSET GroupsInUse]
    BY <1>1 DEF SettingsShape
<1>3. Defaults \in [Keys -> Values] /\ \A k \in Keys : Defaults[k] = "default"
    BY DEF Defaults, Values
<1>4. /\ UNCHANGED <<stored, ever>>
      /\ \A p \in Processes \ {q} : /\ memory'[p] = memory[p] /\ moved'[p] = moved[p]
                                    /\ booting'[p] = booting[p] /\ unread'[p] = unread[p]
      /\ memory'[q] = Defaults /\ moved'[q] = {} /\ booting'[q] = GroupsInUse /\ unread'[q] = {}
      /\ memory' \in [Processes -> [Keys -> Values]] /\ moved' \in [Processes -> SUBSET Keys]
      /\ booting' \in [Processes -> SUBSET GroupsInUse] /\ unread' \in [Processes -> SUBSET GroupsInUse]
    BY <1>2, <1>3 DEF Boot
<1>5. DOMAIN save' = Saves /\ \A t \in Saves : save'[t] \in {save[t], NoSave}
    BY DEF Boot
<1>6. SaveShape' /\ SavesAreStored'
    BY <1>1, <1>4, <1>5, SavesAreKept
<1>7. SettingsShape'
    BY <1>1, <1>4, <1>5, <1>6 DEF SettingsShape
<1>8. EverIsKept'
    BY <1>1, <1>4 DEF EverIsKept
<1>9. AdoptedWasStored'
    BY <1>1, <1>3, <1>4 DEF AdoptedWasStored, EverIsKept
<1>10. UnsetIsDefault'
    BY <1>1, <1>3, <1>4 DEF UnsetIsDefault
<1>11. ReadIsStored'
    BY <1>1, <1>4 DEF ReadIsStored
<1> QED BY <1>6, <1>7, <1>8, <1>9, <1>10, <1>11 DEF SettingsInv

LEMMA NextGroupIsBooting ==
    ASSUME SettingsShape, NEW q \in Processes, booting[q] # {}
    PROVE  NextGroup(q) \in booting[q] /\ NextGroup(q) \in 1..6
<1>1. booting[q] \subseteq 1..6
    BY GroupsAreNumbered DEF SettingsShape
<1>2. \A S \in SUBSET (1..6) : S # {} => \E g \in S : \A h \in S : g <= h
    <2> SUFFICES ASSUME NEW S \in SUBSET (1..6), S # {} PROVE \E g \in S : \A h \in S : g <= h
        OBVIOUS
    <2>1. \A h \in S : h = 1 \/ h = 2 \/ h = 3 \/ h = 4 \/ h = 5 \/ h = 6
        OBVIOUS
    <2>2. 1 \in S \/ 2 \in S \/ 3 \in S \/ 4 \in S \/ 5 \in S \/ 6 \in S
        BY <2>1
    <2>3. CASE 1 \in S
        BY <2>1, <2>3
    <2>4. CASE 1 \notin S /\ 2 \in S
        BY <2>1, <2>4
    <2>5. CASE 1 \notin S /\ 2 \notin S /\ 3 \in S
        BY <2>1, <2>5
    <2>6. CASE 1 \notin S /\ 2 \notin S /\ 3 \notin S /\ 4 \in S
        BY <2>1, <2>6
    <2>7. CASE 1 \notin S /\ 2 \notin S /\ 3 \notin S /\ 4 \notin S /\ 5 \in S
        BY <2>1, <2>7
    <2>8. CASE 1 \notin S /\ 2 \notin S /\ 3 \notin S /\ 4 \notin S /\ 5 \notin S
        BY <2>1, <2>2, <2>8
    <2> QED BY <2>3, <2>4, <2>5, <2>6, <2>7, <2>8
<1>3. \E g \in booting[q] : \A h \in booting[q] : g <= h
    BY <1>1, <1>2
<1> QED BY <1>1, <1>3 DEF NextGroup

\* Rows read into the memory of a process: what was the default because its row is not
\* there stays so, and nothing that was read before changes.
LEMMA RowsAreRead ==
    ASSUME SettingsInv, NEW q \in Processes, NEW ks, Read(q, ks)
    PROVE  /\ memory' \in [Processes -> [Keys -> Values]]
           /\ \A p \in Processes \ {q} : memory'[p] = memory[p]
           /\ \A k \in Keys : memory'[q][k] = IF k \in ks /\ stored[k] # Unset THEN stored[k] ELSE memory[q][k]
           /\ \A p \in Processes : \A k \in Keys \ {"donate"} : memory'[p][k] \in ever[k]
<1>1. memory \in [Processes -> [Keys -> Values]] /\ stored \in [Keys -> Values \cup {Unset}]
    BY DEF SettingsInv, SettingsShape
<1> DEFINE new == [k \in Keys |-> IF k \in ks /\ stored[k] # Unset THEN stored[k] ELSE memory[q][k]]
<1>2. memory' = [memory EXCEPT ![q] = new]
    BY <1>1 DEF Read
<1>3. new \in [Keys -> Values]
    BY <1>1
<1>4. \A k \in Keys : new[k] = IF k \in ks /\ stored[k] # Unset THEN stored[k] ELSE memory[q][k]
    OBVIOUS
<1> HIDE DEF new
<1>5. /\ memory' \in [Processes -> [Keys -> Values]] /\ memory'[q] = new
      /\ \A p \in Processes \ {q} : memory'[p] = memory[p]
    BY <1>1, <1>2, <1>3
<1>6. \A k \in Keys \ {"donate"} : memory'[q][k] \in ever[k]
    BY <1>4, <1>5 DEF SettingsInv, AdoptedWasStored, EverIsKept
<1>7. \A p \in Processes : \A k \in Keys \ {"donate"} : memory'[p][k] \in ever[k]
    BY <1>5, <1>6 DEF SettingsInv, AdoptedWasStored
<1> QED BY <1>4, <1>5, <1>7

LEMMA LoadingIsSafe ==
    ASSUME SettingsInv, NEW q \in Processes, LoadGroup(q)
    PROVE  SettingsInv'
<1> DEFINE n == NextGroup(q)
<1>1. SettingsShape /\ EverIsKept /\ SavesAreStored /\ AdoptedWasStored /\ UnsetIsDefault /\ ReadIsStored
    BY DEF SettingsInv
<1>2. booting[q] # {} /\ n \in booting[q] /\ n \in GroupsInUse
    <2>1. booting[q] # {}
        BY DEF LoadGroup
    <2> QED BY <1>1, <2>1, NextGroupIsBooting DEF SettingsShape
<1>3. UNCHANGED <<save, unread>> /\ booting' = [booting EXCEPT ![q] = @ \ {n}] /\ Read(q, KeysOf(n))
    BY DEF LoadGroup
<1>4. \/ Put("flavour", "default") /\ n = 3
      \/ UNCHANGED <<stored, ever, moved>>
    BY DEF LoadGroup
<1>5. /\ memory' \in [Processes -> [Keys -> Values]]
      /\ \A p \in Processes \ {q} : memory'[p] = memory[p]
      /\ \A k \in Keys : memory'[q][k] = IF k \in KeysOf(n) /\ stored[k] # Unset THEN stored[k] ELSE memory[q][k]
      /\ \A p \in Processes : \A k \in Keys \ {"donate"} : memory'[p][k] \in ever[k]
    BY <1>3, RowsAreRead
<1>6. /\ booting' \in [Processes -> SUBSET GroupsInUse] /\ booting'[q] = booting[q] \ {n}
      /\ \A p \in Processes \ {q} : booting'[p] = booting[p]
    BY <1>1, <1>3 DEF SettingsShape
<1> HIDE DEF n
<1>7. /\ stored' \in [Keys -> Values \cup {Unset}] /\ ever' \in [Keys -> SUBSET Values]
      /\ moved' \in [Processes -> SUBSET Keys] /\ EverIsKept'
      /\ \A x \in Keys : ever[x] \subseteq ever'[x]
      /\ \A p \in Processes : \A x \in Keys \ moved'[p] : x \in Keys \ moved[p] /\ stored'[x] = stored[x]
    <2>1. CASE UNCHANGED <<stored, ever, moved>>
        BY <1>1, <2>1 DEF SettingsShape, EverIsKept
    <2>2. CASE Put("flavour", "default") /\ n = 3
        <3>1. Groups[3] = <<"flavour">> /\ 1 \in DOMAIN <<"flavour">> /\ <<"flavour">>[1] = "flavour"
            BY DEF Groups
        <3>2. "flavour" \in KeysOf(3)
            BY <3>1 DEF KeysOf
        <3>3. "flavour" \in Keys /\ "default" \in Values
            BY <1>2, <2>2, <3>2 DEF Keys, Values
        <3> QED BY <1>1, <2>2, <3>3, RowIsPut
    <2> QED BY <1>4, <2>1, <2>2
<1>8. DOMAIN save' = Saves /\ SaveShape' /\ SavesAreStored'
    <2>1. DOMAIN save' = Saves /\ \A t \in Saves : save'[t] \in {save[t], NoSave}
        BY <1>1, <1>3 DEF SettingsShape
    <2> QED BY <1>1, <1>7, <2>1, SavesAreKept
<1>9. SettingsShape'
    BY <1>1, <1>3, <1>5, <1>6, <1>7, <1>8 DEF SettingsShape
<1>10. AdoptedWasStored'
    BY <1>5, <1>7 DEF AdoptedWasStored
<1>11. UnsetIsDefault'
    <2> SUFFICES ASSUME NEW p \in Processes, NEW k \in Keys \ moved'[p], stored'[k] = Unset
                 PROVE  memory'[p][k] = "default"
        BY DEF UnsetIsDefault
    <2>1. k \in Keys \ moved[p] /\ stored[k] = Unset
        BY <1>7
    <2>2. memory'[p][k] = memory[p][k]
        BY <1>5, <2>1
    <2> QED BY <1>1, <2>1, <2>2 DEF UnsetIsDefault
<1>12. ReadIsStored'
    <2> SUFFICES ASSUME NEW p \in Processes, NEW g \in GroupsInUse, g \notin booting'[p] \cup unread[p],
                        NEW k \in KeysOf(g), k \notin moved'[p]
                 PROVE  memory'[p][k] = IF stored'[k] = Unset THEN "default" ELSE stored'[k]
        BY <1>3 DEF ReadIsStored
    <2>1. k \in Keys \ moved[p] /\ stored'[k] = stored[k]
        BY <1>7 DEF Keys
    <2>2. CASE g \notin booting[p]
        <3>1. memory[p][k] = IF stored[k] = Unset THEN "default" ELSE stored[k]
            BY <1>1, <2>1, <2>2 DEF ReadIsStored
        <3> QED BY <1>5, <2>1, <3>1
    <2>3. CASE g \in booting[p]
        <3>1. p = q /\ g = n
            BY <1>6, <2>3
        <3>2. stored[k] = Unset => memory[p][k] = "default"
            BY <1>1, <2>1 DEF UnsetIsDefault
        <3> QED BY <1>5, <2>1, <3>1, <3>2
    <2> QED BY <2>2, <2>3
<1> QED BY <1>7, <1>8, <1>9, <1>10, <1>11, <1>12 DEF SettingsInv

LEMMA FailingToLoadIsSafe ==
    ASSUME SettingsInv, NEW q \in Processes, LoadFails(q)
    PROVE  SettingsInv'
<1> DEFINE n == NextGroup(q)
<1>1. SettingsShape /\ EverIsKept /\ SavesAreStored /\ AdoptedWasStored /\ UnsetIsDefault /\ ReadIsStored
    BY DEF SettingsInv
<1>2. n \in booting[q] /\ n \in GroupsInUse
    <2>1. booting[q] # {}
        BY DEF LoadFails
    <2> QED BY <1>1, <2>1, NextGroupIsBooting DEF SettingsShape
<1>3. /\ UNCHANGED <<stored, save, ever, moved>> /\ booting' = [booting EXCEPT ![q] = booting[q] \ {n}]
      /\ unread' = [unread EXCEPT ![q] = @ \cup {n}]
    BY DEF LoadFails, AfterFailure
<1>4. PICK ks : Read(q, ks)
    <2>1. PICK i \in 0..Len(Groups[n]) - 1 :
              Read(q, IF n = 4 THEN {} ELSE {Groups[n][j] : j \in 1..i})
        BY DEF LoadFails
    <2> QED BY <2>1
<1>5. /\ memory' \in [Processes -> [Keys -> Values]]
      /\ \A p \in Processes \ {q} : memory'[p] = memory[p]
      /\ \A k \in Keys : memory'[q][k] = IF k \in ks /\ stored[k] # Unset THEN stored[k] ELSE memory[q][k]
      /\ \A p \in Processes : \A k \in Keys \ {"donate"} : memory'[p][k] \in ever[k]
    BY <1>4, RowsAreRead
<1> HIDE DEF n
<1>6. /\ booting' \in [Processes -> SUBSET GroupsInUse] /\ booting'[q] = booting[q] \ {n}
      /\ unread' \in [Processes -> SUBSET GroupsInUse] /\ unread'[q] = unread[q] \cup {n}
      /\ \A p \in Processes \ {q} : booting'[p] = booting[p] /\ unread'[p] = unread[p]
    BY <1>1, <1>2, <1>3 DEF SettingsShape
<1>7. SettingsShape' /\ EverIsKept' /\ SavesAreStored' /\ AdoptedWasStored'
    BY <1>1, <1>3, <1>5, <1>6 DEF SettingsShape, SaveShape, EverIsKept, SavesAreStored, AdoptedWasStored
<1>8. UnsetIsDefault'
    BY <1>1, <1>3, <1>5 DEF UnsetIsDefault
<1>9. ReadIsStored'
    <2> SUFFICES ASSUME NEW p \in Processes, NEW g \in GroupsInUse, g \notin booting'[p] \cup unread'[p],
                        NEW k \in KeysOf(g), k \notin moved[p]
                 PROVE  memory'[p][k] = IF stored[k] = Unset THEN "default" ELSE stored[k]
        BY <1>3 DEF ReadIsStored
    <2>1. k \in Keys /\ g \notin booting[p] \cup unread[p]
        BY <1>6 DEF Keys
    <2>2. memory[p][k] = IF stored[k] = Unset THEN "default" ELSE stored[k]
        BY <1>1, <2>1 DEF ReadIsStored
    <2> QED BY <1>5, <2>1, <2>2
<1> QED BY <1>7, <1>8, <1>9 DEF SettingsInv

LEMMA SettingsInductive == SettingsSpec => []SettingsInv
<1>1. SettingsInit => SettingsInv
    <2> SUFFICES ASSUME SettingsInit PROVE SettingsInv
        OBVIOUS
    <2>1. /\ stored = [k \in Keys |-> Unset] /\ memory = [p \in Processes |-> [k \in Keys |-> "default"]]
          /\ booting = [p \in Processes |-> {}] /\ save = [s \in Saves |-> NoSave]
          /\ ever = [k \in Keys |-> {"default"}] /\ moved = [p \in Processes |-> {}]
          /\ unread = [p \in Processes |-> {}]
        BY DEF SettingsInit, Defaults
    <2>2. SettingsShape
        BY <2>1 DEF SettingsShape, SaveShape, Values
    <2>3. EverIsKept /\ AdoptedWasStored /\ UnsetIsDefault
        BY <2>1 DEF EverIsKept, AdoptedWasStored, UnsetIsDefault
    <2>4. SavesAreStored
        BY <2>1 DEF SavesAreStored
    <2>5. ReadIsStored
        <3>1. \A g \in GroupsInUse : \A k \in KeysOf(g) : k \in Keys
            BY DEF Keys
        <3> QED BY <2>1, <3>1 DEF ReadIsStored
    <2> QED BY <2>2, <2>3, <2>4, <2>5 DEF SettingsInv
<1>2. SettingsInv /\ [SettingsNext]_settingVars => SettingsInv'
    <2> SUFFICES ASSUME SettingsInv, [SettingsNext]_settingVars PROVE SettingsInv'
        OBVIOUS
    <2>1. ASSUME NEW s \in Saves, NEW f \in Forms, NEW p \in Processes, NEW v \in Values,
                 BeginSave(s, f, p, v) PROVE SettingsInv'
        BY <2>1, BeginningIsSafe
    <2>2. ASSUME NEW s \in Saves, StoreOne(s) PROVE SettingsInv'
        BY <2>2, StoringARowIsSafe
    <2>3. ASSUME NEW s \in Saves, StoreFails(s) PROVE SettingsInv'
        BY <2>3, SavesThatEndAreSafe
    <2>4. ASSUME NEW s \in Saves, Adopt(s) PROVE SettingsInv'
        BY <2>4, AdoptingIsSafe
    <2>5. ASSUME NEW s \in Saves, CopyFeatures(s) PROVE SettingsInv'
        BY <2>5, CopyingIsSafe
    <2>6. ASSUME NEW s \in Saves, SwapFeatures(s) PROVE SettingsInv'
        BY <2>6, SwappingIsSafe
    <2>7. ASSUME NEW p \in Processes, Boot(p) PROVE SettingsInv'
        BY <2>7, BootingIsSafe
    <2>8. ASSUME NEW p \in Processes, LoadGroup(p) PROVE SettingsInv'
        BY <2>8, LoadingIsSafe
    <2>9. ASSUME NEW p \in Processes, LoadFails(p) PROVE SettingsInv'
        BY <2>9, FailingToLoadIsSafe
    <2>10. CASE UNCHANGED settingVars
        BY <2>10 DEF settingVars, SettingsInv, SettingsShape, SaveShape, EverIsKept, SavesAreStored,
                     AdoptedWasStored, UnsetIsDefault, ReadIsStored
    <2> QED BY <2>1, <2>2, <2>3, <2>4, <2>5, <2>6, <2>7, <2>8, <2>9, <2>10 DEF SettingsNext
<1> QED BY <1>1, <1>2, PTL DEF SettingsSpec

(***************************************************************************)
(* One answer.  A save that nothing has torn is alone with its groups: the *)
(* rows it has written say what it says, and when it is over all do.       *)
(***************************************************************************)
RowsInv ==
    /\ torn \subseteq GroupsInUse
    /\ \A g \in GroupsInUse \ (torn \cup {4}) :
          /\ \A s, t \in Saves : /\ save[s] # NoSave /\ g \in GroupsOf(save[s].form)
                               /\ save[t] # NoSave /\ g \in GroupsOf(save[t].form)
                               => s = t
          /\ \A s \in Saves : (save[s] # NoSave /\ g \in GroupsOf(save[s].form)) =>
                 \A k \in KeysOf(g) \cap StoredBefore(save[s].form, save[s].pc) : Answer(k) = save[s].value
          /\ ~Saving(g) => \A k, l \in KeysOf(g) : Answer(k) = Answer(l)

LEMMA KeysOfTheGroups ==
    /\ KeysOf(1) = {"registration", "browsing"} /\ KeysOf(2) = {"ttl", "email"}
    /\ KeysOf(3) = {"flavour"} /\ KeysOf(4) = {"search", "shop"}
    /\ KeysOf(5) = {"cover"} /\ KeysOf(6) = {"donate"}
<1>1. /\ Groups[1] = <<"registration", "browsing">> /\ Groups[2] = <<"ttl", "email">>
      /\ Groups[3] = <<"flavour">> /\ Groups[4] = <<"search", "shop">>
      /\ Groups[5] = <<"cover">> /\ Groups[6] = <<"donate">>
    BY DEF Groups
<1>2. \A x, y : /\ {<<x>>[i] : i \in DOMAIN <<x>>} = {x}
                /\ {<<x, y>>[i] : i \in DOMAIN <<x, y>>} = {x, y}
    <2> TAKE x, y
    <2>1. {<<x>>[i] : i \in DOMAIN <<x>>} = {x}
        <3>1. DOMAIN <<x>> = {1} /\ <<x>>[1] = x
            OBVIOUS
        <3> HIDE DEF Groups
        <3> QED BY <3>1
    <2>2. {<<x, y>>[i] : i \in DOMAIN <<x, y>>} = {x, y}
        <3>1. DOMAIN <<x, y>> = {1, 2} /\ <<x, y>>[1] = x /\ <<x, y>>[2] = y
            OBVIOUS
        <3> QED BY <3>1
    <2> QED BY <2>1, <2>2
<1> HIDE DEF Groups
<1> QED BY <1>1, <1>2 DEF KeysOf

LEMMA KeyOfOneGroup ==
    \A g, h \in 1..6 : \A k : (k \in KeysOf(g) /\ k \in KeysOf(h)) => g = h
<1>1. \A g \in 1..6 : g = 1 \/ g = 2 \/ g = 3 \/ g = 4 \/ g = 5 \/ g = 6
    OBVIOUS
<1> QED BY <1>1, KeysOfTheGroups

LEMMA GroupsOfForms ==
    /\ GroupsOf("access") = {1, 3} /\ GroupsOf("invite") = {2} /\ GroupsOf("search") = {4}
    /\ GroupsOf("shop") = {4} /\ GroupsOf("cover") = {5} /\ GroupsOf("donate") = {6}
<1>1. /\ FormOf["access"] = <<1, 3>> /\ FormOf["invite"] = <<2>> /\ FormOf["search"] = <<4>>
      /\ FormOf["shop"] = <<4>> /\ FormOf["cover"] = <<5>> /\ FormOf["donate"] = <<6>>
    BY DEF FormOf
<1>2. \A x, y : /\ {<<x>>[i] : i \in DOMAIN <<x>>} = {x}
                /\ {<<x, y>>[i] : i \in DOMAIN <<x, y>>} = {x, y}
    <2> TAKE x, y
    <2>1. DOMAIN <<x>> = {1} /\ <<x>>[1] = x
        OBVIOUS
    <2>2. DOMAIN <<x, y>> = {1, 2} /\ <<x, y>>[1] = x /\ <<x, y>>[2] = y
        OBVIOUS
    <2>3. {<<x>>[i] : i \in DOMAIN <<x>>} = {x}
        BY <2>1
    <2>4. {<<x, y>>[i] : i \in DOMAIN <<x, y>>} = {x, y}
        BY <2>2
    <2> QED BY <2>3, <2>4
<1> QED BY <1>1, <1>2 DEF GroupsOf

\* What the program of a form writes.
WritesOnly(prog, S) ==
    /\ \A i \in 1..Len(prog) : prog[i].op = "store" => prog[i].key \in S
    /\ \A k \in S : \E i \in 1..Len(prog) : prog[i].op = "store" /\ prog[i].key = k

LEMMA SavingWritesTheGroup ==
    ASSUME NEW g \in 1..6
    PROVE  WritesOnly(SaveGroup(g), KeysOf(g))
<1> DEFINE n == Len(Groups[g])
           a == Each("store", g)
           b == Each("adopt", g)
           c == a \o b
<1>1. n \in 1..3 /\ DOMAIN Groups[g] = 1..n
    BY GroupLengths
<1>2. /\ a = [i \in 1..n |-> [op |-> "store", key |-> Groups[g][i]]]
      /\ b = [i \in 1..n |-> [op |-> "adopt", key |-> Groups[g][i]]]
    BY DEF Each, Op
<1>3. KeysOf(g) = {Groups[g][i] : i \in 1..n}
    BY <1>1 DEF KeysOf
<1> HIDE DEF a, b, n
<1> DEFINE W == [op : {"store", "adopt"}, key : KeysOf(g)]
<1>4. a \in [1..n -> W] /\ b \in [1..n -> W] /\ n \in Nat
    BY <1>1, <1>2, <1>3
<1>9. \A w \in W : w.key \in KeysOf(g)
    OBVIOUS
<1> HIDE DEF W
<1>10. a \in Seq(W) /\ b \in Seq(W) /\ Len(a) = n /\ Len(b) = n
    BY <1>4
<1>5. c \in Seq(W) /\ Len(c) = n + n
    BY <1>10
<1>6. \A i \in 1..n : c[i] = [op |-> "store", key |-> Groups[g][i]]
    BY <1>1, <1>2, <1>10
<1> HIDE DEF c
<1>7. \A i \in 1..Len(c) : c[i].key \in KeysOf(g)
    <2>1. \A i \in 1..Len(c) : c[i] \in W
        BY <1>5
    <2> QED BY <1>9, <2>1
<1>8. ASSUME NEW k \in KeysOf(g) PROVE \E i \in 1..Len(c) : c[i].op = "store" /\ c[i].key = k
    <2>1. PICK i \in 1..n : k = Groups[g][i]
        BY <1>3
    <2>2. i \in 1..Len(c)
        BY <1>1, <1>5
    <2>3. c[i] = [op |-> "store", key |-> k]
        BY <1>6, <2>1
    <2> QED BY <2>2, <2>3
<1> QED BY <1>7, <1>8 DEF WritesOnly, SaveGroup, a, b, c

LEMMA FormsWriteTheirGroups ==
    ASSUME NEW f \in Forms
    PROVE  /\ GroupsOf(f) \subseteq 1..6 /\ GroupsOf(f) \subseteq GroupsInUse
           /\ f \in Features => GroupsOf(f) = {4}
           /\ \A i \in 1..Len(SaveProgram(f)) : SaveProgram(f)[i].op = "store" =>
                  \E g \in GroupsOf(f) : SaveProgram(f)[i].key \in KeysOf(g)
           /\ f \notin Features => \A g \in GroupsOf(f) : \A k \in KeysOf(g) :
                  \E i \in 1..Len(SaveProgram(f)) : SaveProgram(f)[i].op = "store" /\ SaveProgram(f)[i].key = k
<1>1. f \in {"access", "invite", "search", "shop", "cover", "donate"}
    BY SettingsAssumption
<1>2. GroupsOf(f) \subseteq GroupsInUse
    BY DEF GroupsOf, GroupsInUse
<1>3. GroupsOf(f) \subseteq 1..6
    BY <1>2, GroupsAreNumbered
<1>4. f \in Features => GroupsOf(f) = {4}
    BY GroupsOfForms DEF Features
<1>5. ASSUME NEW S, WritesOnly(SaveProgram(f), S), S = UNION {KeysOf(g) : g \in GroupsOf(f)}
      PROVE  /\ \A i \in 1..Len(SaveProgram(f)) : SaveProgram(f)[i].op = "store" =>
                    \E g \in GroupsOf(f) : SaveProgram(f)[i].key \in KeysOf(g)
             /\ \A g \in GroupsOf(f) : \A k \in KeysOf(g) :
                    \E i \in 1..Len(SaveProgram(f)) : SaveProgram(f)[i].op = "store" /\ SaveProgram(f)[i].key = k
    BY <1>5 DEF WritesOnly
<1>6. CASE f \in Features
    <2> DEFINE a == [op |-> "store", key |-> f]
               b == [op |-> "copy", key |-> f]
               c == [op |-> "swap", key |-> f]
               prog == <<a, b, c>>
    <2>1. SaveProgram(f) = prog
        <3>1. f # "donate" /\ f # "access"
            BY <1>6 DEF Features
        <3> QED BY <1>6, <3>1 DEF SaveProgram, Op
    <2>2. a.op = "store" /\ b.op = "copy" /\ c.op = "swap" /\ a.key = f
        OBVIOUS
    <2> HIDE DEF a, b, c
    <2>3. Len(prog) = 3 /\ prog[1] = a /\ prog[2] = b /\ prog[3] = c
        OBVIOUS
    <2> HIDE DEF prog
    <2>4. \A i \in 1..3 : i = 1 \/ i = 2 \/ i = 3
        OBVIOUS
    <2>5. \A i \in 1..Len(prog) : prog[i].op = "store" => prog[i].key = f
        BY <2>2, <2>3, <2>4
    <2>6. f \in KeysOf(4)
        BY <1>6, KeysOfTheGroups DEF Features
    <2> QED BY <1>2, <1>3, <1>4, <1>6, <2>1, <2>5, <2>6
<1>7. ASSUME NEW g \in 1..6, SaveProgram(f) = SaveGroup(g), GroupsOf(f) = {g}, f \notin Features
      PROVE  WritesOnly(SaveProgram(f), UNION {KeysOf(h) : h \in GroupsOf(f)})
    <2>1. WritesOnly(SaveGroup(g), KeysOf(g))
        BY SavingWritesTheGroup
    <2>2. UNION {KeysOf(h) : h \in GroupsOf(f)} = KeysOf(g)
        BY <1>7
    <2> QED BY <1>7, <2>1, <2>2
<1>8. CASE f = "invite"
    <2>1. SaveProgram(f) = SaveGroup(2)
        <3>1. FormOf["invite"] = <<2>> /\ <<2>>[1] = 2
            BY DEF FormOf
        <3> QED BY <1>8, <3>1 DEF SaveProgram, Features
    <2> QED BY <1>2, <1>3, <1>4, <1>5, <1>7, <1>8, <2>1, GroupsOfForms DEF Features
<1>9. CASE f = "cover"
    <2>1. SaveProgram(f) = SaveGroup(5)
        <3>1. FormOf["cover"] = <<5>> /\ <<5>>[1] = 5
            BY DEF FormOf
        <3> QED BY <1>9, <3>1 DEF SaveProgram, Features
    <2> QED BY <1>2, <1>3, <1>4, <1>5, <1>7, <1>9, <2>1, GroupsOfForms DEF Features
<1>10. CASE f = "donate"
    <2> DEFINE a == [op |-> "adopt", key |-> "donate"]
               b == [op |-> "store", key |-> "donate"]
               prog == <<a, b>>
    <2>1. SaveProgram(f) = prog
        BY <1>10 DEF SaveProgram, Op, Features
    <2>2. a.op = "adopt" /\ b.op = "store" /\ b.key = "donate"
        OBVIOUS
    <2> HIDE DEF a, b
    <2>3. Len(prog) = 2 /\ prog[1] = a /\ prog[2] = b
        OBVIOUS
    <2> HIDE DEF prog
    <2>4. \A i \in 1..2 : i = 1 \/ i = 2
        OBVIOUS
    <2>5. \A i \in 1..Len(prog) : prog[i].op = "store" => prog[i].key = "donate"
        BY <2>2, <2>3, <2>4
    <2>6. 2 \in 1..Len(prog) /\ prog[2].op = "store" /\ prog[2].key = "donate"
        BY <2>2, <2>3
    <2>7. WritesOnly(prog, {"donate"})
        BY <2>5, <2>6 DEF WritesOnly
    <2>8. UNION {KeysOf(h) : h \in GroupsOf(f)} = {"donate"}
        BY <1>10, GroupsOfForms, KeysOfTheGroups
    <2> QED BY <1>2, <1>3, <1>4, <1>5, <2>1, <2>7, <2>8
<1>11. CASE f = "access"
    <2> DEFINE a == SaveGroup(1)
               b == SaveGroup(3)
               c == a \o b
    <2>1. SaveProgram(f) = c
        BY <1>11 DEF SaveProgram, Features
    <2>2. WritesOnly(a, KeysOf(1)) /\ WritesOnly(b, KeysOf(3))
        BY SavingWritesTheGroup
    <2>3. a \in Seq(Ops) /\ b \in Seq(Ops)
        BY <1>11, KeysOfForms, SavingAGroup DEF Orderly
    <2> HIDE DEF a, b
    <2>4. /\ Len(c) = Len(a) + Len(b) /\ Len(a) \in Nat /\ Len(b) \in Nat
          /\ \A i \in 1..Len(a) : c[i] = a[i]
          /\ \A i \in 1..Len(b) : c[Len(a) + i] = b[i]
        BY <2>3
    <2> HIDE DEF c
    <2>5. ASSUME NEW i \in 1..Len(c), c[i].op = "store" PROVE c[i].key \in KeysOf(1) \cup KeysOf(3)
        <3>1. CASE i <= Len(a)
            <4>1. i \in 1..Len(a)
                BY <3>1, <2>4
            <4> QED BY <4>1, <2>2, <2>4, <2>5 DEF WritesOnly
        <3>2. CASE i > Len(a)
            <4>1. i - Len(a) \in 1..Len(b) /\ i = Len(a) + (i - Len(a))
                BY <3>2, <2>4
            <4>2. c[i] = b[i - Len(a)]
                BY <4>1, <2>4
            <4> QED BY <4>1, <4>2, <2>2, <2>5 DEF WritesOnly
        <3> QED BY <3>1, <3>2, <2>4
    <2>6. ASSUME NEW k \in KeysOf(1) \cup KeysOf(3)
          PROVE  \E i \in 1..Len(c) : c[i].op = "store" /\ c[i].key = k
        <3>1. CASE k \in KeysOf(1)
            <4>1. PICK i \in 1..Len(a) : a[i].op = "store" /\ a[i].key = k
                BY <3>1, <2>2 DEF WritesOnly
            <4>2. i \in 1..Len(c)
                BY <2>4
            <4> QED BY <4>1, <4>2, <2>4
        <3>2. CASE k \in KeysOf(3)
            <4>1. PICK i \in 1..Len(b) : b[i].op = "store" /\ b[i].key = k
                BY <3>2, <2>2 DEF WritesOnly
            <4>2. Len(a) + i \in 1..Len(c)
                BY <2>4
            <4> QED BY <4>1, <4>2, <2>4
        <3> QED BY <3>1, <3>2
    <2>7. WritesOnly(c, KeysOf(1) \cup KeysOf(3))
        BY <2>5, <2>6 DEF WritesOnly
    <2>8. UNION {KeysOf(h) : h \in GroupsOf(f)} = KeysOf(1) \cup KeysOf(3)
        BY <1>11, GroupsOfForms
    <2> QED BY <1>2, <1>3, <1>4, <1>5, <2>1, <2>7, <2>8
<1> QED BY <1>1, <1>6, <1>8, <1>9, <1>10, <1>11 DEF Features

\* A save that takes a step or ends after its last one, having written what it says,
\* or written nothing.
LEMMA StepsKeepAnswers ==
    ASSUME SettingsShape, RowsInv, NEW s \in Saves, save[s] # NoSave, UNCHANGED torn,
           \A t \in Saves \ {s} : save'[t] = save[t],
           \/ save'[s] = NoSave /\ save[s].pc = Len(SaveProgram(save[s].form))
           \/ /\ save'[s].form = save[s].form /\ save'[s].value = save[s].value
              /\ save'[s].pc = save[s].pc + 1,
           \A k \in Keys : (NextOp(s).op # "store" \/ k # NextOp(s).key) => Answer(k)' = Answer(k),
           \A k \in Keys : (NextOp(s).op = "store" /\ k = NextOp(s).key /\ save[s].form \notin Features)
                              => Answer(k)' = save[s].value
    PROVE  RowsInv'
<1> DEFINE f == save[s].form
           n == save[s].pc
           v == save[s].value
<1>1. /\ f \in Forms /\ n \in 1..12 /\ n \in 1..Len(SaveProgram(f)) /\ NextOp(s) = SaveProgram(f)[n]
    BY AtItsStatement DEF NextOp
<1>2. f # "none"
    BY <1>1, SettingsAssumption
<1>3. save'[s] # NoSave => save'[s].form = f /\ save'[s].value = v /\ save'[s].pc = n + 1
    OBVIOUS
<1>4. save'[s] = NoSave => n = Len(SaveProgram(f))
    BY <1>2 DEF NoSave
<1>5. SUFFICES ASSUME NEW g \in GroupsInUse \ (torn \cup {4})
               PROVE  /\ \A x, y \in Saves : /\ save'[x] # NoSave /\ g \in GroupsOf(save'[x].form)
                                             /\ save'[y] # NoSave /\ g \in GroupsOf(save'[y].form)
                                             => x = y
                      /\ \A x \in Saves : (save'[x] # NoSave /\ g \in GroupsOf(save'[x].form)) =>
                             \A k \in KeysOf(g) \cap StoredBefore(save'[x].form, save'[x].pc) : Answer(k)' = save'[x].value
                      /\ ~Saving(g)' => \A k, l \in KeysOf(g) : Answer(k)' = Answer(l)'
    BY DEF RowsInv
<1>6. KeysOf(g) \subseteq Keys /\ g \in 1..6
    BY GroupsAreNumbered DEF Keys
<1>7. /\ \A x, y \in Saves : /\ save[x] # NoSave /\ g \in GroupsOf(save[x].form)
                             /\ save[y] # NoSave /\ g \in GroupsOf(save[y].form)
                             => x = y
      /\ \A x \in Saves : (save[x] # NoSave /\ g \in GroupsOf(save[x].form)) =>
             \A k \in KeysOf(g) \cap StoredBefore(save[x].form, save[x].pc) : Answer(k) = save[x].value
      /\ ~Saving(g) => \A k, l \in KeysOf(g) : Answer(k) = Answer(l)
    BY DEF RowsInv
<1>8. \A x \in Saves : (save'[x] # NoSave /\ g \in GroupsOf(save'[x].form)) =>
                           save[x] # NoSave /\ g \in GroupsOf(save[x].form)
    BY <1>3
<1>9. CASE g \in GroupsOf(f)
    <2>1. f \notin Features
        BY <1>1, <1>5, <1>9, FormsWriteTheirGroups
    <2>2. \A k \in KeysOf(g) \cap StoredBefore(f, n + 1) : Answer(k)' = v
        <3> TAKE k \in KeysOf(g) \cap StoredBefore(f, n + 1)
        <3>1. k \in StoredBefore(f, n) \/ (NextOp(s).op = "store" /\ k = NextOp(s).key)
            BY <1>1, StoredOneMore
        <3>2. CASE NextOp(s).op = "store" /\ k = NextOp(s).key
            BY <3>2, <2>1, <1>6
        <3>3. CASE ~(NextOp(s).op = "store" /\ k = NextOp(s).key)
            <4>1. Answer(k) = v
                BY <3>1, <3>3, <1>7, <1>9
            <4>2. Answer(k)' = Answer(k)
                BY <3>3, <1>6
            <4> QED BY <4>1, <4>2
        <3> QED BY <3>2, <3>3
    <2>3. \A x \in Saves : (save'[x] # NoSave /\ g \in GroupsOf(save'[x].form)) => x = s
        BY <1>7, <1>8, <1>9
    <2>4. ASSUME ~Saving(g)', NEW k \in KeysOf(g) PROVE Answer(k)' = v
        <3>1. n = Len(SaveProgram(f))
            BY <1>3, <1>4, <1>9, <2>4 DEF Saving
        <3>2. PICK i \in 1..n : SaveProgram(f)[i].op = "store" /\ SaveProgram(f)[i].key = k
            BY <1>1, <1>9, <2>1, <3>1, FormsWriteTheirGroups
        <3>3. i \in 1..(n + 1) - 1
            BY <1>1
        <3>4. k \in StoredBefore(f, n + 1)
            BY <3>2, <3>3 DEF StoredBefore
        <3> QED BY <2>2, <3>4
    <2> HIDE DEF f, n, v
    <2>5. \A x \in Saves : (save'[x] # NoSave /\ g \in GroupsOf(save'[x].form)) =>
              \A k \in KeysOf(g) \cap StoredBefore(save'[x].form, save'[x].pc) : Answer(k)' = save'[x].value
        BY <1>3, <2>2, <2>3
    <2>6. ~Saving(g)' => \A k, l \in KeysOf(g) : Answer(k)' = Answer(l)'
        BY <2>4
    <2> QED BY <2>3, <2>5, <2>6
<1>10. CASE g \notin GroupsOf(f)
    <2>1. \A k \in KeysOf(g) : Answer(k)' = Answer(k)
        <3> SUFFICES ASSUME NEW k \in KeysOf(g), NextOp(s).op = "store", k = NextOp(s).key
                     PROVE  FALSE
            BY <1>6
        <3>1. PICK h \in GroupsOf(f) : k \in KeysOf(h)
            BY <1>1, FormsWriteTheirGroups
        <3>2. h \in 1..6
            BY <1>1, FormsWriteTheirGroups
        <3> QED BY <1>6, <1>10, <3>1, <3>2, KeyOfOneGroup
    <2>2. \A x \in Saves : (save'[x] # NoSave /\ g \in GroupsOf(save'[x].form)) =>
                               save'[x] = save[x] /\ save[x] # NoSave
        BY <1>3, <1>10
    <2>3. Saving(g) => Saving(g)'
        BY <1>10 DEF Saving
    <2> QED BY <1>7, <1>8, <2>1, <2>2, <2>3
<1> QED BY <1>9, <1>10

\* A step that leaves the rows: saves that end early tear their groups.
LEMMA EndsTear ==
    ASSUME RowsInv, \A k \in Keys : Answer(k)' = Answer(k), torn \subseteq torn', torn' \subseteq GroupsInUse,
           \A t \in Saves : \/ save'[t] = save[t]
                            \/ save'[t] = NoSave /\ GroupsOf(save[t].form) \subseteq torn'
    PROVE  RowsInv'
<1> SUFFICES ASSUME NEW g \in GroupsInUse \ (torn' \cup {4})
             PROVE  /\ \A x, y \in Saves : /\ save'[x] # NoSave /\ g \in GroupsOf(save'[x].form)
                                           /\ save'[y] # NoSave /\ g \in GroupsOf(save'[y].form)
                                           => x = y
                    /\ \A x \in Saves : (save'[x] # NoSave /\ g \in GroupsOf(save'[x].form)) =>
                           \A k \in KeysOf(g) \cap StoredBefore(save'[x].form, save'[x].pc) : Answer(k)' = save'[x].value
                    /\ ~Saving(g)' => \A k, l \in KeysOf(g) : Answer(k)' = Answer(l)'
    BY DEF RowsInv
<1>1. KeysOf(g) \subseteq Keys /\ g \in GroupsInUse \ (torn \cup {4})
    BY DEF Keys
<1>2. \A x \in Saves : save'[x] # NoSave => save'[x] = save[x]
    OBVIOUS
<1>3. \A x \in Saves : (save[x] # NoSave /\ g \in GroupsOf(save[x].form)) => save'[x] = save[x]
    OBVIOUS
<1>4. Saving(g) => Saving(g)'
    BY <1>3 DEF Saving
<1> QED BY <1>1, <1>2, <1>4 DEF RowsInv

LEMMA BeginningKeepsAnswers ==
    ASSUME SettingsShape, RowsInv, NEW s \in Saves, NEW f \in Forms, NEW p \in Processes, NEW v \in Values,
           BeginSave(s, f, p, v)
    PROVE  RowsInv'
<1> DEFINE begun == [form |-> f, at |-> p, value |-> v, pc |-> 1, old |-> Defaults]
<1>1. save'[s] = begun /\ \A t \in Saves \ {s} : save'[t] = save[t]
    BY DEF BeginSave, SettingsShape
<1>2. /\ UNCHANGED stored /\ save[s] = NoSave
      /\ torn' = (torn \ GroupsOf(f)) \cup {g \in GroupsOf(f) : Saving(g)}
    BY DEF BeginSave
<1>3. begun.form = f /\ begun.pc = 1
    OBVIOUS
<1> HIDE DEF begun
<1>4. begun # NoSave
    BY <1>3, SettingsAssumption DEF NoSave
<1>5. StoredBefore(f, 1) = {}
    BY DEF StoredBefore
<1>6. torn' \subseteq GroupsInUse
    BY <1>2, FormsWriteTheirGroups DEF RowsInv
<1>7. \A k : Answer(k)' = Answer(k)
    BY <1>2 DEF Answer
<1>8. ASSUME NEW g \in GroupsInUse \ (torn' \cup {4})
      PROVE  /\ \A x, y \in Saves : /\ save'[x] # NoSave /\ g \in GroupsOf(save'[x].form)
                                    /\ save'[y] # NoSave /\ g \in GroupsOf(save'[y].form)
                                    => x = y
             /\ \A x \in Saves : (save'[x] # NoSave /\ g \in GroupsOf(save'[x].form)) =>
                    \A k \in KeysOf(g) \cap StoredBefore(save'[x].form, save'[x].pc) : Answer(k)' = save'[x].value
             /\ ~Saving(g)' => \A k, l \in KeysOf(g) : Answer(k)' = Answer(l)'
    <2>1. CASE g \in GroupsOf(f)
        <3>1. ~Saving(g)
            BY <1>2, <1>8, <2>1
        <3>2. \A x \in Saves : (save'[x] # NoSave /\ g \in GroupsOf(save'[x].form)) => x = s
            BY <1>1, <3>1 DEF Saving
        <3>3. Saving(g)'
            BY <1>1, <1>3, <1>4, <2>1 DEF Saving
        <3> QED BY <1>1, <1>3, <1>5, <3>2, <3>3
    <2>2. CASE g \notin GroupsOf(f)
        <3>1. g \in GroupsInUse \ (torn \cup {4})
            BY <1>2, <1>8, <2>2
        <3>2. \A x \in Saves : (save'[x] # NoSave /\ g \in GroupsOf(save'[x].form)) => save'[x] = save[x]
            BY <1>1, <1>3, <2>2
        <3>3. Saving(g) => Saving(g)'
            BY <1>1, <1>2 DEF Saving
        <3> QED BY <1>7, <3>1, <3>2, <3>3 DEF RowsInv
    <2> QED BY <2>1, <2>2
<1> QED BY <1>6, <1>8 DEF RowsInv

\* A statement of a save changes the answer of no row but its own, and there, the
\* features aside, to what the save says.
LEMMA StoringKeepsAnswers ==
    ASSUME SettingsShape, RowsInv, NEW s \in Saves, StoreOne(s)
    PROVE  RowsInv'
<1> DEFINE k == NextOp(s).key
           v == save[s].value
<1>1. save[s] # NoSave /\ NextOp(s).op = "store" /\ UNCHANGED torn
    BY DEF StoreOne
<1>2. k \in Keys /\ v \in Values
    BY <1>1, AtItsStatement DEF Ops
<1>3. v # Unset
    BY <1>2, SettingsAssumption DEF Values
<1>4. \/ stored' = [stored EXCEPT ![k] = v]
      \/ stored' = [stored EXCEPT ![k] = Unset] /\ save[s].form \in Features
    BY DEF StoreOne, Put
<1>5. save' = [save EXCEPT ![s] = Stepped(s)]
    BY DEF StoreOne
<1>6. DOMAIN stored = Keys
    BY DEF SettingsShape
<1> HIDE DEF k, v
<1>7. \A x \in Keys : x # k => Answer(x)' = Answer(x)
    BY <1>4, <1>6 DEF Answer
<1>8. \A x \in Keys : (x = k /\ save[s].form \notin Features) => Answer(x)' = v
    BY <1>2, <1>3, <1>4, <1>6 DEF Answer
<1>9. /\ \A t \in Saves \ {s} : save'[t] = save[t]
      /\ \/ save'[s] = NoSave /\ save[s].pc = Len(SaveProgram(save[s].form))
         \/ save'[s] = [form |-> save[s].form, at |-> save[s].at, value |-> save[s].value,
                        pc |-> save[s].pc + 1, old |-> save[s].old]
    BY <1>1, <1>5, SteppedOn
<1>10. \/ save'[s] = NoSave /\ save[s].pc = Len(SaveProgram(save[s].form))
       \/ /\ save'[s].form = save[s].form /\ save'[s].value = save[s].value
          /\ save'[s].pc = save[s].pc + 1
    BY <1>9
<1>11. /\ \A x \in Keys : (NextOp(s).op # "store" \/ x # NextOp(s).key) => Answer(x)' = Answer(x)
       /\ \A x \in Keys : (NextOp(s).op = "store" /\ x = NextOp(s).key /\ save[s].form \notin Features)
                              => Answer(x)' = save[s].value
    BY <1>1, <1>7, <1>8 DEF k, v
<1> QED BY <1>1, <1>9, <1>10, <1>11, StepsKeepAnswers

\* The other steps of a save write no row.
LEMMA OtherStepsKeepAnswers ==
    ASSUME SettingsShape, RowsInv, NEW s \in Saves, Adopt(s) \/ CopyFeatures(s) \/ SwapFeatures(s)
    PROVE  RowsInv'
<1>1. save[s] # NoSave /\ NextOp(s).op \in {"adopt", "copy", "swap"} /\ UNCHANGED <<stored, torn>>
    BY DEF Adopt, CopyFeatures, SwapFeatures
<1>2. /\ \A t \in Saves \ {s} : save'[t] = save[t]
      /\ \/ save'[s] = NoSave /\ save[s].pc = Len(SaveProgram(save[s].form))
         \/ /\ save'[s].form = save[s].form /\ save'[s].value = save[s].value
            /\ save'[s].pc = save[s].pc + 1
    <2>1. CASE save' = [save EXCEPT ![s] = Stepped(s)]
        <3>1. /\ \A t \in Saves \ {s} : save'[t] = save[t]
              /\ \/ save'[s] = NoSave /\ save[s].pc = Len(SaveProgram(save[s].form))
                 \/ save'[s] = [form |-> save[s].form, at |-> save[s].at, value |-> save[s].value,
                                pc |-> save[s].pc + 1, old |-> save[s].old]
            BY <1>1, <2>1, SteppedOn
        <3> QED BY <3>1
    <2>2. CASE CopyFeatures(s)
        <3> DEFINE m == memory[save[s].at]
                   x == [form |-> save[s].form, at |-> save[s].at, value |-> save[s].value,
                         pc |-> save[s].pc + 1, old |-> save[s].old]
        <3>1. /\ save[s] = [form |-> save[s].form, at |-> save[s].at, value |-> save[s].value,
                            pc |-> save[s].pc, old |-> save[s].old]
              /\ NextOp(s).op = "copy" => save[s].pc # Len(SaveProgram(save[s].form))
            BY <1>1, AtItsStatement
        <3>2. Stepped(s) = [save[s] EXCEPT !.pc = @ + 1]
            BY <2>2, <3>1 DEF CopyFeatures, Stepped
        <3>3. Stepped(s) = x
            BY <3>1, <3>2
        <3>4. save' = [save EXCEPT ![s] = [Stepped(s) EXCEPT !.old = m]] /\ DOMAIN save = Saves
            BY <2>2 DEF CopyFeatures, SettingsShape
        <3> HIDE DEF m
        <3>5. [x EXCEPT !.old = m] = [form |-> save[s].form, at |-> save[s].at, value |-> save[s].value,
                                      pc |-> save[s].pc + 1, old |-> m]
            OBVIOUS
        <3>6. save'[s] = [x EXCEPT !.old = m] /\ \A t \in Saves \ {s} : save'[t] = save[t]
            BY <3>3, <3>4
        <3> HIDE DEF x
        <3> QED BY <3>5, <3>6
    <2> QED BY <2>1, <2>2 DEF Adopt, SwapFeatures
<1>3. \A k \in Keys : Answer(k)' = Answer(k)
    BY <1>1 DEF Answer
<1> QED BY <1>1, <1>2, <1>3, StepsKeepAnswers

\* A save that fails or is cut tears its groups.
LEMMA FailingTears ==
    ASSUME SettingsShape, RowsInv, NEW s \in Saves, StoreFails(s)
    PROVE  RowsInv'
<1>1. save[s] # NoSave /\ UNCHANGED stored /\ torn' = torn \cup GroupsOf(save[s].form)
    BY DEF StoreFails
<1>2. GroupsOf(save[s].form) \subseteq GroupsInUse
    BY <1>1, AtItsStatement, FormsWriteTheirGroups
<1>3. save'[s] = NoSave /\ \A t \in Saves \ {s} : save'[t] = save[t]
    BY DEF StoreFails, SettingsShape
<1>4. \A k \in Keys : Answer(k)' = Answer(k)
    BY <1>1 DEF Answer
<1>5. torn \subseteq torn' /\ torn' \subseteq GroupsInUse
    BY <1>1, <1>2 DEF RowsInv
<1>6. \A t \in Saves : save'[t] = save[t] \/ (save'[t] = NoSave /\ GroupsOf(save[t].form) \subseteq torn')
    BY <1>1, <1>3
<1> QED BY <1>4, <1>5, <1>6, EndsTear

LEMMA BootingTears ==
    ASSUME SettingsShape, RowsInv, NEW p \in Processes, Boot(p)
    PROVE  RowsInv'
<1> DEFINE cut == {t \in Saves : save[t] # NoSave /\ save[t].at = p}
<1>1. UNCHANGED stored /\ torn' = torn \cup UNION {GroupsOf(save[s].form) : s \in cut}
    BY DEF Boot
<1>2. \A s \in cut : GroupsOf(save[s].form) \subseteq GroupsInUse
    BY AtItsStatement, FormsWriteTheirGroups
<1>3. \A t \in Saves : save'[t] = save[t] \/ (save'[t] = NoSave /\ t \in cut)
    BY DEF Boot
<1> HIDE DEF cut
<1>4. \A k \in Keys : Answer(k)' = Answer(k)
    BY <1>1 DEF Answer
<1>5. torn \subseteq torn' /\ torn' \subseteq GroupsInUse
    BY <1>1, <1>2 DEF RowsInv
<1>6. \A t \in Saves : save'[t] = save[t] \/ (save'[t] = NoSave /\ GroupsOf(save[t].form) \subseteq torn')
    BY <1>1, <1>3
<1> QED BY <1>4, <1>5, <1>6, EndsTear

\* The flavour of a first boot is stored where no row was, as what was answered.
LEMMA LoadingKeepsAnswers ==
    ASSUME SettingsShape, RowsInv, NEW p \in Processes, LoadGroup(p) \/ LoadFails(p)
    PROVE  RowsInv'
<1>1. UNCHANGED <<save, torn>>
    BY DEF LoadGroup, LoadFails
<1>2. \A k \in Keys : Answer(k)' = Answer(k)
    <2>1. CASE UNCHANGED stored
        BY <2>1 DEF Answer
    <2>2. CASE stored["flavour"] = Unset /\ stored' = [stored EXCEPT !["flavour"] = "default"]
        <3>1. DOMAIN stored = Keys /\ "default" # Unset
            BY SettingsAssumption DEF SettingsShape
        <3> QED BY <2>2, <3>1 DEF Answer
    <2> QED BY <2>1, <2>2 DEF LoadGroup, LoadFails, Put
<1>3. torn' \subseteq GroupsInUse
    BY <1>1 DEF RowsInv
<1> QED BY <1>1, <1>2, <1>3, EndsTear

LEMMA RowsInductive == SettingsSpec => []RowsInv
<1>1. SettingsInit => RowsInv
    <2> SUFFICES ASSUME SettingsInit PROVE RowsInv
        OBVIOUS
    <2>1. torn = {} /\ \A s \in Saves : save[s] = NoSave
        BY DEF SettingsInit
    <2>2. ASSUME NEW g \in GroupsInUse PROVE \A k, l \in KeysOf(g) : Answer(k) = Answer(l)
        <3>1. \A k \in KeysOf(g) : k \in Keys
            BY DEF Keys
        <3>2. \A k \in Keys : Answer(k) = "default"
            BY DEF Answer, SettingsInit
        <3> QED BY <3>1, <3>2
    <2> QED BY <2>1, <2>2 DEF RowsInv
<1>2. SettingsInv /\ RowsInv /\ [SettingsNext]_settingVars => RowsInv'
    <2> SUFFICES ASSUME SettingsShape, RowsInv, [SettingsNext]_settingVars PROVE RowsInv'
        BY DEF SettingsInv
    <2>1. ASSUME NEW s \in Saves, NEW f \in Forms, NEW p \in Processes, NEW v \in Values,
                 BeginSave(s, f, p, v) PROVE RowsInv'
        BY <2>1, BeginningKeepsAnswers
    <2>2. ASSUME NEW s \in Saves, StoreOne(s) PROVE RowsInv'
        BY <2>2, StoringKeepsAnswers
    <2>3. ASSUME NEW s \in Saves, StoreFails(s) PROVE RowsInv'
        BY <2>3, FailingTears
    <2>4. ASSUME NEW s \in Saves, Adopt(s) \/ CopyFeatures(s) \/ SwapFeatures(s) PROVE RowsInv'
        BY <2>4, OtherStepsKeepAnswers
    <2>5. ASSUME NEW p \in Processes, Boot(p) PROVE RowsInv'
        BY <2>5, BootingTears
    <2>6. ASSUME NEW p \in Processes, LoadGroup(p) \/ LoadFails(p) PROVE RowsInv'
        BY <2>6, LoadingKeepsAnswers
    <2>7. CASE UNCHANGED settingVars
        <3>1. UNCHANGED <<stored, save, torn>>
            BY <2>7 DEF settingVars
        <3>2. \A k \in Keys : Answer(k)' = Answer(k)
            BY <3>1 DEF Answer
        <3>3. torn' \subseteq GroupsInUse
            BY <3>1 DEF RowsInv
        <3> QED BY <3>1, <3>2, <3>3, EndsTear
    <2> QED BY <2>1, <2>2, <2>3, <2>4, <2>5, <2>6, <2>7 DEF SettingsNext
<1> QED BY <1>1, <1>2, SettingsInductive, PTL DEF SettingsSpec

\* Type correctness of the rows, the memories and the saves.
THEOREM SettingsTypeCorrect == SettingsSpec => []SettingsTypeOK
<1>1. SettingsInv /\ torn \subseteq GroupsInUse => SettingsTypeOK
    BY DEF SettingsInv, SettingsShape, SaveShape, SettingsTypeOK
<1> QED BY <1>1, SettingsInductive, RowsInductive, PTL DEF RowsInv

\* For every number of processes, forms and saves in flight, whatever statement fails and
\* whenever a process restarts: a process goes by no answer, donations aside, that was
\* never a row, one that has booted goes by the rows of every group it could read, and
\* the rows of a form are one answer unless its last save was torn.
THEOREM MemoryFollows == SettingsSpec => []MemoryFollowsRows
<1>1. SettingsInv /\ RowsInv => MemoryFollowsRows
    <2>1. SettingsInv => AdoptedWasStored /\ BootAdoptsWhatIsStored
        BY DEF SettingsInv, ReadIsStored, BootAdoptsWhatIsStored, Answer
    <2>2. RowsInv => RowsAreOneAnswer
        BY DEF RowsInv, RowsAreOneAnswer
    <2> QED BY <2>1, <2>2 DEF MemoryFollowsRows
<1> QED BY <1>1, SettingsInductive, RowsInductive, PTL

-----------------------------------------------------------------------------
(***************************************************************************)
(* The chain.  What makes an id find its way back is arithmetic, and holds *)
(* for any stride: a place is kept by the quotient and an id below the     *)
(* stride by the rest.                                                     *)
(***************************************************************************)
LEMMA DivisionIsUnique ==
    ASSUME NEW q \in Nat, NEW n \in Nat \ {0}, NEW i \in 0..n - 1
    PROVE  (q * n + i) \div n = q /\ (q * n + i) % n = i
BY Z3

LEMMA EncodedIsDecoded ==
    ASSUME ChainTypeOK, NEW k \in DOMAIN live, NEW i \in Int, Encodable(i)
    PROVE  /\ Decodable(Encode(k, i)) /\ Encode(k, i) \in Nat
           /\ SourceAt(Encode(k, i)) = live[k] /\ LocalOf(Encode(k, i)) = i
<1> DEFINE q == k - 1
<1>1. k \in 1..Len(live) /\ Len(live) \in Nat /\ q \in Nat /\ q < Len(live) /\ q + 1 = k
  BY DEF ChainTypeOK
<1>2. Stride \in Nat \ {0} /\ i \in 0..Stride - 1
  BY ChainAssumption DEF Encodable
<1>3. Encode(k, i) = q * Stride + i
  BY DEF Encode
<1>4. q * Stride \in Nat
  BY <1>1, <1>2
<1>5. Encode(k, i) \in Nat
  BY <1>2, <1>3, <1>4
<1> HIDE DEF q
<1>6. Encode(k, i) \div Stride = q /\ Encode(k, i) % Stride = i
  BY <1>1, <1>2, <1>3, DivisionIsUnique
<1> QED
  BY <1>1, <1>5, <1>6 DEF Decodable, SourceAt, LocalOf

\* Every reachable state of the chain and its sources is well typed.
THEOREM ChainTypeCorrect == ChainSpec => []ChainTypeOK
<1>1. ChainInit => ChainTypeOK
  <2> SUFFICES ASSUME ChainInit PROVE ChainTypeOK
    OBVIOUS
  <2>0. PICK n \in DOMAIN Order : \E place \in [1..n -> DOMAIN Order] : live = [k \in 1..n |-> Order[place[k]]]
    BY DEF ChainInit
  <2>1. PICK place \in [1..n -> DOMAIN Order] : live = [k \in 1..n |-> Order[place[k]]]
    BY <2>0
  <2>2. n \in Nat /\ \A j \in DOMAIN Order : Order[j] \in Sources
    BY ChainAssumption DEF Sources, Range
  <2>3. live \in Seq(Sources)
    BY <2>1, <2>2
  <2>4. \A s \in Sources : DOMAIN holds[s] = {} /\ Range(holds[s]) = {}
    BY DEF ChainInit, Empty, Range
  <2> QED
    BY <2>3, <2>4 DEF ChainInit, ChainTypeOK
<1>2. ChainTypeOK /\ [ChainNext]_chainVars => ChainTypeOK'
  <2> SUFFICES ASSUME ChainTypeOK, [ChainNext]_chainVars PROVE ChainTypeOK'
    OBVIOUS
  <2>1. ASSUME NEW s \in Sources, Outage(s) PROVE ChainTypeOK'
    BY <2>1 DEF ChainTypeOK, Outage
  <2>2. ASSUME NEW s \in Sources, NEW i \in LocalIds, NEW t \in Titles, Learn(s, i, t) PROVE ChainTypeOK'
    <3> DEFINE h == [j \in DOMAIN holds[s] \cup {i} |-> IF j = i THEN t ELSE holds[s][j]]
    <3>1. holds' = [holds EXCEPT ![s] = h] /\ UNCHANGED <<live, guess, down>>
      BY <2>2 DEF Learn
    <3>2. DOMAIN h = DOMAIN holds[s] \cup {i} /\ \A j \in DOMAIN h : h[j] = t \/ (j \in DOMAIN holds[s] /\ h[j] = holds[s][j])
      OBVIOUS
    <3>3. DOMAIN h \subseteq LocalIds /\ Range(h) \subseteq Titles
      BY <3>2 DEF ChainTypeOK, Range
    <3> HIDE DEF h
    <3> QED
      BY <3>1, <3>3 DEF ChainTypeOK
  <2>3. ASSUME NEW s \in Sources, NEW r \in Raws, NEW i \in LocalIds, Guess(s, r, i) PROVE ChainTypeOK'
    BY <2>3 DEF ChainTypeOK, Guess
  <2>4. CASE UNCHANGED chainVars
    BY <2>4 DEF ChainTypeOK, chainVars
  <2> QED
    BY <2>1, <2>2, <2>3, <2>4 DEF ChainNext
<1> QED
  BY <1>1, <1>2, PTL DEF ChainSpec

LEMMA LowestIsIn ==
    ASSUME NEW S \in SUBSET Nat, S # {}
    PROVE  LowestOf(S) \in S /\ \A j \in S : LowestOf(S) <= j
BY LeastNumber DEF LowestOf

LEMMA LookupIsConfirmed == ChainTypeOK => FoundIsConfirmed
<1> SUFFICES ASSUME ChainTypeOK, NEW raw \in Raws, FindByTitle(raw) # NoId
             PROVE  /\ Fetchable(FindByTitle(raw)) /\ Similar(Fetch(FindByTitle(raw)).title, raw)
                    /\ Asked(Fetch(FindByTitle(raw)).source, raw) = LocalOf(FindByTitle(raw))
                    /\ Search(raw) # NoEntry /\ Kind[Search(raw).source] # "searcher"
                          => Similar(Search(raw).title, raw)
  BY DEF FoundIsConfirmed
<1> DEFINE hits == {k \in DOMAIN live : Accepted(k, raw)}
           answering == {k \in DOMAIN live : Answers(k, raw)}
<1>0. DOMAIN live \subseteq Nat
  BY DEF ChainTypeOK
<1>1. PICK k \in DOMAIN live : Accepted(k, raw) /\ FindByTitle(raw) = Encode(k, Asked(live[k], raw))
  <2>1. hits # {} /\ hits \in SUBSET Nat
    BY <1>0 DEF FindByTitle
  <2>2. LowestOf(hits) \in hits
    BY <2>1, LowestIsIn
  <2>3. FindByTitle(raw) = Encode(LowestOf(hits), Asked(live[LowestOf(hits)], raw))
    BY <2>1 DEF FindByTitle
  <2> QED
    BY <2>2, <2>3
<1> DEFINE i == Asked(live[k], raw)
<1>2. Encodable(i) /\ Readable(live[k], i) /\ Similar(holds[live[k]][i], raw) /\ i \in Int
  <2>1. Encodable(i) /\ Readable(live[k], i) /\ Similar(holds[live[k]][i], raw)
    BY <1>1 DEF Accepted, Confirms
  <2>2. live[k] \in Sources
    BY <1>1 DEF ChainTypeOK
  <2> QED
    BY <2>1, <2>2, ChainAssumption DEF Readable, ChainTypeOK
<1> HIDE DEF i
<1>3. FindByTitle(raw) = Encode(k, i)
  BY <1>1 DEF i
<1>4. Decodable(FindByTitle(raw)) /\ SourceAt(FindByTitle(raw)) = live[k] /\ LocalOf(FindByTitle(raw)) = i
  BY <1>1, <1>2, <1>3, EncodedIsDecoded
<1>5. Fetch(FindByTitle(raw)) = [source |-> live[k], title |-> holds[live[k]][i]]
  BY <1>4 DEF Fetch
<1>6. Search(raw) # NoEntry /\ Kind[Search(raw).source] # "searcher" => Similar(Search(raw).title, raw)
  <2> SUFFICES ASSUME Search(raw) # NoEntry, Kind[Search(raw).source] # "searcher"
               PROVE  Similar(Search(raw).title, raw)
    OBVIOUS
  <2>1. answering # {} /\ answering \in SUBSET Nat
    BY <1>0 DEF Search
  <2>2. LowestOf(answering) \in answering
    BY <2>1, LowestIsIn
  <2>3. PICK j \in DOMAIN live : Answers(j, raw) /\ Search(raw) = EntryOf(j, raw)
    BY <2>1, <2>2 DEF Search
  <2>4. Kind[live[j]] # "searcher"
    BY <2>3 DEF EntryOf
  <2> QED
    BY <2>3, <2>4 DEF EntryOf, Answers, Searched, Confirms
<1> QED
  BY <1>2, <1>4, <1>5, <1>6 DEF Fetchable, i

LEMMA IndexIsOfTheEarliest == ChainTypeOK => IndexLeadsToEarliest
<1> SUFFICES ASSUME ChainTypeOK, NEW t \in Titles, IndexedAt(t) # {}
             PROVE  /\ Fetch(TitleIndex[t]).title = t
                    /\ \A k \in IndexedAt(t) : \E j \in 1..k : live[j] = SourceAt(TitleIndex[t])
  BY DEF IndexLeadsToEarliest, TitleIndex
<1> DEFINE k == LowestOf(IndexedAt(t))
           i == LowestOf(Ids(k, t))
<1>1. IndexedAt(t) \in SUBSET Nat /\ \A j \in IndexedAt(t) : j >= 1
  BY DEF ChainTypeOK, IndexedAt
<1>2. k \in IndexedAt(t) /\ \A j \in IndexedAt(t) : k <= j
  BY <1>1, LowestIsIn
<1>3. k \in DOMAIN live /\ Ids(k, t) # {}
  BY <1>2 DEF IndexedAt
<1>4. Ids(k, t) \in SUBSET Nat
  <2>1. live[k] \in Sources
    BY <1>3 DEF ChainTypeOK
  <2>2. DOMAIN holds[live[k]] \subseteq Int
    BY <2>1, ChainAssumption DEF ChainTypeOK
  <2> QED
    BY <2>2 DEF Ids, Encodable
<1>5. i \in Ids(k, t)
  BY <1>3, <1>4, LowestIsIn
<1>6. TitleIndex[t] = Encode(k, i)
  BY DEF TitleIndex
<1> HIDE DEF k, i
<1>7. i \in Int /\ Encodable(i) /\ holds[live[k]][i] = t
  BY <1>4, <1>5 DEF Ids
<1>8. SourceAt(TitleIndex[t]) = live[k] /\ LocalOf(TitleIndex[t]) = i
  BY <1>3, <1>6, <1>7, EncodedIsDecoded
<1> QED
  BY <1>1, <1>2, <1>7, <1>8 DEF Fetch

\* For any sources, ids, titles and outages, and any stride: what a lookup hands out
\* is the entry that was confirmed, and the index leads to the earliest source.
THEOREM AnswersAreRight == ChainSpec => []CatalogAnswersRight
<1>1. ChainTypeOK => CatalogAnswersRight
  BY LookupIsConfirmed, IndexIsOfTheEarliest DEF CatalogAnswersRight
<1> QED
  BY <1>1, ChainTypeCorrect, PTL

-----------------------------------------------------------------------------
(***************************************************************************)
(* The requests for what is missing on television, for any schedule,       *)
(* number of passes at once and calls that fail.                           *)
(***************************************************************************)
\* What the last pass that looked found missing is missing, or arrived since.
GapsAreGaps ==
    /\ inIndex \subseteq gaps /\ gaps \subseteq Episodes /\ eps \subseteq Episodes
    /\ \A e \in gaps : ~Has(e) \/ e \in fresh

LEMMA GapsInductive == GapsAreGaps /\ [TvNext]_tvVars => GapsAreGaps'
<1> SUFFICES ASSUME GapsAreGaps, [TvNext]_tvVars  PROVE GapsAreGaps'
  OBVIOUS
<1>1. CASE UNCHANGED <<gaps, inIndex, fresh, held, packs>> /\ eps' \subseteq Episodes
  BY <1>1 DEF GapsAreGaps, Has
<1>2. ASSUME NEW e \in Episodes, NEW pack \in BOOLEAN, ReleaseArrives(e, pack)  PROVE GapsAreGaps'
  <2> SUFFICES ASSUME NEW x \in gaps, Has(x)'  PROVE x \in fresh'
    BY <1>2 DEF GapsAreGaps, ReleaseArrives
  <2> QED
    BY <1>2 DEF GapsAreGaps, ReleaseArrives, Has
<1>3. ASSUME NEW r \in Runners, NEW lost, RecomputeGaps(r, lost)  PROVE GapsAreGaps'
  BY <1>3 DEF GapsAreGaps, RecomputeGaps, Missing, IndexedGaps, Has, Indexed
<1>4. ASSUME NEW e \in Episodes, Aging(e)  PROVE GapsAreGaps'
  BY <1>1, <1>4 DEF Aging, GapsAreGaps
<1>5. ASSUME NEW r \in Runners, NEW failed, NEW carried, Refill(r, failed, carried)  PROVE GapsAreGaps'
  BY <1>1, <1>5 DEF Refill, Listed, GapsAreGaps
<1>6. ASSUME NEW r \in Runners, NEW failing, RunGapRequests(r, failing)  PROVE GapsAreGaps'
  BY <1>1, <1>6 DEF RunGapRequests, GapsAreGaps
<1>7. ASSUME NEW r \in Runners, RunAutoGrab(r)  PROVE GapsAreGaps'
  BY <1>1, <1>7 DEF RunAutoGrab, GapsAreGaps
<1>8. CASE UNCHANGED tvVars
  BY <1>1, <1>8 DEF tvVars, GapsAreGaps
<1> QED
  BY <1>2, <1>3, <1>4, <1>5, <1>6, <1>7, <1>8 DEF TvNext, PassStep

LEMMA OnlyGapsAreFiled ==
    GapsAreGaps /\ [TvNext]_tvVars => \A e \in board' \ board : ~Has(e) \/ e \in fresh
<1> SUFFICES ASSUME GapsAreGaps, [TvNext]_tvVars, NEW e \in board' \ board
             PROVE  ~Has(e) \/ e \in fresh
  OBVIOUS
<1>1. PICK r \in Runners : \E failing : RunGapRequests(r, failing)
  BY DEF TvNext, PassStep, Aging, ReleaseArrives, Refill, RecomputeGaps, RunAutoGrab, tvVars
<1> QED
  BY <1>1 DEF RunGapRequests, NewlyFiled, FirstFew, Requestable, GapsAreGaps

\* No request is filed for an episode that was in the index when the gaps were computed,
\* however many passes overlap, whatever could not be read and whatever arrives meanwhile: a
\* season that could not be read counts as held.
THEOREM OnlyMissingIsRequested == TvSpec => NoRequestForWhatIsHeld
<1>1. TvInit => GapsAreGaps
  BY DEF TvInit, GapsAreGaps
<1>2. GapsAreGaps /\ [TvNext]_tvVars => [\A e \in board' \ board : ~Has(e) \/ e \in fresh]_tvVars
  BY OnlyGapsAreFiled
<1> QED
  BY <1>1, <1>2, GapsInductive, PTL DEF TvSpec, NoRequestForWhatIsHeld
===============================================================================
