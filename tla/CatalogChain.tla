---------------------------- MODULE CatalogChain ------------------------------
(***************************************************************************)
(* Several metadata sources of one domain presented as one                 *)
(* (internal/catalogchain).  Each source is asked in order, what it        *)
(* answers is fetched and compared with what was searched for, and its     *)
(* local id is handed out shifted by the source's place, so that a later   *)
(* Fetch finds its way back.  A title is a set of words.                   *)
(***************************************************************************)
EXTENDS Integers, FiniteSets, Sequences, Functions

CONSTANTS
    Order,       \* the sources' names in the order of the chain
    Kind,        \* [sources -> {"index", "finder", "searcher"}]: how one matches a title
    Noise,       \* [sources -> words its Normalize drops]
    LocalIds,    \* ids a source may hand out, some at or above the stride
    Stride,      \* idStride
    Titles,      \* titles of entries
    Raws,        \* titles of releases, looked up
    NoId

ASSUME ChainAssumption ==
    /\ Order \in Seq(STRING) /\ Kind \in [Range(Order) -> {"index", "finder", "searcher"}]
    /\ LocalIds \subseteq Int /\ NoId \notin Int
    /\ Stride \in Nat \ {0}

Sources == Range(Order)
Empty == [i \in {} |-> {}]

VARIABLES
    live,    \* the chain: the configured sources in order
    holds,   \* each source's entries: local ids and titles
    guess,   \* what a source's own matcher answers to each release title
    down     \* sources that cannot be reached

chainVars == <<live, holds, guess, down>>

ChainTypeOK ==
    /\ live \in Seq(Sources) /\ DOMAIN holds = Sources
    /\ \A s \in Sources : DOMAIN holds[s] \subseteq LocalIds /\ Range(holds[s]) \subseteq Titles
    /\ guess \in [Sources -> [Raws -> LocalIds \cup {NoId}]] /\ down \subseteq Sources

\* New: a source that is not configured is absent, and the rest keep their order.
ChainInit ==
    /\ \E n \in DOMAIN Order : \E place \in [1..n -> DOMAIN Order] :
           /\ \A j, k \in 1..n : j < k => place[j] < place[k]
           /\ live = [k \in 1..n |-> Order[place[k]]]
    /\ holds = [s \in Sources |-> Empty]
    /\ guess = [s \in Sources |-> [r \in Raws |-> NoId]] /\ down = {}

(***************************************************************************)
(* The sources, which are outside this repository.                         *)
(***************************************************************************)
Learn(s, i, t) ==
    /\ i \notin DOMAIN holds[s]
    /\ holds' = [holds EXCEPT ![s] = [j \in DOMAIN @ \cup {i} |-> IF j = i THEN t ELSE @[j]]]
    /\ UNCHANGED <<live, guess, down>>

\* A matcher answers with one of its entries, which need not be the right one.
Guess(s, r, i) ==
    /\ Kind[s] # "index" /\ guess[s][r] # i /\ i \in DOMAIN holds[s]
    /\ guess' = [guess EXCEPT ![s][r] = i] /\ UNCHANGED <<live, holds, down>>

Outage(s) ==
    /\ down' = (down \ {s}) \cup ({s} \ down) /\ UNCHANGED <<live, holds, guess>>

Normalize(s, raw) == raw \ Noise[s]
Matches(s, raw) == {i \in DOMAIN holds[s] : holds[s][i] = Normalize(s, raw)}
LowestOf(S) == CHOOSE i \in S : \A j \in S : i <= j
Readable(s, i) == s \notin down /\ i \in DOMAIN holds[s]

(***************************************************************************)
(* encode and decode.                                                      *)
(***************************************************************************)
Encodable(i) == i >= 0 /\ i < Stride
Encode(k, i) == (k - 1) * Stride + i
Decodable(id) == id >= 0 /\ id \div Stride < Len(live)
SourceAt(id) == live[id \div Stride + 1]
LocalOf(id) == id % Stride

(***************************************************************************)
(* Similar: the words two titles share, against the shorter of the two.    *)
(***************************************************************************)
Shorter(a, b) == IF Cardinality(a) <= Cardinality(b) THEN Cardinality(a) ELSE Cardinality(b)
Similar(a, b) == a # {} /\ b # {} /\ 10 * Cardinality(a \cap b) >= 6 * Shorter(a, b)

(***************************************************************************)
(* askOne, confirms, and the walk over the sources: FindByTitle.  A source *)
(* that cannot be read is passed over.                                     *)
(***************************************************************************)
Asked(s, raw) ==
    IF Kind[s] = "finder" THEN guess[s][raw]
    ELSE IF Kind[s] = "index" /\ s \notin down /\ Matches(s, raw) # {}
         THEN LowestOf(Matches(s, raw)) ELSE NoId

ConfirmsUnread(s, i, raw) == Readable(s, i)
Confirms(s, i, raw) == Readable(s, i) /\ Similar(holds[s][i], raw)

Accepted(k, raw) ==
    LET s == live[k]   i == Asked(s, raw)
    IN  /\ i # NoId /\ Encodable(i) /\ Confirms(s, i, raw)

FindByTitle(raw) ==
    LET hits == {k \in DOMAIN live : Accepted(k, raw)}
    IN  IF hits = {} THEN NoId ELSE Encode(LowestOf(hits), Asked(live[LowestOf(hits)], raw))

\* TitleIndex: what an earlier source has is not replaced by a later one.
Ids(k, t) == {i \in DOMAIN holds[live[k]] : holds[live[k]][i] = t /\ Encodable(i)}
IndexedAt(t) == {k \in DOMAIN live : Kind[live[k]] = "index" /\ live[k] \notin down /\ Ids(k, t) # {}}
TitleIndex ==
    [t \in {u \in Titles : IndexedAt(u) # {}} |->
        LET k == LowestOf(IndexedAt(t)) IN Encode(k, LowestOf(Ids(k, t)))]

\* Search: a source that matches by itself is trusted; the others are confirmed.
Answers(k, raw) ==
    IF Kind[live[k]] = "searcher" THEN Readable(live[k], guess[live[k]][raw])
    ELSE Asked(live[k], raw) # NoId /\ Confirms(live[k], Asked(live[k], raw), raw)
Searched(k, raw) == IF Kind[live[k]] = "searcher" THEN guess[live[k]][raw] ELSE Asked(live[k], raw)
NoEntry == [source |-> "none", title |-> {}]
EntryOf(k, raw) == [source |-> live[k], title |-> holds[live[k]][Searched(k, raw)]]
Search(raw) ==
    LET hits == {k \in DOMAIN live : Answers(k, raw)}
    IN  IF hits = {} THEN NoEntry ELSE EntryOf(LowestOf(hits), raw)

Fetchable(id) == Decodable(id) /\ Readable(SourceAt(id), LocalOf(id))
Fetch(id) == [source |-> SourceAt(id), title |-> holds[SourceAt(id)][LocalOf(id)]]

ChainNext ==
    \E s \in Sources : \/ Outage(s)
                       \/ \E i \in LocalIds, t \in Titles : Learn(s, i, t)
                       \/ \E r \in Raws, i \in LocalIds : Guess(s, r, i)

ChainSpec == ChainInit /\ [][ChainNext]_chainVars

(***************************************************************************)
(* Properties.                                                             *)
(***************************************************************************)
\* What a lookup hands out is fetched again from the source that answered, and is
\* the entry that was confirmed: no id is aliased onto a neighbour ("a source
\* that answered is not a source that was right").
FoundIsConfirmed ==
    \A raw \in Raws : FindByTitle(raw) # NoId =>
        /\ Fetchable(FindByTitle(raw)) /\ Similar(Fetch(FindByTitle(raw)).title, raw)
        /\ Asked(Fetch(FindByTitle(raw)).source, raw) = LocalOf(FindByTitle(raw))
        /\ Search(raw) # NoEntry /\ Kind[Search(raw).source] # "searcher" => Similar(Search(raw).title, raw)

\* Of the sources that know a title the earliest that can be read is the one the
\* index leads to ("EARLIER SOURCES WINNING").
IndexLeadsToEarliest ==
    \A t \in DOMAIN TitleIndex :
        LET at == SourceAt(TitleIndex[t])
        IN  /\ Fetch(TitleIndex[t]).title = t
            /\ \A k \in IndexedAt(t) : \E j \in 1..k : live[j] = at

\* Both ways into the chain, the lookup of one title and the index of all, lead to
\* the entry they should.
CatalogAnswersRight == FoundIsConfirmed /\ IndexLeadsToEarliest
===============================================================================
