----------------------------- MODULE AccountProofs -----------------------------
(***************************************************************************)
(* Proofs about three things an account goes through: the links that       *)
(* change its address, the reports about its picture, and the limiter that *)
(* its requests and its passwords pass.                                    *)
(***************************************************************************)
EXTENDS EmailChange, Throttle, CommunityMod, FiniteSetTheorems, TLAPS

-----------------------------------------------------------------------------
(***************************************************************************)
(* The address.  For any accounts, links and failures, and whether or not  *)
(* the account store refuses an address twice.                             *)
(***************************************************************************)

\* A row was recorded for a registered account, and only a claimed one is
\* followed.
LinksAreKnown ==
    /\ \A a \in Accounts : asking[a] # NoAddress => address[a] # NoAddress
    /\ \A l \in Links :
          /\ link[l].state # "none" =>
                link[l].of \in Accounts /\ link[l].to \in Addresses /\ address[link[l].of] # NoAddress
          /\ follow[l] # "nothing" => link[l].state = "used"

\* A link from an address that was given up is one that a change under way is
\* still to drop, or that it failed to.
OldLinksAreDropped ==
    \A l \in Links :
        link[l].state = "live" =>
            \/ link[l].from = address[link[l].of]
            \/ link[l].of \in undropped
            \/ \E k \in Links : follow[k] = "drop" /\ link[k].of = link[l].of

EmailInv == EmailTypeOK /\ LinksAreKnown /\ OldLinksAreDropped

\* A change of the settings page's own: nothing is written but what is asked.
LEMMA RequestStep ==
    ASSUME EmailInv, NEW a \in Accounts,
           RequestFails(a) \/ \E x \in Addresses : RequestChecks(a, x)
    PROVE  EmailInv'
BY DEF EmailInv, EmailTypeOK, LinksAreKnown, OldLinksAreDropped, RequestFails, RequestChecks

LEMMA JoinStep ==
    ASSUME EmailInv, NEW a \in Accounts, NEW x \in Addresses, JoinWith(a, x) PROVE EmailInv'
<1>1. address[a] = NoAddress /\ x # NoAddress
  BY EmailAssumption DEF JoinWith
<1>2. EmailTypeOK'
  BY DEF JoinWith, EmailInv, EmailTypeOK
<1>3. LinksAreKnown'
  BY <1>1 DEF JoinWith, EmailInv, EmailTypeOK, LinksAreKnown
<1>4. \A l \in Links : link[l].state = "live" => link[l].of # a /\ link[l].of \in Accounts
  BY <1>1 DEF EmailInv, LinksAreKnown
<1>5. OldLinksAreDropped'
  BY <1>4 DEF JoinWith, EmailInv, EmailTypeOK, OldLinksAreDropped
<1> QED
  BY <1>2, <1>3, <1>5 DEF EmailInv

LEMMA StartStep ==
    ASSUME EmailInv, NEW a \in Accounts, NEW l \in Links, StartEmailChange(a, l) PROVE EmailInv'
<1> DEFINE row == [state |-> "live", of |-> a, to |-> asking[a], from |-> address[a]]
<1>1. asking[a] \in Addresses /\ asking[a] # NoAddress /\ address[a] \in Addresses
  BY DEF StartEmailChange, EmailInv, EmailTypeOK, LinksAreKnown
<1>2. row \in Link /\ row.state = "live" /\ row.of = a /\ row.to \in Addresses /\ row.from = address[a]
  BY <1>1 DEF Link
<1>3. link' = [link EXCEPT ![l] = row]
  BY DEF StartEmailChange
<1>4. follow[l] = "nothing"
  BY DEF StartEmailChange, EmailInv, LinksAreKnown
<1> HIDE DEF row
<1>5. EmailTypeOK'
  BY <1>2, <1>3 DEF StartEmailChange, EmailInv, EmailTypeOK
<1>6. LinksAreKnown'
  BY <1>1, <1>2, <1>3, <1>4, EmailAssumption DEF StartEmailChange, EmailInv, EmailTypeOK, LinksAreKnown
<1>7. OldLinksAreDropped'
  BY <1>2, <1>3, <1>4 DEF StartEmailChange, EmailInv, EmailTypeOK, OldLinksAreDropped
<1> QED
  BY <1>5, <1>6, <1>7 DEF EmailInv

\* A link that ends, by the clock or by being claimed, keeps what it was for.
LEMMA LinkEnds ==
    ASSUME EmailInv, NEW l \in Links, LinkExpires(l) \/ ClaimEmailChange(l) PROVE EmailInv'
<1>1. PICK s \in {"expired", "used"} : link' = [link EXCEPT ![l] = [link[l] EXCEPT !.state = s]]
  BY DEF LinkExpires, ClaimEmailChange
<1>2. link[l] \in Link /\ link[l].state = "live"
  BY DEF LinkExpires, ClaimEmailChange, EmailInv, EmailTypeOK
<1>3. [link[l] EXCEPT !.state = s] \in Link
  BY <1>2 DEF Link
<1>4. /\ link'[l].state = s /\ link'[l].of = link[l].of /\ link'[l].to = link[l].to
      /\ link'[l].from = link[l].from
  BY <1>1, <1>2 DEF Link, EmailInv, EmailTypeOK
<1>5. \A m \in Links \ {l} : link'[m] = link[m]
  BY <1>1 DEF EmailInv, EmailTypeOK
<1>6. /\ UNCHANGED <<address, asking, undropped>> /\ follow' \in [Links -> {"nothing", "apply", "drop"}]
      /\ follow'[l] # "nothing" => s = "used"
      /\ \A m \in Links \ {l} : follow'[m] = follow[m]
      /\ follow[l] = "nothing"
  <2>1. follow[l] = "nothing"
    BY <1>2 DEF EmailInv, LinksAreKnown
  <2>2. CASE LinkExpires(l)
    BY <2>1, <2>2 DEF LinkExpires, EmailInv, EmailTypeOK
  <2>3. CASE ClaimEmailChange(l)
    <3>1. s = "used"
      BY <1>4, <2>3 DEF ClaimEmailChange, EmailInv, EmailTypeOK, Link
    <3> QED
      BY <2>1, <2>3, <3>1 DEF ClaimEmailChange, EmailInv, EmailTypeOK
  <2> QED
    BY <2>2, <2>3
<1>7. EmailTypeOK'
  BY <1>1, <1>3, <1>6 DEF EmailInv, EmailTypeOK
<1>8. LinksAreKnown'
  BY <1>2, <1>4, <1>5, <1>6 DEF EmailInv, LinksAreKnown
<1>9. OldLinksAreDropped'
  BY <1>4, <1>5, <1>6 DEF EmailInv, OldLinksAreDropped
<1> QED
  BY <1>7, <1>8, <1>9 DEF EmailInv

\* The change itself leaves every link of the account to be dropped.
LEMMA ApplyStep ==
    ASSUME EmailInv, NEW l \in Links, ApplyEmailChange(l) PROVE EmailInv'
<1>1. link[l].of \in Accounts /\ link[l].to \in Addresses /\ link[l].state = "used"
  BY DEF ApplyEmailChange, EmailInv, LinksAreKnown
<1>2. /\ follow'[l] = "drop" /\ \A m \in Links \ {l} : follow'[m] = follow[m]
      /\ address'[link[l].of] = link[l].to
      /\ \A a \in Accounts \ {link[l].of} : address'[a] = address[a]
  BY <1>1 DEF ApplyEmailChange, EmailInv, EmailTypeOK
<1>3. EmailTypeOK'
  BY <1>1 DEF ApplyEmailChange, EmailInv, EmailTypeOK
<1>4. LinksAreKnown'
  BY <1>1, <1>2, EmailAssumption DEF ApplyEmailChange, EmailInv, LinksAreKnown
<1>5. OldLinksAreDropped'
  <2> SUFFICES ASSUME NEW m \in Links, link'[m].state = "live"
               PROVE  \/ link'[m].from = address'[link'[m].of]
                      \/ link'[m].of \in undropped'
                      \/ \E k \in Links : follow'[k] = "drop" /\ link'[k].of = link'[m].of
    BY DEF OldLinksAreDropped
  <2>1. link' = link /\ undropped' = undropped
    BY DEF ApplyEmailChange
  <2>2. CASE link[m].of = link[l].of
    BY <1>2, <2>1, <2>2
  <2>3. CASE link[m].of # link[l].of
    <3>1. address'[link[m].of] = address[link[m].of]
      BY <1>2, <2>1, <2>3 DEF EmailInv, LinksAreKnown
    <3> QED
      BY <1>2, <2>1, <3>1 DEF EmailInv, OldLinksAreDropped
  <2> QED
    BY <2>2, <2>3
<1> QED
  BY <1>3, <1>4, <1>5 DEF EmailInv

\* Dropping leaves the account no live link; failing to is remembered.
LEMMA DropStep ==
    ASSUME EmailInv, NEW l \in Links, DropPendingEmailChanges(l) PROVE EmailInv'
<1>1. ASSUME NEW m \in Links
      PROVE  /\ link'[m] \in Link /\ link'[m].of = link[m].of /\ link'[m].to = link[m].to
             /\ link'[m].from = link[m].from
             /\ link'[m].state = IF m \in Dropped(l) THEN "used" ELSE link[m].state
  <2>1. link[m] \in Link
    BY DEF EmailInv, EmailTypeOK
  <2>2. link'[m] = IF m \in Dropped(l) THEN [link[m] EXCEPT !.state = "used"] ELSE link[m]
    BY DEF DropPendingEmailChanges
  <2> QED
    BY <2>1, <2>2 DEF Link
<1>2. EmailTypeOK'
  BY <1>1 DEF DropPendingEmailChanges, EmailInv, EmailTypeOK
<1>3. LinksAreKnown'
  BY <1>1 DEF DropPendingEmailChanges, EmailInv, EmailTypeOK, LinksAreKnown, Dropped
<1>4. \A m \in Links : link'[m].state = "live" => link[m].state = "live" /\ link[m].of # link[l].of
  BY <1>1 DEF Dropped
<1>5. OldLinksAreDropped'
  BY <1>1, <1>4 DEF DropPendingEmailChanges, EmailInv, EmailTypeOK, OldLinksAreDropped
<1> QED
  BY <1>2, <1>3, <1>5 DEF EmailInv

LEMMA GivenUpStep ==
    ASSUME EmailInv, NEW l \in Links, ApplyFails(l) \/ DropFails(l) PROVE EmailInv'
<1>1. link[l].of \in Accounts
  BY DEF ApplyFails, DropFails, EmailInv, LinksAreKnown
<1>2. EmailTypeOK'
  BY <1>1 DEF ApplyFails, DropFails, EmailInv, EmailTypeOK
<1>3. LinksAreKnown'
  BY DEF ApplyFails, DropFails, EmailInv, EmailTypeOK, LinksAreKnown
<1>4. OldLinksAreDropped'
  BY DEF ApplyFails, DropFails, EmailInv, EmailTypeOK, OldLinksAreDropped
<1> QED
  BY <1>2, <1>3, <1>4 DEF EmailInv

LEMMA EmailStep == EmailInv /\ [EmailNext]_emailVars => EmailInv'
<1> SUFFICES ASSUME EmailInv, [EmailNext]_emailVars PROVE EmailInv'
  OBVIOUS
<1>1. CASE UNCHANGED emailVars
  BY <1>1 DEF emailVars, EmailInv, EmailTypeOK, LinksAreKnown, OldLinksAreDropped
<1> QED
  BY <1>1, RequestStep, JoinStep, StartStep, LinkEnds, ApplyStep, DropStep, GivenUpStep DEF EmailNext

LEMMA EmailStart == EmailInit => EmailInv
BY DEF EmailInit, EmailInv, EmailTypeOK, LinksAreKnown, OldLinksAreDropped, NoLink, Link

\* Every reachable state of the links is well typed.
THEOREM EmailTypeCorrect == EmailSpec => []EmailTypeOK
<1>1. EmailInv => EmailTypeOK
  BY DEF EmailInv
<1> QED
  BY <1>1, EmailStart, EmailStep, PTL DEF EmailSpec

\* Once an account's changes have settled and its links could be dropped, no link
\* asked for under an address it gave up can be followed, however many requests,
\* links and failures cross.
THEOREM OldLinksAreDead == EmailSpec => []NoLinkFromOldAddress
<1>1. EmailInv => NoLinkFromOldAddress
  BY DEF EmailInv, OldLinksAreDropped, LinksAreKnown, NoLinkFromOldAddress, Settled
<1> QED
  BY <1>1, EmailStart, EmailStep, PTL DEF EmailSpec

-----------------------------------------------------------------------------
(***************************************************************************)
(* The queue of reported pictures.  For any members, curators and items,   *)
(* with statements of any number of requests between each other.           *)
(***************************************************************************)
Item == [of : Subjects, ref : Nat, votes : [Voters -> {"none", "remove", "keep"}],
         filed : BOOLEAN, resolution : {"open", "removed", "kept"}, by : Voters \cup {Community}]
Ballot == [at : {"idle", "file", "find", "report", "cast", "decide", "resolve", "apply", "close"},
           id : Nat, of : Subjects \cup {Community}, ref : Nat, vote : {"", "remove", "keep"},
           res : {"", "removed", "kept"}, by : Voters \cup {Community}]

ModShape ==
    /\ items \in Seq(Item) /\ ballot \in [Voters -> Ballot]
    /\ picture \in [Subjects -> Nat] /\ pictures \in [Subjects -> Nat]
    /\ \A s \in Subjects : picture[s] <= pictures[s]
    /\ cleared \subseteq DOMAIN items /\ modMishaps \in 0 .. MaxModMishaps

\* What a request has in hand where it has got to: b its place, ids the items
\* there are, done those whose removal was carried out.
BallotFits(b, ids, done) ==
    /\ b.at \in {"file", "find"} => b.of \in Subjects
    /\ b.at \in {"report", "cast", "decide", "resolve", "apply", "close"} => b.id \in ids
    /\ b.at = "cast" => b.vote \in {"remove", "keep"}
    /\ b.at \in {"resolve", "apply", "close"} => b.res \in {"removed", "kept"}
    /\ b.at \in {"cast", "decide"} => b.by = Community
    /\ b.at = "close" /\ b.res = "removed" => b.id \in done

BallotShape == \A v \in Voters : BallotFits(ballot[v], DOMAIN items, cleared)

\* The votes of an item grow, one voter at a time.
Voted(id) == {v \in Voters : items[id].votes[v] # "none"}
HasQuorum(id) == Cardinality(Voted(id)) >= VoteQuorum
VotesAreFinite == \A id \in DOMAIN items : IsFiniteSet(Voted(id))

\* Who closes an item for the community has seen a quorum.
Closing(b) == b.at \in {"resolve", "apply", "close"}
QuorumIsKept ==
    \A v \in Voters :
        Closing(ballot[v]) /\ ballot[v].by = Community => HasQuorum(ballot[v].id)

ClosedIsTrue ==
    \A id \in DOMAIN items :
        /\ items[id].resolution = "removed" => id \in cleared
        /\ items[id].resolution # "open" /\ items[id].by = Community => HasQuorum(id)

\* An item that is open with a decisive tally, and was not merely reported since,
\* is in the hands of a request that goes on to close it.
InHand(b) == b.at = "decide" \/ Closing(b)
DecisiveIsInHand ==
    modMishaps = 0 =>
        \A id \in DOMAIN items : Decisive(id) /\ ~items[id].filed =>
            \E v \in Voters : InHand(ballot[v]) /\ ballot[v].id = id

ModInv ==
    /\ ModShape /\ BallotShape /\ VotesAreFinite
    /\ QuorumIsKept /\ ClosedIsTrue /\ DecisiveIsInHand

\* A step of one request that writes no item.
LEMMA RestStep ==
    ASSUME ModInv, NEW v \in Voters, NEW b \in Ballot, items' = items, Goes(v, b),
           picture' \in [Subjects -> Nat], \A s \in Subjects : picture'[s] \in {picture[s], 0},
           pictures' = pictures, cleared \subseteq cleared', cleared' \subseteq DOMAIN items,
           modMishaps' = modMishaps \/ modMishaps' \in 1 .. MaxModMishaps,
           BallotFits(b, DOMAIN items, cleared'),
           Closing(b) /\ b.by = Community => HasQuorum(b.id),
           \/ modMishaps' # 0
           \/ ~InHand(ballot[v])
           \/ InHand(b) /\ b.id = ballot[v].id
           \/ ~Decisive(ballot[v].id)
    PROVE  ModInv'
<1>1. ballot' \in [Voters -> Ballot] /\ ballot'[v] = b /\ \A w \in Voters \ {v} : ballot'[w] = ballot[w]
  BY DEF Goes, ModInv, ModShape
<1>2. ModShape'
  <2>1. modMishaps' \in 0 .. MaxModMishaps
    BY ModAssumption DEF ModInv, ModShape
  <2>2. \A s \in Subjects : picture'[s] <= pictures'[s]
    BY DEF ModInv, ModShape
  <2> QED
    BY <1>1, <2>1, <2>2 DEF ModInv, ModShape
<1>3. BallotShape'
  BY <1>1 DEF ModInv, BallotShape, BallotFits
<1>4. VotesAreFinite' /\ ClosedIsTrue'
  BY DEF ModInv, VotesAreFinite, ClosedIsTrue, HasQuorum, Voted
<1>5. QuorumIsKept'
  BY <1>1 DEF ModInv, QuorumIsKept, HasQuorum, Voted, Closing
<1>6. DecisiveIsInHand'
  <2> SUFFICES ASSUME modMishaps' = 0, NEW id \in DOMAIN items, Decisive(id), ~items[id].filed
               PROVE  \E w \in Voters : InHand(ballot'[w]) /\ ballot'[w].id = id
    <3>1. \A id \in DOMAIN items : Decisive(id)' <=> Decisive(id)
      BY DEF Decisive, Tally, Count
    <3> QED
      BY <3>1 DEF DecisiveIsInHand, InHand, Closing
  <2>1. modMishaps = 0
    BY DEF ModInv, ModShape
  <2>2. PICK w \in Voters : InHand(ballot[w]) /\ ballot[w].id = id
    BY <2>1 DEF ModInv, DecisiveIsInHand
  <2> QED
    BY <1>1, <2>2
<1> QED
  BY <1>2, <1>3, <1>4, <1>5, <1>6 DEF ModInv

\* A step of one request that writes an item, and closes none: the requests
\* after it.
LEMMA WriteStep ==
    ASSUME ModInv, NEW v \in Voters, NEW b \in Ballot, items' \in Seq(Item), Goes(v, b),
           UNCHANGED <<picture, pictures, cleared, modMishaps>>,
           DOMAIN items \subseteq DOMAIN items', BallotFits(b, DOMAIN items', cleared), ~Closing(b),
           \A id \in DOMAIN items : HasQuorum(id) => HasQuorum(id)'
    PROVE  /\ ModShape' /\ BallotShape' /\ QuorumIsKept'
           /\ ballot'[v] = b /\ \A w \in Voters \ {v} : ballot'[w] = ballot[w]
<1>1. ballot' \in [Voters -> Ballot] /\ ballot'[v] = b /\ \A w \in Voters \ {v} : ballot'[w] = ballot[w]
  BY DEF Goes, ModInv, ModShape
<1>2. ModShape'
  BY <1>1 DEF ModInv, ModShape
<1>3. BallotShape'
  BY <1>1 DEF ModInv, BallotShape, BallotFits
<1>4. QuorumIsKept'
  <2>1. ASSUME NEW w \in Voters, NEW id, id = ballot[w].id, ballot'[w] = ballot[w],
               Closing(ballot[w]), ballot[w].by = Community
        PROVE  HasQuorum(id)'
    BY <2>1 DEF ModInv, BallotShape, BallotFits, QuorumIsKept, Closing
  <2> QED
    BY <1>1, <2>1 DEF QuorumIsKept, Closing, HasQuorum, Voted
<1> QED
  BY <1>1, <1>2, <1>3, <1>4

\* A vote is added to what was voted.
LEMMA CastAdds ==
    ASSUME ModInv, NEW id \in DOMAIN items, NEW v \in Voters, NEW vote \in {"remove", "keep"},
           NEW filed \in BOOLEAN, CastVote(id, v, vote, filed)
    PROVE  /\ items' \in Seq(Item) /\ DOMAIN items' = DOMAIN items
           /\ \A i \in DOMAIN items \ {id} : items'[i] = items[i]
           /\ items'[id].resolution = items[id].resolution /\ items'[id].by = items[id].by
           /\ items'[id].filed = filed
           /\ VotesAreFinite' /\ \A i \in DOMAIN items : HasQuorum(i) => HasQuorum(i)'
<1>1. items \in Seq(Item) /\ items[id] \in Item
  BY DEF ModInv, ModShape
<1> DEFINE row == [items[id] EXCEPT !.votes = [items[id].votes EXCEPT ![v] = vote], !.filed = filed]
<1>2. row \in Item /\ row.resolution = items[id].resolution /\ row.by = items[id].by
      /\ row.filed = filed /\ row.votes = [items[id].votes EXCEPT ![v] = vote]
  BY <1>1 DEF Item
<1>3. items' = [items EXCEPT ![id] = row]
  BY <1>1 DEF CastVote, Item
<1> HIDE DEF row
<1>4. /\ items' \in Seq(Item) /\ DOMAIN items' = DOMAIN items /\ items'[id] = row
      /\ \A i \in DOMAIN items \ {id} : items'[i] = items[i]
  BY <1>1, <1>2, <1>3
<1>5. Voted(id)' = Voted(id) \cup {v}
  BY <1>1, <1>2, <1>4 DEF Voted, Item
<1>6. \A i \in DOMAIN items \ {id} : Voted(i)' = Voted(i)
  BY <1>4 DEF Voted
<1>7. IsFiniteSet(Voted(id)) /\ IsFiniteSet(Voted(id)')
  BY <1>5, FS_AddElement DEF ModInv, VotesAreFinite
<1>8. Cardinality(Voted(id)) <= Cardinality(Voted(id)')
  BY <1>5, <1>7, FS_Subset
<1>9. Cardinality(Voted(id)) \in Nat /\ Cardinality(Voted(id)') \in Nat
  BY <1>7, FS_CardinalityType
<1>10. HasQuorum(id) => HasQuorum(id)'
  BY <1>8, <1>9 DEF HasQuorum, VoteQuorum
<1>11. \A i \in DOMAIN items \ {id} : HasQuorum(i) => HasQuorum(i)'
  BY <1>6 DEF HasQuorum
<1>12. VotesAreFinite'
  BY <1>4, <1>6, <1>7 DEF VotesAreFinite, ModInv
<1> QED
  BY <1>2, <1>4, <1>10, <1>11, <1>12

\* The decisive items stay in the hands they were in, where the requests that
\* hold them rest; the item n that is written is not decisive, merely reported,
\* or in hand.
LEMMA InHandStays ==
    ASSUME ModInv, NEW n, DOMAIN items' \subseteq DOMAIN items \cup {n}, modMishaps' = modMishaps,
           \A i \in DOMAIN items \ {n} : (Decisive(i)' => Decisive(i)) /\ items'[i].filed = items[i].filed,
           \/ ~Decisive(n)'
           \/ items'[n].filed
           \/ \E w \in Voters : InHand(ballot'[w]) /\ ballot'[w].id = n,
           \A w \in Voters : InHand(ballot[w]) =>
               ballot[w].id = n \/ (InHand(ballot'[w]) /\ ballot'[w].id = ballot[w].id)
    PROVE  DecisiveIsInHand'
<1> SUFFICES ASSUME modMishaps = 0, NEW i \in DOMAIN items', Decisive(i)', ~items'[i].filed, i # n
             PROVE  \E w \in Voters : InHand(ballot'[w]) /\ ballot'[w].id = i
  BY DEF DecisiveIsInHand, InHand, Closing
<1>1. i \in DOMAIN items /\ Decisive(i) /\ ~items[i].filed
  OBVIOUS
<1>2. PICK w \in Voters : InHand(ballot[w]) /\ ballot[w].id = i
  BY <1>1 DEF ModInv, DecisiveIsInHand
<1> QED
  BY <1>1, <1>2

\* A report opens an item, finds the one that is open, or adds its vote to it.
LEMMA ReportStep ==
    ASSUME ModInv, NEW v \in Voters,
           \/ \E s \in Subjects : ReportReads(v, s)
           \/ ReportFiles(v) \/ ReportFinds(v) \/ ReportVotes(v)
    PROVE  ModInv'
<1> DEFINE b == ballot[v]
<1>0. b \in Ballot /\ BallotFits(b, DOMAIN items, cleared) /\ items \in Seq(Item)
  BY DEF ModInv, ModShape, BallotShape
<1>1. NoBallot \in Ballot /\ BallotFits(NoBallot, DOMAIN items', cleared) /\ NoBallot.at = "idle"
  BY DEF NoBallot, Ballot, BallotFits
<1>2. ASSUME NEW s \in Subjects, ReportReads(v, s) PROVE ModInv'
  <2> DEFINE next == [NoBallot EXCEPT !.at = "file", !.of = s, !.ref = picture[s]]
  <2>1. next \in Ballot /\ next.at = "file" /\ BallotFits(next, DOMAIN items, cleared')
    BY DEF NoBallot, Ballot, BallotFits, ModInv, ModShape
  <2>2. ~InHand(b) /\ ~Closing(next)
    BY <1>2, <2>1 DEF ReportReads, InHand, Closing
  <2> HIDE DEF next
  <2>3. Goes(v, next)
    BY <1>2 DEF ReportReads, next
  <2> QED
    BY <1>2, <2>1, <2>2, <2>3, RestStep DEF ReportReads, ModInv, ModShape
<1>3. CASE ReportFiles(v)
  <2>1. b.at = "file" /\ b.of \in Subjects
    BY <1>0, <1>3 DEF ReportFiles, BallotFits
  <2>2. CASE OpenItems(b.of) # {}
    <3> DEFINE next == [b EXCEPT !.at = "find"]
    <3>1. next \in Ballot /\ next.at = "find" /\ BallotFits(next, DOMAIN items, cleared')
      BY <1>0, <2>1 DEF Ballot, BallotFits
    <3>2. ~InHand(b) /\ ~Closing(next)
      BY <2>1, <3>1 DEF InHand, Closing
    <3> HIDE DEF next
    <3>3. Goes(v, next) /\ items' = items
      BY <1>3, <2>2 DEF ReportFiles, next
    <3> QED
      BY <1>3, <3>1, <3>2, <3>3, RestStep DEF ReportFiles, ModInv, ModShape
  <2>3. CASE OpenItems(b.of) = {}
    <3> DEFINE row == [of |-> b.of, ref |-> b.ref, votes |-> [w \in Voters |-> "none"],
                       filed |-> FALSE, resolution |-> "open", by |-> Community]
    <3>0. PICK n \in Nat : n = Len(items) + 1
      BY <1>0
    <3> DEFINE next == [b EXCEPT !.at = "report", !.id = n]
    <3>1. row \in Item /\ row.resolution = "open" /\ \A w \in Voters : row.votes[w] = "none"
      BY <1>0, <2>1 DEF Item, Ballot
    <3>2. items' = Append(items, row) /\ Goes(v, next)
      BY <1>3, <2>3, <3>0 DEF ReportFiles
    <3> HIDE DEF row
    <3>3. /\ items' \in Seq(Item) /\ DOMAIN items' = DOMAIN items \cup {n}
          /\ n \notin DOMAIN items
          /\ items'[n] = row /\ \A i \in DOMAIN items : items'[i] = items[i]
      BY <1>0, <3>0, <3>1, <3>2
    <3>4. next \in Ballot /\ next.at = "report" /\ next.id = n
      BY <1>0 DEF Ballot
    <3>5. BallotFits(next, DOMAIN items', cleared) /\ ~Closing(next)
      BY <3>4, <3>3 DEF BallotFits, Closing
    <3> HIDE DEF next
    <3>6. \A i \in DOMAIN items : Voted(i)' = Voted(i) /\ (HasQuorum(i) => HasQuorum(i)')
      BY <3>3 DEF Voted, HasQuorum
    <3>7. /\ ModShape' /\ BallotShape' /\ QuorumIsKept'
          /\ ballot'[v] = next /\ \A w \in Voters \ {v} : ballot'[w] = ballot[w]
      BY <1>3, <3>2, <3>4, <3>3, <3>5, <3>6, WriteStep DEF ReportFiles
    <3>8. VotesAreFinite'
      <4>1. Voted(n)' = {}
        BY <3>1, <3>3 DEF Voted
      <4> QED
        BY <3>3, <3>6, <4>1, FS_EmptySet DEF ModInv, VotesAreFinite
    <3>9. ClosedIsTrue'
      BY <1>3, <3>1, <3>3, <3>6 DEF ReportFiles, ModInv, ClosedIsTrue
    <3>10. DecisiveIsInHand'
      <4>1. Tally(n)' = ""
        <5>1. \A w \in Voters : items'[n].votes[w] = "none"
          BY <3>1, <3>3
        <5>2. {w \in Voters : items'[n].votes[w] = "remove"} = {}
          BY <5>1
        <5>3. {w \in Voters : items'[n].votes[w] = "keep"} = {}
          BY <5>1
        <5>4. Count(n, "remove")' = 0 /\ Count(n, "keep")' = 0
          BY <5>2, <5>3, FS_EmptySet DEF Count
        <5> QED
          BY <5>4 DEF Tally, VoteOutcome, VoteQuorum
      <4>2. \A i \in DOMAIN items : (Decisive(i)' <=> Decisive(i)) /\ items'[i].filed = items[i].filed
        BY <3>3 DEF Decisive, Tally, Count
      <4>3. \A w \in Voters : InHand(ballot[w]) => ballot'[w] = ballot[w]
        BY <2>1, <3>7 DEF InHand, Closing
      <4> QED
        <5>1. ~Decisive(n)'
          BY <4>1 DEF Decisive
        <5>2. modMishaps' = modMishaps /\ DOMAIN items' \subseteq DOMAIN items \cup {n}
          BY <1>3, <3>3 DEF ReportFiles
        <5> QED
          BY <4>2, <4>3, <5>1, <5>2, InHandStays
    <3> QED
      BY <3>7, <3>8, <3>9, <3>10 DEF ModInv
  <2> QED
    BY <2>2, <2>3
<1>4. CASE ReportFinds(v)
  <2>1. ~InHand(b)
    BY <1>4 DEF ReportFinds, InHand, Closing
  <2>2. ASSUME NEW id \in DOMAIN items, Goes(v, [b EXCEPT !.at = "report", !.id = id]) PROVE ModInv'
    <3> DEFINE next == [b EXCEPT !.at = "report", !.id = id]
    <3>0. id \in Nat
      BY <1>0
    <3>1. next \in Ballot /\ next.at = "report" /\ next.id = id
      BY <1>0, <3>0 DEF Ballot
    <3> HIDE DEF next
    <3>2. Goes(v, next)
      BY <2>2 DEF next
    <3> QED
      BY <1>4, <2>1, <3>1, <3>2, RestStep DEF ReportFinds, BallotFits, Closing, ModInv, ModShape
  <2>3. CASE Done(v)
    BY <1>1, <1>4, <2>1, <2>3, RestStep DEF ReportFinds, Done, Closing, ModInv, ModShape
  <2> QED
    BY <1>4, <2>2, <2>3 DEF ReportFinds, OpenItems
<1>5. CASE ReportVotes(v)
  <2>1. b.id \in DOMAIN items /\ ~InHand(b)
    BY <1>0, <1>5 DEF ReportVotes, BallotFits, InHand, Closing
  <2>2. CastVote(b.id, v, "remove", TRUE)
    BY <1>5 DEF ReportVotes
  <2>3. /\ items' \in Seq(Item) /\ DOMAIN items' = DOMAIN items
        /\ \A i \in DOMAIN items \ {b.id} : items'[i] = items[i]
        /\ items'[b.id].resolution = items[b.id].resolution /\ items'[b.id].by = items[b.id].by
        /\ items'[b.id].filed = TRUE
        /\ VotesAreFinite' /\ \A i \in DOMAIN items : HasQuorum(i) => HasQuorum(i)'
    BY <2>1, <2>2, CastAdds
  <2>4. /\ ModShape' /\ BallotShape' /\ QuorumIsKept'
        /\ ballot'[v] = NoBallot /\ \A w \in Voters \ {v} : ballot'[w] = ballot[w]
    BY <1>1, <1>5, <2>3, WriteStep DEF ReportVotes, Done, Closing
  <2>5. ClosedIsTrue'
    BY <1>5, <2>3 DEF ReportVotes, ModInv, ClosedIsTrue
  <2>6. DecisiveIsInHand'
    <3>1. \A i \in DOMAIN items \ {b.id} : (Decisive(i)' <=> Decisive(i)) /\ items'[i].filed = items[i].filed
      BY <2>3 DEF Decisive, Tally, Count
    <3>2. \A w \in Voters : InHand(ballot[w]) => ballot'[w] = ballot[w]
      BY <2>1, <2>4
    <3> QED
      BY <1>5, <2>3, <3>1, <3>2, InHandStays DEF ReportVotes
  <2> QED
    BY <2>3, <2>4, <2>5, <2>6 DEF ModInv
<1> QED
  BY <1>2, <1>3, <1>4, <1>5

\* A tally that decides has its quorum, and decides one of two ways.
LEMMA CountsAddUp ==
    ASSUME ModInv, NEW id \in DOMAIN items
    PROVE  /\ Count(id, "remove") \in Nat /\ Count(id, "keep") \in Nat
           /\ Count(id, "remove") + Count(id, "keep") = Cardinality(Voted(id))
<1> DEFINE R == {v \in Voters : items[id].votes[v] = "remove"}
           K == {v \in Voters : items[id].votes[v] = "keep"}
<1>0. items[id] \in Item
  BY DEF ModInv, ModShape
<1>1. \A v \in Voters : items[id].votes[v] \in {"none", "remove", "keep"}
  BY <1>0 DEF Item
<1>2. Voted(id) = R \cup K /\ R \cap K = {} /\ R \subseteq Voted(id) /\ K \subseteq Voted(id)
  BY <1>1 DEF Voted
<1>3. IsFiniteSet(R) /\ IsFiniteSet(K)
  BY <1>2, FS_Subset DEF ModInv, VotesAreFinite
<1>4. Count(id, "remove") = Cardinality(R) /\ Count(id, "keep") = Cardinality(K)
  BY DEF Count
<1>5. Cardinality(R) \in Nat /\ Cardinality(K) \in Nat
  BY <1>3, FS_CardinalityType
<1> HIDE DEF R, K
<1>6. Cardinality(R \cup K) = Cardinality(R) + Cardinality(K) - Cardinality(R \cap K)
  BY <1>3, FS_Union
<1>7. Cardinality(R \cap K) = 0
  BY <1>2, FS_EmptySet
<1> QED
  BY <1>2, <1>4, <1>5, <1>6, <1>7

LEMMA DecisiveHasQuorum ==
    ASSUME ModInv, NEW id \in DOMAIN items
    PROVE  /\ Tally(id) \in {"", "removed", "kept"}
           /\ Tally(id) # "" => HasQuorum(id)
BY CountsAddUp DEF Tally, VoteOutcome, HasQuorum, VoteQuorum

\* A vote is cast, and whoever cast it goes on to tally; staff decide outright.
LEMMA VoteStep ==
    ASSUME ModInv, NEW v \in Voters,
           \/ \E id \in DOMAIN items :
                 \/ \E vote \in {"remove", "keep"} : VoteReads(v, id, vote)
                 \/ \E res \in {"removed", "kept"} : StaffResolves(v, id, res)
           \/ VoteCasts(v) \/ Decide(v)
    PROVE  ModInv'
<1> DEFINE b == ballot[v]
<1>0. b \in Ballot /\ BallotFits(b, DOMAIN items, cleared) /\ items \in Seq(Item) /\ NoBallot \in Ballot
  BY DEF ModInv, ModShape, BallotShape, NoBallot, Ballot
<1>1. ASSUME NEW id \in DOMAIN items, NEW vote \in {"remove", "keep"}, VoteReads(v, id, vote)
      PROVE  ModInv'
  <2> DEFINE next == [NoBallot EXCEPT !.at = "cast", !.id = id, !.vote = vote]
  <2>1. id \in Nat
    BY <1>0
  <2>2. next \in Ballot /\ next.at = "cast" /\ next.id = id /\ next.vote = vote /\ next.by = Community
    BY <2>1 DEF NoBallot, Ballot
  <2> HIDE DEF next
  <2>3. Goes(v, next) /\ ~InHand(b)
    BY <1>1 DEF VoteReads, InHand, Closing, next
  <2> QED
    BY <1>1, <2>2, <2>3, RestStep DEF VoteReads, BallotFits, Closing, ModInv, ModShape
<1>2. ASSUME NEW id \in DOMAIN items, NEW res \in {"removed", "kept"}, StaffResolves(v, id, res)
      PROVE  ModInv'
  <2> DEFINE next == [NoBallot EXCEPT !.at = "resolve", !.id = id, !.res = res, !.by = v]
  <2>1. id \in Nat /\ v # Community
    BY <1>0, ModAssumption
  <2>2. next \in Ballot /\ next.at = "resolve" /\ next.id = id /\ next.res = res /\ next.by = v
    BY <2>1 DEF NoBallot, Ballot
  <2> HIDE DEF next
  <2>3. Goes(v, next) /\ ~InHand(b)
    BY <1>2 DEF StaffResolves, InHand, Closing, next
  <2> QED
    BY <1>2, <2>1, <2>2, <2>3, RestStep DEF StaffResolves, BallotFits, Closing, ModInv, ModShape
<1>3. CASE VoteCasts(v)
  <2>1. PICK id \in DOMAIN items : id = b.id
    BY <1>0, <1>3 DEF VoteCasts, BallotFits
  <2>2. b.vote \in {"remove", "keep"} /\ b.by = Community /\ CastVote(id, v, b.vote, FALSE)
    BY <1>0, <1>3, <2>1 DEF VoteCasts, BallotFits
  <2>3. /\ items' \in Seq(Item) /\ DOMAIN items' = DOMAIN items
        /\ \A i \in DOMAIN items \ {id} : items'[i] = items[i]
        /\ items'[id].resolution = items[id].resolution /\ items'[id].by = items[id].by
        /\ VotesAreFinite' /\ \A i \in DOMAIN items : HasQuorum(i) => HasQuorum(i)'
    BY <2>2, CastAdds
  <2> DEFINE next == [b EXCEPT !.at = "decide"]
  <2>4. next \in Ballot /\ next.at = "decide" /\ next.id = id /\ next.by = Community
    BY <1>0, <2>1, <2>2 DEF Ballot
  <2> HIDE DEF next
  <2>5. Goes(v, next) /\ BallotFits(next, DOMAIN items', cleared) /\ ~Closing(next) /\ InHand(next)
    BY <1>3, <2>1, <2>3, <2>4 DEF VoteCasts, BallotFits, Closing, InHand, next
  <2>6. /\ ModShape' /\ BallotShape' /\ QuorumIsKept'
        /\ ballot'[v] = next /\ \A w \in Voters \ {v} : ballot'[w] = ballot[w]
    BY <1>3, <2>3, <2>4, <2>5, WriteStep DEF VoteCasts
  <2>7. ClosedIsTrue'
    BY <1>3, <2>3 DEF VoteCasts, ModInv, ClosedIsTrue
  <2>8. DecisiveIsInHand'
    <3>1. \A i \in DOMAIN items \ {id} : (Decisive(i)' => Decisive(i)) /\ items'[i].filed = items[i].filed
      BY <2>3 DEF Decisive, Tally, Count
    <3>2. \A w \in Voters : InHand(ballot[w]) => ballot'[w] = ballot[w]
      BY <1>3, <2>6 DEF VoteCasts, InHand, Closing
    <3>3. \E w \in Voters : InHand(ballot'[w]) /\ ballot'[w].id = id
      BY <2>4, <2>5, <2>6
    <3> QED
      BY <1>3, <2>3, <3>1, <3>2, <3>3, InHandStays DEF VoteCasts
  <2> QED
    BY <2>3, <2>6, <2>7, <2>8 DEF ModInv
<1>4. CASE Decide(v)
  <2>1. PICK id \in DOMAIN items : id = b.id
    BY <1>0, <1>4 DEF Decide, BallotFits
  <2>2. b.at = "decide" /\ b.by = Community
    BY <1>0, <1>4 DEF Decide, BallotFits
  <2>3. CASE Tally(id) = ""
    <3>1. Goes(v, NoBallot) /\ ~Decisive(b.id)
      BY <1>4, <2>1, <2>3 DEF Decide, TallyFor, Done, Decisive
    <3>2. NoBallot.at = "idle"
      BY DEF NoBallot
    <3> QED
      BY <1>0, <1>4, <3>1, <3>2, RestStep DEF Decide, BallotFits, Closing, ModInv, ModShape
  <2>4. CASE Tally(id) # ""
    <3> DEFINE next == [b EXCEPT !.at = "resolve", !.res = Tally(id)]
    <3>1. Tally(id) \in {"removed", "kept"} /\ HasQuorum(id)
      BY <2>4, DecisiveHasQuorum
    <3>2. /\ next \in Ballot /\ next.at = "resolve" /\ next.id = id /\ next.res \in {"removed", "kept"}
          /\ next.by = Community
      BY <1>0, <2>1, <2>2, <3>1 DEF Ballot
    <3>3. Goes(v, next)
      BY <1>4, <2>1, <2>4 DEF Decide, TallyFor
    <3> HIDE DEF next
    <3> QED
      BY <1>4, <2>1, <3>1, <3>2, <3>3, RestStep DEF Decide, BallotFits, Closing, InHand, ModInv, ModShape
  <2> QED
    BY <2>3, <2>4
<1> QED
  BY <1>1, <1>2, <1>3, <1>4

\* A request that resolves carries a removal out before it closes the item, and
\* closes it once.
LEMMA ResolveStep ==
    ASSUME ModInv, NEW v \in Voters,
           ResolveReads(v) \/ ApplyResolution(v) \/ ResolveCloses(v) \/ ModerationFails(v)
    PROVE  ModInv'
<1> DEFINE b == ballot[v]
<1>0. b \in Ballot /\ BallotFits(b, DOMAIN items, cleared) /\ items \in Seq(Item)
  BY DEF ModInv, ModShape, BallotShape
<1>1. /\ NoBallot \in Ballot /\ \A ids, done : BallotFits(NoBallot, ids, done)
      /\ ~Closing(NoBallot) /\ ~InHand(NoBallot)
  BY DEF NoBallot, Ballot, BallotFits, Closing, InHand
<1>2. Closing(b) /\ b.by = Community => HasQuorum(b.id)
  BY DEF ModInv, QuorumIsKept
<1>3. CASE ResolveReads(v)
  <2>1. b.at = "resolve" /\ b.id \in DOMAIN items /\ b.res \in {"removed", "kept"}
    BY <1>0, <1>3 DEF ResolveReads, BallotFits
  <2>2. CASE items[b.id].resolution # "open"
    <3>1. Goes(v, NoBallot) /\ ~Decisive(b.id)
      BY <1>3, <2>2 DEF ResolveReads, Done, Decisive
    <3> QED
      BY <1>1, <1>3, <3>1, RestStep DEF ResolveReads, ModInv, ModShape
  <2>3. CASE items[b.id].resolution = "open"
    <3> DEFINE next == [b EXCEPT !.at = IF b.res = "removed" THEN "apply" ELSE "close"]
    <3>1. /\ next \in Ballot /\ next.at = IF b.res = "removed" THEN "apply" ELSE "close"
          /\ next.id = b.id /\ next.res = b.res /\ next.by = b.by
      BY <1>0, <2>1 DEF Ballot
    <3> HIDE DEF next
    <3>2. Goes(v, next)
      BY <1>3, <2>3 DEF ResolveReads, next
    <3>3. BallotFits(next, DOMAIN items, cleared) /\ InHand(next) /\ Closing(b)
      BY <2>1, <3>1 DEF BallotFits, InHand, Closing
    <3> QED
      BY <1>2, <1>3, <3>1, <3>2, <3>3, RestStep DEF ResolveReads, ModInv, ModShape
  <2> QED
    BY <2>2, <2>3
<1>4. CASE ApplyResolution(v)
  <2>1. b.at = "apply" /\ b.id \in DOMAIN items /\ b.res \in {"removed", "kept"}
    BY <1>0, <1>4 DEF ApplyResolution, BallotFits
  <2> DEFINE next == [b EXCEPT !.at = "close"]
  <2>2. next \in Ballot /\ next.at = "close" /\ next.id = b.id /\ next.res = b.res /\ next.by = b.by
    BY <1>0 DEF Ballot
  <2> HIDE DEF next
  <2>3. Goes(v, next) /\ cleared' = cleared \cup {b.id}
    BY <1>4 DEF ApplyResolution, next
  <2>4. BallotFits(next, DOMAIN items, cleared') /\ InHand(next) /\ Closing(b)
    BY <2>1, <2>2, <2>3 DEF BallotFits, InHand, Closing
  <2>5. picture' \in [Subjects -> Nat] /\ \A s \in Subjects : picture'[s] \in {picture[s], 0}
    BY <1>4 DEF ApplyResolution, ModInv, ModShape
  <2> QED
    BY <1>2, <1>4, <2>1, <2>2, <2>3, <2>4, <2>5, RestStep DEF ApplyResolution, ModInv, ModShape
<1>5. CASE ModerationFails(v)
  <2>1. modMishaps' \in 1 .. MaxModMishaps
    BY <1>5, ModAssumption DEF ModerationFails, ModInv, ModShape
  <2> QED
    BY <1>1, <1>5, <2>1, RestStep DEF ModerationFails, Done, ModInv, ModShape
<1>6. CASE ResolveCloses(v)
  <2>1. PICK id \in DOMAIN items : id = b.id
    BY <1>0, <1>6 DEF ResolveCloses, BallotFits
  <2>2. /\ b.at = "close" /\ Closing(b) /\ b.res \in {"removed", "kept"}
        /\ b.res = "removed" => id \in cleared
    BY <1>0, <1>6, <2>1 DEF ResolveCloses, BallotFits, Closing
  <2>3. CASE items[id].resolution # "open"
    <3>1. Goes(v, NoBallot) /\ items' = items /\ ~Decisive(b.id)
      BY <1>6, <2>1, <2>3 DEF ResolveCloses, Done, Decisive
    <3> QED
      BY <1>1, <1>6, <3>1, RestStep DEF ResolveCloses, ModInv, ModShape
  <2>4. CASE items[id].resolution = "open"
    <3> DEFINE row == [items[id] EXCEPT !.resolution = b.res, !.by = b.by]
    <3>1. items[id] \in Item
      BY <1>0
    <3>2. row \in Item /\ row.votes = items[id].votes /\ row.resolution = b.res /\ row.by = b.by
      BY <1>0, <2>2, <3>1 DEF Item, Ballot
    <3>3. items' = [items EXCEPT ![id] = row] /\ Goes(v, NoBallot)
      BY <1>0, <1>6, <2>1, <2>4, <3>1 DEF ResolveCloses, Done, Item
    <3> HIDE DEF row
    <3>4. /\ items' \in Seq(Item) /\ DOMAIN items' = DOMAIN items /\ items'[id] = row
          /\ \A i \in DOMAIN items \ {id} : items'[i] = items[i]
      BY <1>0, <3>2, <3>3
    <3>5. \A i \in DOMAIN items : Voted(i)' = Voted(i) /\ (HasQuorum(i) => HasQuorum(i)')
      BY <3>2, <3>4 DEF Voted, HasQuorum
    <3>6. /\ ModShape' /\ BallotShape' /\ QuorumIsKept'
          /\ ballot'[v] = NoBallot /\ \A w \in Voters \ {v} : ballot'[w] = ballot[w]
      BY <1>1, <1>6, <3>3, <3>4, <3>5, WriteStep DEF ResolveCloses
    <3>7. VotesAreFinite'
      BY <3>4, <3>5 DEF ModInv, VotesAreFinite
    <3>8. ClosedIsTrue'
      BY <1>2, <1>6, <2>1, <2>2, <3>2, <3>4, <3>5 DEF ResolveCloses, ModInv, ClosedIsTrue
    <3>9. DecisiveIsInHand'
      <4>1. \A i \in DOMAIN items \ {id} : (Decisive(i)' => Decisive(i)) /\ items'[i].filed = items[i].filed
        BY <3>4 DEF Decisive, Tally, Count
      <4>2. ~Decisive(id)'
        BY <2>2, <3>2, <3>4 DEF Decisive
      <4>3. \A w \in Voters : InHand(ballot[w]) => ballot[w].id = id \/ ballot'[w] = ballot[w]
        BY <2>1, <3>6
      <4> QED
        BY <1>6, <3>4, <4>1, <4>2, <4>3, InHandStays DEF ResolveCloses
    <3> QED
      BY <3>6, <3>7, <3>8, <3>9 DEF ModInv
  <2> QED
    BY <2>3, <2>4
<1> QED
  BY <1>3, <1>4, <1>5, <1>6

\* The member's own pictures are no business of the queue's.
LEMMA PictureStep ==
    ASSUME ModInv, NEW s \in Subjects, ShowsAnother(s) \/ TakesDown(s) \/ PutsBack(s) PROVE ModInv'
<1>1. ModShape'
  <2>1. ASSUME ShowsAnother(s) PROVE ModShape'
    BY <2>1 DEF ShowsAnother, ModInv, ModShape
  <2>2. ASSUME TakesDown(s) PROVE ModShape'
    BY <2>2 DEF TakesDown, ModInv, ModShape
  <2>3. ASSUME PutsBack(s) PROVE ModShape'
    <3>1. PICK n \in 1 .. pictures[s] : picture' = [picture EXCEPT ![s] = n]
      BY <2>3 DEF PutsBack
    <3>2. n \in Nat /\ n <= pictures[s]
      BY DEF ModInv, ModShape
    <3> QED
      BY <2>3, <3>1, <3>2 DEF PutsBack, ModInv, ModShape
  <2> QED
    BY <2>1, <2>2, <2>3
<1>2. UNCHANGED <<items, ballot, cleared, modMishaps>>
  BY DEF ShowsAnother, TakesDown, PutsBack
<1> QED
  BY <1>1, <1>2 DEF ModInv, BallotShape, VotesAreFinite, Voted, QuorumIsKept, HasQuorum, ClosedIsTrue,
     DecisiveIsInHand, Decisive, Tally, Count

LEMMA ModStep == ASSUME ModInv, [ModNext]_modVars PROVE ModInv'
<1>1. CASE UNCHANGED modVars
  BY <1>1 DEF modVars, ModInv, ModShape, BallotShape, VotesAreFinite, Voted, QuorumIsKept, HasQuorum,
     ClosedIsTrue, DecisiveIsInHand, Decisive, Tally, Count
<1> QED
  BY <1>1, PictureStep, ReportStep, VoteStep, ResolveStep DEF ModNext

LEMMA ModStart == ModInit => ModInv
<1> SUFFICES ASSUME ModInit PROVE ModInv
  OBVIOUS
<1>1. NoBallot \in Ballot /\ NoBallot.at = "idle"
  BY DEF NoBallot, Ballot
<1>2. items \in Seq(Item) /\ DOMAIN items = {}
  BY DEF ModInit
<1> QED
  BY <1>1, <1>2, ModAssumption DEF ModInit, ModInv, ModShape, BallotShape, BallotFits, VotesAreFinite,
     QuorumIsKept, Closing, ClosedIsTrue, DecisiveIsInHand

\* Every reachable state of the queue is well typed.
THEOREM ModTypeCorrect == ModSpec => []ModTypeOK
<1>1. ASSUME ModInv PROVE ModTypeOK
  <2>1. \A id \in DOMAIN items : items[id] \in Item
    BY <1>1 DEF ModInv, ModShape
  <2>2. \A s \in Subjects : picture[s] \in 0 .. pictures[s]
    BY <1>1 DEF ModInv, ModShape
  <2> QED
    BY <1>1, <2>1, <2>2 DEF ModInv, ModShape, ModTypeOK, Item
<1> QED
  BY <1>1, ModStart, ModStep, PTL DEF ModSpec

\* What is written to an item that is closed is votes.
LEMMA ClosedStays ==
    ASSUME ModInv, [ModNext]_modVars, NEW id \in DOMAIN items, items[id].resolution # "open"
    PROVE  items'[id].resolution = items[id].resolution /\ items'[id].by = items[id].by
<1>1. items \in Seq(Item) /\ items[id] \in Item
  BY DEF ModInv, ModShape
<1>2. CASE items' = items
  BY <1>2
<1>3. ASSUME NEW v \in Voters, ReportFiles(v) PROVE items'[id] = items[id]
  <2>1. CASE items' = items
    BY <2>1
  <2>2. ASSUME NEW row, items' = Append(items, row) PROVE items'[id] = items[id]
    BY <1>1, <2>2
  <2> QED
    BY <1>3, <2>1, <2>2 DEF ReportFiles
<1>4. ASSUME NEW v \in Voters, ReportVotes(v) \/ VoteCasts(v)
      PROVE  items'[id].resolution = items[id].resolution /\ items'[id].by = items[id].by
  <2>1. PICK i \in DOMAIN items, vote \in {"remove", "keep"}, filed \in BOOLEAN :
               CastVote(i, v, vote, filed)
    BY <1>4 DEF ReportVotes, VoteCasts, ModInv, BallotShape, BallotFits
  <2> QED
    BY <2>1, CastAdds
<1>5. ASSUME NEW v \in Voters, ResolveCloses(v)
      PROVE  items'[id].resolution = items[id].resolution /\ items'[id].by = items[id].by
  <2>1. ballot[v].id \in DOMAIN items
    BY <1>5 DEF ResolveCloses, ModInv, BallotShape, BallotFits
  <2>2. CASE items[ballot[v].id].resolution # "open"
    BY <1>5, <2>2 DEF ResolveCloses
  <2>3. CASE items[ballot[v].id].resolution = "open"
    <3>1. ballot[v].id # id
      BY <2>3
    <3> QED
      BY <1>1, <1>5, <2>1, <2>3, <3>1 DEF ResolveCloses
  <2> QED
    BY <2>2, <2>3
<1>6. ModNext => \/ items' = items
                 \/ \E v \in Voters : ReportFiles(v) \/ ReportVotes(v) \/ VoteCasts(v) \/ ResolveCloses(v)
  BY DEF ModNext, ShowsAnother, TakesDown, PutsBack, ReportReads, ReportFinds, Decide, ResolveReads,
         ApplyResolution, ModerationFails, VoteReads, StaffResolves
<1> QED
  BY <1>2, <1>3, <1>4, <1>5, <1>6 DEF modVars

\* No item the queue voted on is left open with a decisive tally, what its record
\* says of it was done and had its quorum, and the first decision stands: for any
\* number of voters, whose statements come between each other's.
THEOREM QueueDecides == ModSpec => VotesDecide
<1>1. ModInv => \A id \in DOMAIN items : Count(id, "remove") + Count(id, "keep") = Cardinality(Voted(id))
  BY CountsAddUp
<1>2. (ModInv => \A id \in DOMAIN items : Count(id, "remove") + Count(id, "keep") = Cardinality(Voted(id)))'
  BY <1>1, PTL
<1>3. ASSUME ModInv, ModInv', [ModNext]_modVars
      PROVE  [(AtRest /\ modMishaps = 0)' => \A id \in DOMAIN items' : Decisive(id)' => items'[id].filed]_modVars
  <2> SUFFICES ASSUME AtRest', modMishaps' = 0, NEW id \in DOMAIN items', Decisive(id)', ~items'[id].filed
               PROVE  FALSE
    OBVIOUS
  <2>1. PICK w \in Voters : InHand(ballot'[w])
    BY <1>3 DEF ModInv, DecisiveIsInHand, InHand, Closing
  <2> QED
    BY <2>1 DEF AtRest, InHand, Closing
<1>4. ASSUME ModInv, ModInv', [ModNext]_modVars
      PROVE  [\A id \in DOMAIN items' :
                 /\ items'[id].resolution = "removed" => id \in cleared'
                 /\ (items'[id].resolution # "open" /\ items'[id].by = Community) =>
                       (Count(id, "remove") + Count(id, "keep"))' >= VoteQuorum]_modVars
  <2> SUFFICES ASSUME NEW id \in DOMAIN items'
               PROVE  /\ items'[id].resolution = "removed" => id \in cleared'
                      /\ (items'[id].resolution # "open" /\ items'[id].by = Community) =>
                            (Count(id, "remove") + Count(id, "keep"))' >= VoteQuorum
    OBVIOUS
  <2>1. (Count(id, "remove") + Count(id, "keep") = Cardinality(Voted(id)))'
    BY <1>4, <1>2
  <2> QED
    BY <1>4, <2>1 DEF ModInv, ClosedIsTrue, HasQuorum
<1>5. ASSUME ModInv, [ModNext]_modVars
      PROVE  [\A id \in DOMAIN items : items[id].resolution # "open" =>
                 items'[id].resolution = items[id].resolution /\ items'[id].by = items[id].by]_modVars
  BY <1>5, ClosedStays
<1> QED
  BY <1>3, <1>4, <1>5, ModStart, ModStep, PTL
     DEF ModSpec, VotesDecide, LastVoteDecides, DecisionsAreTrue, DecidedOnce

-----------------------------------------------------------------------------
(***************************************************************************)
(* The limiter.  What a bucket is worth is its tokens and the time since   *)
(* it was looked at, and no more than a full one; a bucket nobody knows is *)
(* worth a full one.  A table that forgets a bucket which has been idle,   *)
(* or that has expired, does not change what it is worth.                  *)
(***************************************************************************)
Worth(b) == IF b = NoBucket THEN Full ELSE Capped(b.tokens + b.age)

LEMMA FullIsNatural == Full \in Nat /\ Every \in Nat /\ Every >= 1
<1>1. \A x, y \in Nat : x * y \in Nat
  OBVIOUS
<1> QED
  BY <1>1, ThrottleAssumption DEF Full

LEMMA CappedAdds ==
    \A x, y \in Nat : /\ Capped(x) \in 0 .. Full
                      /\ Capped(Capped(x) + y) = Capped(x + y)
                      /\ Capped(Full + y) = Full
BY FullIsNatural DEF Capped

LEMMA AgesAreLong == /\ OldAge \in Nat /\ IdleTime \in Nat /\ Lifetime \in Nat
                     /\ IdleTime >= Full /\ Lifetime >= Full + 1 /\ OldAge > Lifetime
BY FullIsNatural, ThrottleAssumption DEF OldAge, IdleTime, Lifetime

LEMMA BucketShape ==
    /\ NoBucket \notin Bucket
    /\ \A b \in Bucket : b.tokens \in 0 .. Full /\ b.age \in 0 .. OldAge
    /\ \A n \in 0 .. Full, a \in 0 .. OldAge : [tokens |-> n, age |-> a] \in Bucket
    /\ \A b \in Bucket, n \in 0 .. Full : [b EXCEPT !.tokens = n] \in Bucket
    /\ \A b \in Bucket, a \in 0 .. OldAge : [b EXCEPT !.age = a] \in Bucket
<1>1. NoBucket.age = -1
  BY DEF NoBucket
<1> QED
  BY <1>1 DEF Bucket

\* A bucket idle for a full refill is worth a full one.
LEMMA IdleIsFull ==
    ASSUME NEW b \in Bucket, b.age >= Full
    PROVE  Worth(b) = Full
<1>1. b # NoBucket /\ b.tokens \in Nat /\ b.age \in Nat
  BY BucketShape, FullIsNatural, AgesAreLong
<1> QED
  BY <1>1, FullIsNatural DEF Worth, Capped

LEMMA WorthIsCredit == \A b \in Bucket \cup {NoBucket} : Worth(b) \in 0 .. Full
<1> SUFFICES ASSUME NEW b \in Bucket \cup {NoBucket} PROVE Worth(b) \in 0 .. Full
  OBVIOUS
<1>1. CASE b = NoBucket
  BY <1>1, FullIsNatural DEF Worth
<1>2. CASE b # NoBucket
  <2>1. b.tokens \in Nat /\ b.age \in Nat
    BY <1>2, BucketShape, FullIsNatural, AgesAreLong
  <2>2. Worth(b) = Capped(b.tokens + b.age) /\ b.tokens + b.age \in Nat
    BY <1>2, <2>1 DEF Worth
  <2> QED
    BY <2>2, CappedAdds
<1> QED
  BY <1>1, <1>2

\* Credit, and the bucket a table finds, in terms of what the bucket is worth.
CreditIsWorth ==
    /\ Credit = [t \in Tables |-> [k \in Callers |-> Worth(bucket[t][k])]]
    /\ \A t \in Tables, k \in Callers : Refilled(Stored(t, k)) = [tokens |-> Worth(bucket[t][k]), age |-> 0]
    /\ \A t \in Tables, k \in Callers : Stored(t, k) = NoBucket => Worth(bucket[t][k]) = Full
    /\ \A t \in Tables, k \in Callers : Stored(t, k) # NoBucket => Stored(t, k) = bucket[t][k]

LEMMA CreditIsRead == ThrottleTypeOK => CreditIsWorth
<1> SUFFICES ASSUME ThrottleTypeOK PROVE CreditIsWorth
  OBVIOUS
<1>1. ASSUME NEW t \in Tables, NEW k \in Callers
      PROVE  /\ Stored(t, k) = NoBucket => Worth(bucket[t][k]) = Full
             /\ Stored(t, k) # NoBucket => Stored(t, k) = bucket[t][k]
  <2>1. bucket[t][k] \in Bucket \cup {NoBucket}
    BY DEF ThrottleTypeOK
  <2>2. CASE t = Redis /\ bucket[t][k] # NoBucket /\ bucket[t][k].age >= Lifetime
    <3>1. bucket[t][k] \in Bucket
      BY <2>1, <2>2
    <3>2. bucket[t][k].age >= Full
      BY <2>2, <3>1, BucketShape, AgesAreLong, FullIsNatural
    <3> QED
      BY <2>2, <3>1, <3>2, IdleIsFull DEF Stored
  <2>3. CASE ~(t = Redis /\ bucket[t][k] # NoBucket /\ bucket[t][k].age >= Lifetime)
    BY <2>3 DEF Stored, Worth
  <2> QED
    BY <2>2, <2>3
<1>2. ASSUME NEW t \in Tables, NEW k \in Callers
      PROVE  Refilled(Stored(t, k)) = [tokens |-> Worth(bucket[t][k]), age |-> 0]
  BY <1>1 DEF Refilled, FullBucket, Worth
<1>3. ASSUME NEW t \in Tables, NEW k \in Callers
      PROVE  (IF Stored(t, k) = NoBucket THEN Full ELSE Capped(bucket[t][k].tokens + bucket[t][k].age))
                = Worth(bucket[t][k])
  BY <1>1 DEF Worth
<1>4. Credit = [t \in Tables |-> [k \in Callers |-> Worth(bucket[t][k])]]
  BY <1>3 DEF Credit
<1> QED
  BY <1>1, <1>2, <1>4 DEF CreditIsWorth

\* What a look makes of a table, and what a token taken from it leaves.
Forgotten(t) == IF DropsAt(t) THEN Emptied(t) ELSE bucket[t]
Found(t, k) == IF DropsAt(t) THEN Full ELSE Worth(bucket[t][k])
Left(t, k) == IF Found(t, k) >= Every THEN Found(t, k) - Every ELSE Found(t, k)

LEMMA LookFinds ==
    ASSUME ThrottleTypeOK, NEW t \in Tables, NEW k \in Callers
    PROVE  /\ Found(t, k) \in 0 .. Full
           /\ Left(t, k) \in 0 .. Full
           /\ HasToken(t, k) <=> Found(t, k) >= Every
           /\ Taken(t, k) = [Forgotten(t) EXCEPT ![k] = [tokens |-> Left(t, k), age |-> 0]]
<1>0. /\ bucket[t] \in [Callers -> Bucket \cup {NoBucket}]
      /\ CreditIsWorth
  BY CreditIsRead DEF ThrottleTypeOK
<1>1. Found(t, k) \in 0 .. Full
  BY <1>0, WorthIsCredit, FullIsNatural DEF Found
<1>2. Left(t, k) \in 0 .. Full
  BY <1>1, FullIsNatural DEF Left
<1>3. Forgotten(t) \in [Callers -> Bucket \cup {NoBucket}]
  BY <1>0 DEF Forgotten, Emptied
<1>4. Refilled(IF DropsAt(t) THEN NoBucket ELSE Stored(t, k)) = [tokens |-> Found(t, k), age |-> 0]
  BY <1>0 DEF CreditIsWorth, Found, Refilled, FullBucket
<1>5. Looked(t, k) = [Forgotten(t) EXCEPT ![k] = [tokens |-> Found(t, k), age |-> 0]]
  BY <1>4 DEF Looked, Forgotten
<1>6. Looked(t, k)[k] = [tokens |-> Found(t, k), age |-> 0]
  BY <1>3, <1>5
<1>7. HasToken(t, k) <=> Found(t, k) >= Every
  BY <1>6 DEF HasToken
<1>8. CASE ~HasToken(t, k)
  BY <1>1, <1>2, <1>5, <1>7, <1>8 DEF Taken, Left
<1>9. CASE HasToken(t, k)
  <2> DEFINE b == [tokens |-> Found(t, k) - Every, age |-> 0]
  <2>1. Taken(t, k) = [Looked(t, k) EXCEPT ![k] = [Looked(t, k)[k] EXCEPT !.tokens = @ - Every]]
    BY <1>9 DEF Taken
  <2>2. [Looked(t, k)[k] EXCEPT !.tokens = @ - Every] = b
    BY <1>6
  <2>3. Taken(t, k) = [Looked(t, k) EXCEPT ![k] = b]
    BY <2>1, <2>2
  <2>4. Taken(t, k) = [Forgotten(t) EXCEPT ![k] = b]
    BY <1>3, <1>5, <2>3
  <2>5. Left(t, k) = Found(t, k) - Every
    BY <1>7, <1>9 DEF Left
  <2> QED
    BY <1>1, <1>2, <1>7, <2>4, <2>5
<1> QED
  BY <1>1, <1>2, <1>7, <1>8, <1>9

\* A caller a table has a bucket for is one it has heard of.
KnownIsHeard == \A t \in Tables : Known(t) \subseteq heard[t]

ThrottleInv == ThrottleTypeOK /\ KnownIsHeard

LEMMA TickAges ==
    ASSUME ThrottleInv, ThrottleTick
    PROVE  ThrottleInv' /\ B!Tick
<1>0. ThrottleTypeOK /\ KnownIsHeard
  BY DEF ThrottleInv
<1> DEFINE aged(b) == IF b = NoBucket \/ b.age = OldAge THEN b ELSE [b EXCEPT !.age = @ + 1]
<1>1. \A t \in Tables, k \in Callers : bucket'[t][k] = aged(bucket[t][k])
  BY DEF ThrottleTick
<1>2. ASSUME NEW b \in Bucket \cup {NoBucket}
      PROVE  /\ aged(b) \in Bucket \cup {NoBucket}
             /\ aged(b) = NoBucket <=> b = NoBucket
             /\ Worth(aged(b)) = Capped(Worth(b) + 1)
  <2>1. CASE b = NoBucket
    BY <2>1, CappedAdds DEF Worth
  <2>2. CASE b # NoBucket
    <3>1. b \in Bucket /\ b.tokens \in Nat /\ b.age \in Nat /\ b.age <= OldAge
      BY <2>2, BucketShape, FullIsNatural, AgesAreLong
    <3>2. CASE b.age = OldAge
      <4>1. Worth(b) = Full /\ aged(b) = b
        BY <3>1, <3>2, IdleIsFull, AgesAreLong, FullIsNatural
      <4> QED
        BY <2>2, <3>1, <4>1, CappedAdds
    <3>3. CASE b.age # OldAge
      <4>1. b.age + 1 \in 0 .. OldAge
        BY <3>1, <3>3, AgesAreLong
      <4>2. aged(b) = [b EXCEPT !.age = b.age + 1]
        BY <2>2, <3>3
      <4>3. aged(b) \in Bucket
        BY <3>1, <4>1, <4>2, BucketShape
      <4>4. aged(b).tokens = b.tokens /\ aged(b).age = b.age + 1
        BY <3>1, <4>2 DEF Bucket
      <4>5. aged(b) # NoBucket
        BY <4>3, BucketShape
      <4> HIDE DEF aged
      <4>6. Worth(aged(b)) = Capped(b.tokens + (b.age + 1))
        BY <4>4, <4>5 DEF Worth
      <4>7. Worth(b) = Capped(b.tokens + b.age)
        BY <2>2 DEF Worth
      <4>8. b.tokens + b.age \in Nat /\ b.tokens + (b.age + 1) = (b.tokens + b.age) + 1
        BY <3>1
      <4>9. Capped(Capped(b.tokens + b.age) + 1) = Capped((b.tokens + b.age) + 1)
        BY <4>8, CappedAdds
      <4> QED
        BY <2>2, <4>3, <4>5, <4>6, <4>7, <4>8, <4>9
    <3> QED
      BY <3>2, <3>3
  <2> QED
    BY <2>1, <2>2
<1>3. ASSUME NEW t \in Tables, NEW k \in Callers
      PROVE  /\ bucket'[t][k] \in Bucket \cup {NoBucket}
             /\ bucket'[t][k] = NoBucket <=> bucket[t][k] = NoBucket
             /\ Worth(bucket'[t][k]) = Capped(Worth(bucket[t][k]) + 1)
  <2>1. bucket[t][k] \in Bucket \cup {NoBucket}
    BY <1>0 DEF ThrottleTypeOK
  <2> HIDE DEF aged
  <2> QED
    BY <1>1, <1>2, <2>1
<1>4. ThrottleTypeOK'
  <2>1. bucket' = [t \in Tables |-> [k \in Callers |-> bucket'[t][k]]]
    BY DEF ThrottleTick
  <2>2. bucket' \in [Tables -> [Callers -> Bucket \cup {NoBucket}]]
    BY <1>3, <2>1
  <2> QED
    BY <1>0, <2>2 DEF ThrottleTick, ThrottleTypeOK
<1>5. KnownIsHeard'
  BY <1>0, <1>3 DEF ThrottleTick, KnownIsHeard, Known
<1>6. CreditIsWorth /\ CreditIsWorth'
  BY <1>0, <1>4, CreditIsRead, PTL
<1>7. Credit' = [t \in Tables |-> [k \in Callers |-> Capped(Credit[t][k] + 1)]]
  BY <1>3, <1>6 DEF CreditIsWorth
<1> QED
  BY <1>4, <1>5, <1>7 DEF ThrottleInv, ThrottleTick, B!Tick, B!Capped, B!Full, Capped, Full

\* A sweep forgets what is worth a full bucket.
LEMMA SweepForgetsFull ==
    ASSUME ThrottleInv, NEW r \in Replicas, Sweep(r)
    PROVE  ThrottleInv' /\ UNCHANGED <<Credit, trying, heard>>
<1>0. ThrottleTypeOK /\ KnownIsHeard /\ r \in Tables
  BY DEF ThrottleInv, Tables
<1>1. ASSUME NEW t \in Tables, NEW k \in Callers
      PROVE  bucket'[t][k] = bucket[t][k] \/ (bucket'[t][k] = NoBucket /\ bucket[t][k].age > IdleTime)
  BY <1>0 DEF Sweep, ThrottleTypeOK
<1>2. bucket' \in [Tables -> [Callers -> Bucket \cup {NoBucket}]]
  BY <1>0 DEF Sweep, ThrottleTypeOK
<1>3. ThrottleTypeOK'
  BY <1>0, <1>2 DEF Sweep, ThrottleTypeOK
<1>4. KnownIsHeard'
  BY <1>0, <1>1 DEF Sweep, KnownIsHeard, Known
<1>5. ASSUME NEW t \in Tables, NEW k \in Callers PROVE Worth(bucket'[t][k]) = Worth(bucket[t][k])
  <2>1. CASE bucket'[t][k] = NoBucket /\ bucket[t][k].age > IdleTime
    <3>1. bucket[t][k] \in Bucket
      BY <1>0, <2>1, AgesAreLong DEF ThrottleTypeOK, NoBucket
    <3>2. bucket[t][k].age >= Full
      BY <2>1, <3>1, BucketShape, AgesAreLong, FullIsNatural
    <3> QED
      BY <2>1, <3>1, <3>2, IdleIsFull DEF Worth
  <2> QED
    BY <1>1, <2>1
<1>6. CreditIsWorth /\ CreditIsWorth'
  BY <1>0, <1>3, CreditIsRead, PTL
<1>7. Credit' = Credit
  BY <1>5, <1>6 DEF CreditIsWorth
<1> QED
  BY <1>3, <1>4, <1>7 DEF ThrottleInv, Sweep

\* A refund gives a token back wherever there is a bucket to give it to.
LEMMA RefundGivesBack ==
    ASSUME ThrottleInv, NEW r \in Replicas, NEW k \in Callers, LoginRefund(r, k)
    PROVE  ThrottleInv' /\ \E R \in SUBSET Tables : B!Settle(k, R)
<1>0. ThrottleTypeOK /\ KnownIsHeard /\ r \in Tables /\ Redis \in Tables
  BY DEF ThrottleInv, Tables
<1>1. PICK c \in Reached(r) :
        /\ trying[k] > 0 /\ trying' = [trying EXCEPT ![k] = @ - 1]
        /\ bucket' = [t \in Tables |-> IF t \in c[1] THEN Given(t, k) ELSE bucket[t]]
        /\ UNCHANGED heard
  BY DEF LoginRefund
<1>2. c[1] \in SUBSET Tables
  BY <1>0 DEF Reached
<1>3. CreditIsWorth
  BY <1>0, CreditIsRead
<1> DEFINE given(t) == Capped(bucket[t][k].tokens + Every)
<1>4. ASSUME NEW t \in Tables, t \in c[1]
      PROVE  /\ bucket'[t] \in [Callers -> Bucket \cup {NoBucket}]
             /\ \A j \in Callers : bucket'[t][j] = NoBucket <=> bucket[t][j] = NoBucket
             /\ \A j \in Callers \ {k} : bucket'[t][j] = bucket[t][j]
             /\ Worth(bucket'[t][k]) = Capped(Worth(bucket[t][k]) + Every)
  <2>0. bucket'[t] = Given(t, k) /\ bucket[t] \in [Callers -> Bucket \cup {NoBucket}]
    BY <1>0, <1>1, <1>4 DEF ThrottleTypeOK
  <2>1. CASE Stored(t, k) = NoBucket
    <3>1. bucket'[t] = bucket[t] /\ Worth(bucket[t][k]) = Full
      BY <1>3, <2>0, <2>1 DEF Given, CreditIsWorth
    <3> QED
      BY <2>0, <3>1, CappedAdds, FullIsNatural
  <2>2. CASE Stored(t, k) # NoBucket
    <3> DEFINE b == bucket[t][k]
               g == [b EXCEPT !.tokens = given(t)]
    <3>1. b \in Bucket /\ b # NoBucket /\ b.tokens \in Nat /\ b.age \in Nat
      BY <1>3, <2>0, <2>2, BucketShape, FullIsNatural, AgesAreLong DEF CreditIsWorth
    <3>2. b.tokens + Every \in Nat /\ b.tokens + b.age \in Nat /\ b.age \in Nat /\ Every \in Nat
      BY <3>1, FullIsNatural
    <3>3. given(t) \in 0 .. Full
      BY <3>2, CappedAdds
    <3>4. g \in Bucket /\ g # NoBucket
      BY <3>1, <3>3, BucketShape
    <3>5. g.tokens = given(t) /\ g.age = b.age
      BY <3>1 DEF Bucket
    <3>6. bucket'[t] = [bucket[t] EXCEPT ![k] = g]
      BY <2>0, <2>2 DEF Given
    <3>7. Capped(given(t) + b.age) = Capped((b.tokens + Every) + b.age)
      BY <3>2, CappedAdds
    <3>8. Capped(Capped(b.tokens + b.age) + Every) = Capped((b.tokens + b.age) + Every)
      BY <3>2, CappedAdds
    <3>9. (b.tokens + Every) + b.age = (b.tokens + b.age) + Every
      BY <3>2, <3>1
    <3>10. Worth(g) = Capped(given(t) + b.age) /\ Worth(b) = Capped(b.tokens + b.age)
      BY <3>1, <3>4, <3>5 DEF Worth
    <3>11. Worth(g) = Capped(Worth(b) + Every)
      BY <3>7, <3>8, <3>9, <3>10
    <3> HIDE DEF g
    <3> QED
      BY <2>0, <3>1, <3>4, <3>6, <3>11
  <2> QED
    BY <2>1, <2>2
<1>5. ASSUME NEW t \in Tables, t \notin c[1] PROVE bucket'[t] = bucket[t]
  BY <1>1, <1>5
<1>6. ThrottleTypeOK'
  <2>1. bucket' \in [Tables -> [Callers -> Bucket \cup {NoBucket}]]
    <3>1. \A t \in Tables : bucket'[t] \in [Callers -> Bucket \cup {NoBucket}]
      BY <1>0, <1>4, <1>5 DEF ThrottleTypeOK
    <3>2. bucket' = [t \in Tables |-> bucket'[t]]
      BY <1>1
    <3> QED
      BY <3>1, <3>2
  <2>2. trying' \in [Callers -> 0 .. MaxTrying]
    BY <1>0, <1>1, ThrottleAssumption DEF ThrottleTypeOK
  <2> QED
    BY <1>0, <1>1, <2>1, <2>2 DEF ThrottleTypeOK
<1>7. KnownIsHeard'
  BY <1>0, <1>1, <1>4, <1>5 DEF KnownIsHeard, Known
<1>8. CreditIsWorth'
  BY <1>6, CreditIsRead, PTL
<1>9. Credit' = [t \in Tables |-> IF t \in c[1] THEN [Credit[t] EXCEPT ![k] = Capped(@ + Every)]
                                               ELSE Credit[t]]
  <2>1. ASSUME NEW t \in Tables
        PROVE  Credit'[t] = IF t \in c[1] THEN [Credit[t] EXCEPT ![k] = Capped(@ + Every)] ELSE Credit[t]
    <3>1. /\ Credit[t] = [j \in Callers |-> Worth(bucket[t][j])]
          /\ Credit'[t] = [j \in Callers |-> Worth(bucket'[t][j])]
      BY <1>3, <1>8, <2>1 DEF CreditIsWorth
    <3>2. CASE t \notin c[1]
      BY <1>5, <2>1, <3>1, <3>2
    <3>3. CASE t \in c[1]
      BY <1>4, <2>1, <3>1, <3>3
    <3> QED
      BY <3>2, <3>3
  <2> QED
    BY <1>8, <2>1 DEF CreditIsWorth
<1>10. B!Settle(k, c[1])
  BY <1>1, <1>9 DEF B!Settle, B!Capped, B!Full, Capped, Full
<1> QED
  BY <1>2, <1>6, <1>7, <1>10 DEF ThrottleInv

LEMMA AnswerSettles ==
    ASSUME ThrottleInv, NEW k \in Callers, Answered(k)
    PROVE  ThrottleInv' /\ B!Settle(k, {})
<1>0. ThrottleTypeOK /\ KnownIsHeard
  BY DEF ThrottleInv
<1>1. ThrottleTypeOK'
  BY <1>0, ThrottleAssumption DEF Answered, ThrottleTypeOK
<1>2. KnownIsHeard'
  BY <1>0 DEF Answered, KnownIsHeard, Known
<1>3. CreditIsWorth /\ CreditIsWorth'
  BY <1>0, <1>1, CreditIsRead, PTL
<1>4. Credit' = [t \in Tables |-> Credit[t]]
  BY <1>3 DEF CreditIsWorth, Answered
<1> QED
  BY <1>1, <1>2, <1>4 DEF ThrottleInv, Answered, B!Settle

\* A request is heard by the tables its call reaches; those at their bound forget
\* everybody first, and those with a token give one.
LEMMA GuardAsks ==
    ASSUME ThrottleInv, NEW r \in Replicas, NEW k \in Callers, Guard(r, k)
    PROVE  ThrottleInv' /\ \E H \in SUBSET Tables : \E A, P \in SUBSET H : B!Ask(k, H, A, P)
<1>0. ThrottleTypeOK /\ KnownIsHeard /\ r \in Tables /\ Redis \in Tables
  BY DEF ThrottleInv, Tables
<1>1. PICK c \in Reached(r) :
        /\ trying[k] < MaxTrying
        /\ bucket' = [t \in Tables |-> IF t \in c[1] THEN Taken(t, k) ELSE bucket[t]]
        /\ heard' = [t \in Tables |-> IF t \in c[1] THEN (IF DropsAt(t) THEN {} ELSE heard[t]) \cup {k} ELSE heard[t]]
        /\ IF HasToken(c[2], k)
             THEN trying' = [trying EXCEPT ![k] = @ + 1]
             ELSE UNCHANGED trying
  BY DEF Guard
<1> DEFINE H == c[1]
           A == {t \in H : DropsAt(t)}
           P == {t \in H : HasToken(t, k)}
<1>2. H \in SUBSET Tables /\ c[2] \in H /\ A \in SUBSET H /\ P \in SUBSET H
  BY <1>0 DEF Reached
<1>3. CreditIsWorth
  BY <1>0, CreditIsRead
<1>4. ASSUME NEW t \in Tables, t \in H
      PROVE  /\ bucket'[t] \in [Callers -> Bucket \cup {NoBucket}]
             /\ Worth(bucket'[t][k]) = Left(t, k)
             /\ \A j \in Callers \ {k} : bucket'[t][j] = Forgotten(t)[j]
  <2> DEFINE b == [tokens |-> Left(t, k), age |-> 0]
  <2>0. Forgotten(t) \in [Callers -> Bucket \cup {NoBucket}]
    BY <1>0 DEF Forgotten, Emptied, ThrottleTypeOK
  <2>1. bucket'[t] = [Forgotten(t) EXCEPT ![k] = b] /\ Left(t, k) \in 0 .. Full
    BY <1>0, <1>1, <1>4, LookFinds
  <2>2. b \in Bucket /\ b # NoBucket
    BY <2>1, BucketShape, AgesAreLong
  <2>3. Worth(b) = Left(t, k)
    BY <2>1, <2>2, FullIsNatural DEF Worth, Capped
  <2> HIDE DEF b
  <2> QED
    BY <2>0, <2>1, <2>2, <2>3
<1>5. ASSUME NEW t \in Tables, t \notin H PROVE bucket'[t] = bucket[t] /\ heard'[t] = heard[t]
  BY <1>1, <1>5
<1>6. ThrottleTypeOK'
  <2>1. bucket' \in [Tables -> [Callers -> Bucket \cup {NoBucket}]]
    <3>1. \A t \in Tables : bucket'[t] \in [Callers -> Bucket \cup {NoBucket}]
      BY <1>0, <1>4, <1>5 DEF ThrottleTypeOK
    <3>2. bucket' = [t \in Tables |-> bucket'[t]]
      BY <1>1
    <3> QED
      BY <3>1, <3>2
  <2>2. trying' \in [Callers -> 0 .. MaxTrying]
    BY <1>0, <1>1, ThrottleAssumption DEF ThrottleTypeOK
  <2>3. heard' \in [Tables -> SUBSET Callers]
    BY <1>0, <1>1 DEF ThrottleTypeOK
  <2> QED
    BY <2>1, <2>2, <2>3 DEF ThrottleTypeOK
<1>7. KnownIsHeard'
  <2> SUFFICES ASSUME NEW t \in Tables, NEW j \in Callers, bucket'[t][j] # NoBucket
               PROVE  j \in heard'[t]
    BY DEF KnownIsHeard, Known
  <2>1. CASE t \notin H
    BY <1>0, <1>5, <2>1 DEF KnownIsHeard, Known
  <2>2. CASE t \in H /\ j = k
    BY <1>1, <2>2
  <2>3. CASE t \in H /\ j # k
    <3>1. Forgotten(t)[j] # NoBucket
      BY <1>4, <2>3
    <3>2. ~DropsAt(t) /\ bucket[t][j] # NoBucket
      BY <3>1 DEF Forgotten, Emptied
    <3>3. j \in heard[t]
      BY <1>0, <3>2 DEF KnownIsHeard, Known
    <3> QED
      BY <1>1, <2>3, <3>2, <3>3
  <2> QED
    BY <2>1, <2>2, <2>3
<1>8. CreditIsWorth'
  BY <1>6, CreditIsRead, PTL
<1> DEFINE after == B!After(A)
<1>9. ASSUME NEW t \in Tables
      PROVE  /\ t \in H => after[t][k] = Found(t, k)
             /\ t \in H => \A j \in Callers : after[t][j] = Worth(Forgotten(t)[j])
             /\ t \notin H => after[t] = Credit[t]
  BY <1>3 DEF CreditIsWorth, Forgotten, Emptied, Found, Worth, B!After, B!Full, Full
<1>10. \A t \in P : after[t][k] >= Every
  BY <1>0, <1>2, <1>9, LookFinds
<1>11. Credit' = [t \in Tables |-> IF t \in P THEN [after[t] EXCEPT ![k] = @ - Every] ELSE after[t]]
  <2>0. \A t \in Tables : after[t] = [j \in Callers |-> after[t][j]]
    BY <1>3 DEF CreditIsWorth, B!After
  <2> HIDE DEF after
  <2>1. ASSUME NEW t \in Tables, t \notin H PROVE Credit'[t] = after[t]
    BY <1>3, <1>5, <1>8, <1>9, <2>1 DEF CreditIsWorth
  <2>2. ASSUME NEW t \in Tables, t \in H
        PROVE  Credit'[t] = IF t \in P THEN [after[t] EXCEPT ![k] = @ - Every] ELSE after[t]
    <3>1. t \in P <=> Found(t, k) >= Every
      BY <1>0, <2>2, LookFinds
    <3>2. Credit'[t] = [j \in Callers |-> IF j = k THEN Left(t, k) ELSE after[t][j]]
      BY <1>4, <1>8, <1>9, <2>2 DEF CreditIsWorth
    <3>3. after[t][k] = Found(t, k)
      BY <1>9, <2>2
    <3> QED
      BY <2>0, <3>1, <3>2, <3>3 DEF Left
  <2>3. \A t \in Tables : Credit'[t] = IF t \in P THEN [after[t] EXCEPT ![k] = @ - Every] ELSE after[t]
    BY <1>2, <2>1, <2>2
  <2>4. Credit' = [t \in Tables |-> Credit'[t]]
    BY <1>8 DEF CreditIsWorth
  <2> QED
    BY <2>3, <2>4
<1>12. \A t \in A : Cardinality(heard[t]) >= MaxBuckets
  <2> SUFFICES ASSUME NEW t \in A PROVE Cardinality(heard[t]) >= MaxBuckets
    OBVIOUS
  <2>1. Cardinality(Known(t)) >= MaxBuckets /\ Known(t) \subseteq heard[t] /\ heard[t] \subseteq Callers
    BY <1>0, <1>2 DEF DropsAt, KnownIsHeard, ThrottleTypeOK
  <2>2. IsFiniteSet(heard[t]) /\ Cardinality(heard[t]) \in Nat
    BY <2>1, ThrottleAssumption, FS_Subset, FS_CardinalityType
  <2>3. Cardinality(Known(t)) <= Cardinality(heard[t]) /\ Cardinality(Known(t)) \in Nat
    BY <2>1, <2>2, FS_Subset, FS_CardinalityType
  <2> QED
    BY <2>1, <2>2, <2>3, ThrottleAssumption
<1>13. B!Ask(k, H, A, P)
  <2>1. \/ P # {} /\ trying' = [trying EXCEPT ![k] = @ + 1]
        \/ UNCHANGED trying
    BY <1>1, <1>2
  <2>2. heard' = [t \in Tables |-> IF t \in H THEN (IF t \in A THEN {} ELSE heard[t]) \cup {k} ELSE heard[t]]
    BY <1>1
  <2>3. \A S : B!Cardinality(S) = Cardinality(S)
    BY DEF B!Cardinality, Cardinality
  <2> HIDE DEF H, A, P
  <2> QED
    BY <1>10, <1>11, <1>12, <2>1, <2>2, <2>3 DEF B!Ask
<1> QED
  BY <1>2, <1>6, <1>7, <1>13 DEF ThrottleInv

\* Every reachable state of the tables is well typed, and a table knows nobody it
\* has not heard of.
THEOREM ThrottleTypeCorrect == ThrottleSpec => []ThrottleInv
<1>1. ThrottleInit => ThrottleInv
  BY ThrottleAssumption DEF ThrottleInit, ThrottleInv, ThrottleTypeOK, KnownIsHeard, Known
<1>2. ThrottleInv /\ [ThrottleNext]_throttleVars => ThrottleInv'
  <2>1. ThrottleInv /\ UNCHANGED throttleVars => ThrottleInv'
    BY DEF throttleVars, ThrottleInv, ThrottleTypeOK, KnownIsHeard, Known
  <2> QED
    BY <2>1, TickAges, SweepForgetsFull, AnswerSettles, RefundGivesBack, GuardAsks DEF ThrottleNext
<1> QED
  BY <1>1, <1>2, PTL DEF ThrottleSpec

\* For any number of replicas and callers, any burst and rate: what the buckets do
\* with their sweeps, expiries, late answers and drops is what a budget promises.
THEOREM LimiterKeepsBudget == ThrottleSpec => KeepsBudget
<1>1. ThrottleInit => B!Init
  BY CreditIsRead DEF ThrottleInit, B!Init, Credit, Stored, B!Full, Full
<1>2. ThrottleInv /\ [ThrottleNext]_throttleVars => [B!Next]_(B!budgetVars)
  <2> SUFFICES ASSUME ThrottleInv, [ThrottleNext]_throttleVars PROVE [B!Next]_(B!budgetVars)
    OBVIOUS
  <2>1. CASE ThrottleTick
    BY <2>1, TickAges DEF B!Next
  <2>2. ASSUME NEW r \in Replicas, Sweep(r) PROVE UNCHANGED B!budgetVars
    BY <2>2, SweepForgetsFull DEF B!budgetVars
  <2>3. ASSUME NEW k \in Callers, Answered(k) PROVE B!Next
    BY <2>3, AnswerSettles DEF B!Next
  <2>4. ASSUME NEW r \in Replicas, NEW k \in Callers, Guard(r, k) \/ LoginRefund(r, k) PROVE B!Next
    BY <2>4, GuardAsks, RefundGivesBack DEF B!Next
  <2>5. CASE UNCHANGED throttleVars
    BY <2>5 DEF throttleVars, B!budgetVars, Credit, Stored
  <2> QED
    BY <2>1, <2>2, <2>3, <2>4, <2>5 DEF ThrottleNext
<1> QED
  BY <1>1, <1>2, ThrottleTypeCorrect, PTL DEF ThrottleSpec, KeepsBudget, B!Spec
================================================================================
