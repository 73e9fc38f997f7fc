------------------------------ MODULE MemberProofs -----------------------------
(***************************************************************************)
(* What is proved of what a member has: the balance and the gifts          *)
(* (Points), the points earned by seeding (SeedPoints), the cart           *)
(* (MemberLists) and the avatar (Avatars).                                 *)
(***************************************************************************)
EXTENDS Points, SeedPoints, MemberLists, Avatars, Sums

(***************************************************************************)
(* Points: the locks are what makes the guard of a debit hold until the    *)
(* gift commits: a row is held by one gift, and no award or charge moves   *)
(* it meanwhile.                                                           *)
(***************************************************************************)
Judged(g) ==
    gift[g].pc # "idle" =>
        /\ gift[g].from \in Members /\ gift[g].to \in Members /\ gift[g].from # gift[g].to
        /\ gift[g].amount \in Nat
GiftsAreJudged == \A g \in Gifts : Judged(g)

PendingIsWhole == \A c \in Changes : change[c].pc = "insert" => change[c].who \in Members /\ change[c].delta \in Int

OneHolder == \A g, h \in Gifts, m \in Members : (Holds(g, m) /\ Holds(h, m)) => g = h

Funded(g) == gift[g].pc \in {"credit", "commit"} => points[gift[g].from] >= gift[g].amount
GiftsAreFunded == \A g \in Gifts : Funded(g)

NoDebts == \A m \in Members : points[m] >= 0

GiftShape ==
    gift \in [Gifts -> [pc : {"idle", "debit", "credit", "commit"}, from : Members \cup {Nobody},
                        to : Members \cup {Nobody}, amount : Amounts \cup {0}]]
ChangeShape ==
    change \in [Changes -> [pc : {"idle", "insert"}, who : Members \cup {Nobody}, delta : Deltas]]
PointsShape ==
    /\ points \in [Members -> Int] /\ apart \in [Members -> Int] /\ minted \in Int
    /\ GiftShape /\ ChangeShape

PointsInv ==
    /\ PointsShape /\ GiftsAreJudged /\ PendingIsWhole /\ OneHolder /\ GiftsAreFunded /\ NoDebts
    /\ Total(points, Members) = minted

LEMMA AmountsAreWhole == Amounts \cup {0} \subseteq Int /\ Deltas \subseteq Int
<1>1. \A n \in Amounts : n \in Int /\ -n \in Int
    BY PointsAssumption
<1>2. \A d \in Deltas : d \in Int
    BY <1>1 DEF Deltas
<1> QED BY <1>1, <1>2

LEMMA PointsInitInv == PointsInit => PointsInv
<1> SUFFICES ASSUME PointsInit PROVE PointsInv
    OBVIOUS
<1> USE DEF PointsInit, NoGift, NoChange
<1>1. PointsShape
    <2>1. minted \in Int
        BY PointsAssumption, FS_CardinalityType
    <2> QED BY <2>1, PointsAssumption DEF PointsShape, GiftShape, ChangeShape, Deltas
<1>2. GiftsAreJudged /\ PendingIsWhole /\ GiftsAreFunded
    BY DEF GiftsAreJudged, Judged, PendingIsWhole, GiftsAreFunded, Funded
<1>3. OneHolder /\ NoDebts
    BY PointsAssumption DEF OneHolder, Holds, NoDebts
<1>4. Total(points, Members) = minted
    BY PointsAssumption, TotalOfConstant
<1> QED BY <1>1, <1>2, <1>3, <1>4 DEF PointsInv

(***************************************************************************)
(* The steps of one gift.                                                  *)
(***************************************************************************)
\* A gift begins, or ends with nothing moved: what else is held or funded stays so.
LEMMA GiftIsReplaced ==
    ASSUME PointsInv, NEW g \in Gifts, NEW r,
           gift' = [gift EXCEPT ![g] = r],
           r \in [pc : {"idle", "debit"}, from : Members \cup {Nobody},
                  to : Members \cup {Nobody}, amount : Amounts \cup {0}],
           r.pc # "idle" => /\ r.from \in Members /\ r.to \in Members /\ r.from # r.to
                            /\ r.amount \in Nat,
           UNCHANGED <<points, change, apart, minted>>
    PROVE  PointsInv'
<1>1. gift'[g] = r /\ \A h \in Gifts : h # g => gift'[h] = gift[h]
    BY DEF PointsInv, PointsShape, GiftShape
<1>2. r.pc \in {"idle", "debit"}
    OBVIOUS
<1>3. PointsShape'
    <2>1. GiftShape'
        BY DEF PointsInv, PointsShape, GiftShape
    <2> QED BY <2>1 DEF PointsInv, PointsShape, ChangeShape
<1>4. GiftsAreJudged'
    <2> SUFFICES ASSUME NEW h \in Gifts PROVE Judged(h)'
        BY DEF GiftsAreJudged
    <2> QED BY <1>1 DEF PointsInv, GiftsAreJudged, Judged
<1>5. OneHolder'
    <2>1. \A h \in Gifts, m \in Members : Holds(h, m)' => Holds(h, m)
        BY <1>1, <1>2 DEF Holds
    <2> QED BY <2>1 DEF PointsInv, OneHolder
<1>6. GiftsAreFunded'
    <2> SUFFICES ASSUME NEW h \in Gifts PROVE Funded(h)'
        BY DEF GiftsAreFunded
    <2> QED BY <1>1, <1>2 DEF PointsInv, GiftsAreFunded, Funded
<1>7. PendingIsWhole' /\ NoDebts' /\ (Total(points, Members) = minted)'
    BY DEF PointsInv, PendingIsWhole, NoDebts
<1> QED BY <1>3, <1>4, <1>5, <1>6, <1>7 DEF PointsInv

LEMMA BeginningIsSafe ==
    ASSUME PointsInv, NEW g \in Gifts, NEW from \in Members, NEW to \in Members,
           NEW n \in Amounts, GiftBegins(g, from, to, n)
    PROVE  PointsInv'
<1> DEFINE r == [pc |-> "debit", from |-> from, to |-> to, amount |-> n]
<1>1. n \in Nat
    BY AmountsAreWhole, PointsAssumption DEF GiftBegins
<1>2. r \in [pc : {"idle", "debit"}, from : Members \cup {Nobody},
             to : Members \cup {Nobody}, amount : Amounts \cup {0}]
    OBVIOUS
<1>3. gift' = [gift EXCEPT ![g] = r] /\ from # to /\ UNCHANGED <<points, change, apart, minted>>
    BY DEF GiftBegins
<1>4. r.pc # "idle" => /\ r.from \in Members /\ r.to \in Members /\ r.from # r.to
                       /\ r.amount \in Nat
    BY <1>1, <1>3
<1> HIDE DEF r
<1> QED BY <1>2, <1>3, <1>4, GiftIsReplaced

LEMMA GivingUpIsSafe ==
    ASSUME PointsInv, NEW g \in Gifts, gift' = [gift EXCEPT ![g] = NoGift],
           UNCHANGED <<points, change, apart, minted>>
    PROVE  PointsInv'
<1>1. NoGift \in [pc : {"idle", "debit"}, from : Members \cup {Nobody},
                  to : Members \cup {Nobody}, amount : Amounts \cup {0}]
    BY DEF NoGift
<1>2. NoGift.pc = "idle"
    BY DEF NoGift
<1> QED BY <1>1, <1>2, GiftIsReplaced

\* A lock is taken: of the giver, whose balance is judged under it, or of the one
\* the gift is for.
LEMMA LockingIsSafe ==
    ASSUME PointsInv, NEW g \in Gifts, GiftDebit(g) \/ GiftCredit(g)
    PROVE  PointsInv'
<1> USE DEF PointsInv, PointsShape, GiftShape
<1>1. UNCHANGED <<points, change, apart, minted>>
    BY DEF GiftDebit, GiftCredit
<1>2. PICK pc \in {"credit", "commit"} : gift' = [gift EXCEPT ![g].pc = pc]
    BY DEF GiftDebit, GiftCredit
<1>3. gift[g].pc \in {"debit", "credit"}
    BY DEF GiftDebit, GiftCredit
<1>4. \A h \in Gifts : /\ h # g => gift'[h] = gift[h]
                       /\ gift'[h].from = gift[h].from /\ gift'[h].to = gift[h].to
                       /\ gift'[h].amount = gift[h].amount
    BY <1>2
<1>5. gift'[g].pc = pc
    BY <1>2
<1>6. PointsShape'
    <2>1. GiftShape'
        BY <1>2
    <2> QED BY <2>1, <1>1 DEF ChangeShape
<1>7. GiftsAreJudged'
    <2> SUFFICES ASSUME NEW h \in Gifts PROVE Judged(h)'
        BY DEF GiftsAreJudged
    <2>1. Judged(h) /\ (gift'[h].pc # "idle" => gift[h].pc # "idle")
        BY <1>3, <1>4 DEF GiftsAreJudged
    <2> QED BY <2>1, <1>4 DEF Judged
<1>8. OneHolder'
    <2>1. \A h \in Gifts, m \in Members :
              Holds(h, m)' => Holds(h, m) \/ (h = g /\ ~ Locked(m))
        <3> SUFFICES ASSUME NEW h \in Gifts, NEW m \in Members, Holds(h, m)', ~ Holds(h, m)
                     PROVE  h = g /\ ~ Locked(m)
            OBVIOUS
        <3>1. h = g
            BY <1>4 DEF Holds
        <3>2. CASE GiftDebit(g)
            <4>1. gift[g].pc = "debit" /\ gift'[g].pc = "credit" /\ ~ Locked(gift[g].from)
                BY <3>2 DEF GiftDebit
            <4>2. gift[g].from = m
                BY <4>1, <3>1, <1>4 DEF Holds
            <4> QED BY <3>1, <4>1, <4>2
        <3>3. CASE GiftCredit(g)
            <4>1. gift[g].pc = "credit" /\ gift'[g].pc = "commit" /\ ~ Locked(gift[g].to)
                BY <3>3 DEF GiftCredit
            <4>2. gift[g].to = m
                BY <4>1, <3>1, <1>4 DEF Holds
            <4> QED BY <3>1, <4>1, <4>2
        <3> QED BY <3>2, <3>3
    <2> SUFFICES ASSUME NEW h \in Gifts, NEW k \in Gifts, NEW m \in Members,
                        Holds(h, m)', Holds(k, m)'
                 PROVE  h = k
        BY DEF OneHolder
    <2>2. /\ Holds(h, m) \/ (h = g /\ ~ Locked(m))
          /\ Holds(k, m) \/ (k = g /\ ~ Locked(m))
        BY <2>1
    <2> QED BY <2>2 DEF OneHolder, Locked
<1>9. GiftsAreFunded'
    <2> SUFFICES ASSUME NEW h \in Gifts PROVE Funded(h)'
        BY DEF GiftsAreFunded
    <2>1. CASE h # g
        BY <2>1, <1>1, <1>4 DEF GiftsAreFunded, Funded
    <2>2. CASE h = g
        <3>1. gift[g].from \in Members /\ gift[g].amount \in Nat /\ Funded(g)
            BY <1>3 DEF GiftsAreJudged, Judged, GiftsAreFunded
        <3>2. points[gift[g].from] \in Int
            BY <3>1
        <3>3. points[gift[g].from] >= gift[g].amount
            <4>1. CASE GiftDebit(g)
                BY <4>1, <3>1, <3>2 DEF GiftDebit, Covers
            <4>2. CASE GiftCredit(g)
                BY <4>2, <3>1 DEF GiftCredit, Funded
            <4> QED BY <4>1, <4>2
        <3> QED BY <2>2, <3>3, <1>1, <1>4 DEF Funded
    <2> QED BY <2>1, <2>2
<1>10. PendingIsWhole' /\ NoDebts' /\ (Total(points, Members) = minted)'
    BY <1>1 DEF PendingIsWhole, NoDebts
<1> QED BY <1>6, <1>7, <1>8, <1>9, <1>10

\* The two balances move by the same amount, and what other gifts hold is neither.
LEMMA CommittingIsSafe ==
    ASSUME PointsInv, NEW g \in Gifts, GiftCommit(g)
    PROVE  PointsInv'
<1> USE DEF PointsInv, PointsShape, GiftShape
<1> DEFINE from == gift[g].from
           to == gift[g].to
           n == gift[g].amount
<1>1. /\ gift[g].pc = "commit" /\ gift' = [gift EXCEPT ![g] = NoGift]
      /\ points' = [points EXCEPT ![from] = @ - n, ![to] = @ + n]
      /\ UNCHANGED <<change, apart, minted>>
    BY DEF GiftCommit
<1>2. from \in Members /\ to \in Members /\ from # to /\ n \in Nat /\ points[from] >= n
    BY <1>1 DEF GiftsAreJudged, Judged, GiftsAreFunded, Funded
<1> HIDE DEF from, to, n
<1>3. points \in [Members -> Int]
    OBVIOUS
<1>5. /\ points'[from] = points[from] - n /\ points'[to] = points[to] + n
      /\ \A m \in Members : (m # from /\ m # to) => points'[m] = points[m]
    BY <1>1, <1>2, <1>3
<1>6. points' \in [Members -> Int]
    BY <1>1, <1>2, <1>3
<1>7. (Total(points, Members) = minted)'
    <2>1. Total(points', Members) = Total(points, Members)
        <3>1. IsFiniteSet(Members) /\ n \in Int
            BY <1>2, PointsAssumption
        <3> HIDE DEF PointsInv
        <3> QED BY <1>2, <1>3, <1>5, <1>6, <3>1, TotalOfTransfer
    <2> QED BY <2>1, <1>1
<1>8. NoDebts'
    <2> SUFFICES ASSUME NEW m \in Members PROVE points'[m] >= 0
        BY DEF NoDebts
    <2>1. points[m] \in Int /\ points[m] >= 0 /\ points[from] \in Int /\ points[to] \in Int /\ points[to] >= 0
        BY <1>2, <1>3 DEF NoDebts
    <2> QED BY <2>1, <1>2, <1>5
<1>9. gift'[g] = NoGift /\ \A h \in Gifts : h # g => gift'[h] = gift[h]
    BY <1>1
<1>10. PointsShape'
    <2>1. NoGift \in [pc : {"idle", "debit", "credit", "commit"}, from : Members \cup {Nobody},
                      to : Members \cup {Nobody}, amount : Amounts \cup {0}]
        BY DEF NoGift
    <2>2. GiftShape'
        BY <1>1, <2>1
    <2> QED BY <1>1, <1>6, <2>2 DEF ChangeShape
<1>11. GiftsAreJudged'
    <2> SUFFICES ASSUME NEW h \in Gifts PROVE Judged(h)'
        BY DEF GiftsAreJudged
    <2> QED BY <1>9 DEF GiftsAreJudged, Judged, NoGift
<1>12. OneHolder'
    <2>1. \A h \in Gifts, m \in Members : Holds(h, m)' => Holds(h, m)
        BY <1>9 DEF Holds, NoGift
    <2> QED BY <2>1 DEF OneHolder
<1>13. GiftsAreFunded'
    <2> SUFFICES ASSUME NEW h \in Gifts, gift'[h].pc \in {"credit", "commit"} PROVE Funded(h)'
        BY DEF GiftsAreFunded, Funded
    <2>1. h # g /\ gift'[h] = gift[h] /\ Funded(h)
        BY <1>9 DEF NoGift, GiftsAreFunded
    <2>2. gift[h].from \in Members
        BY <2>1 DEF GiftsAreJudged, Judged
    <2>3. Holds(g, from) /\ Holds(g, to) /\ Holds(h, gift[h].from)
        BY <1>1, <2>1 DEF Holds, from, to
    <2>4. gift[h].from # from /\ gift[h].from # to
        BY <2>1, <2>2, <2>3, <1>2 DEF OneHolder
    <2>5. points'[gift[h].from] = points[gift[h].from]
        BY <2>2, <2>4, <1>5
    <2> QED BY <2>1, <2>5 DEF Funded
<1>14. PendingIsWhole'
    BY <1>1 DEF PendingIsWhole
<1> QED BY <1>7, <1>8, <1>10, <1>11, <1>12, <1>13, <1>14

(***************************************************************************)
(* Awards and charges.                                                     *)
(***************************************************************************)
LEMMA ChangingIsSafe ==
    ASSUME PointsInv, NEW c \in Changes, NEW m \in Members, NEW d \in Deltas, ChangeUpdate(c, m, d)
    PROVE  PointsInv'
<1> USE DEF PointsInv, PointsShape, GiftShape, ChangeShape
<1>1. /\ ~ Locked(m) /\ Covers(m, -d) /\ UNCHANGED gift
      /\ points' = [points EXCEPT ![m] = @ + d] /\ apart' = [apart EXCEPT ![m] = @ + d]
      /\ minted' = minted + d
      /\ change' = [change EXCEPT ![c] = [pc |-> "insert", who |-> m, delta |-> d]]
    BY DEF ChangeUpdate
<1>2. d \in Int
    BY AmountsAreWhole
<1>3. points'[m] = points[m] + d /\ \A k \in Members : k # m => points'[k] = points[k]
    BY <1>1
<1>4. PointsShape'
    <2>1. points' \in [Members -> Int] /\ apart' \in [Members -> Int] /\ minted' \in Int
        BY <1>1, <1>2
    <2>2. [pc |-> "insert", who |-> m, delta |-> d] \in
              [pc : {"idle", "insert"}, who : Members \cup {Nobody}, delta : Deltas]
        OBVIOUS
    <2>3. ChangeShape'
        BY <1>1, <2>2
    <2> QED BY <2>1, <2>3, <1>1
<1>5. GiftsAreJudged' /\ OneHolder'
    BY <1>1 DEF GiftsAreJudged, Judged, OneHolder, Holds
<1>6. PendingIsWhole'
    <2> SUFFICES ASSUME NEW k \in Changes, change'[k].pc = "insert"
                 PROVE  change'[k].who \in Members /\ change'[k].delta \in Int
        BY DEF PendingIsWhole
    <2>1. CASE k = c
        BY <2>1, <1>1, <1>2
    <2>2. CASE k # c
        BY <2>2, <1>1 DEF PendingIsWhole
    <2> QED BY <2>1, <2>2
<1>7. GiftsAreFunded'
    <2> SUFFICES ASSUME NEW h \in Gifts, gift[h].pc \in {"credit", "commit"} PROVE Funded(h)'
        BY <1>1 DEF GiftsAreFunded, Funded
    <2>1. Funded(h) /\ gift[h].from \in Members /\ Holds(h, gift[h].from)
        BY DEF GiftsAreFunded, GiftsAreJudged, Judged, Holds
    <2>2. gift[h].from # m
        BY <2>1, <1>1 DEF Locked
    <2> QED BY <2>1, <2>2, <1>1, <1>3 DEF Funded
<1>8. NoDebts'
    <2> SUFFICES ASSUME NEW k \in Members PROVE points'[k] >= 0
        BY DEF NoDebts
    <2>1. points[k] \in Int /\ points[k] >= 0 /\ points[m] \in Int
        BY DEF NoDebts
    <2> QED BY <2>1, <1>1, <1>2, <1>3 DEF Covers
<1>9. (Total(points, Members) = minted)'
    <2>1. Total([points EXCEPT ![m] = @ + d], Members) = Total(points, Members) + d
        <3>1. IsFiniteSet(Members) /\ points \in [Members -> Int]
            BY PointsAssumption
        <3> HIDE DEF PointsInv
        <3> QED BY <1>2, <3>1, TotalMoves
    <2> QED BY <2>1, <1>1
<1> QED BY <1>4, <1>5, <1>6, <1>7, <1>8, <1>9

LEMMA InsertingIsSafe ==
    ASSUME PointsInv, NEW c \in Changes, ChangeInsert(c) \/ InsertFails(c)
    PROVE  PointsInv'
<1> USE DEF PointsInv, PointsShape, GiftShape, ChangeShape
<1>1. /\ change[c].pc = "insert" /\ change' = [change EXCEPT ![c] = NoChange]
      /\ UNCHANGED <<points, gift, minted>>
    BY DEF ChangeInsert, InsertFails
<1>2. apart' \in [Members -> Int]
    <2>1. change[c].who \in Members /\ change[c].delta \in Int
        BY <1>1 DEF PendingIsWhole
    <2>2. apart' = [apart EXCEPT ![change[c].who] = @ - change[c].delta] \/ apart' = apart
        BY DEF ChangeInsert, InsertFails
    <2> QED BY <2>1, <2>2
<1>3. PointsShape'
    <2>1. NoChange \in [pc : {"idle", "insert"}, who : Members \cup {Nobody}, delta : Deltas]
        BY DEF NoChange, Deltas
    <2> QED BY <1>1, <1>2, <2>1
<1>4. PendingIsWhole'
    BY <1>1 DEF PendingIsWhole, NoChange
<1>5. GiftsAreJudged' /\ OneHolder' /\ GiftsAreFunded' /\ NoDebts' /\ (Total(points, Members) = minted)'
    BY <1>1 DEF GiftsAreJudged, Judged, OneHolder, Holds, GiftsAreFunded, Funded, NoDebts
<1> QED BY <1>3, <1>4, <1>5

(***************************************************************************)
(* The theorems.                                                           *)
(***************************************************************************)
LEMMA PointsInductive == PointsSpec => []PointsInv
<1>1. PointsInit => PointsInv
    BY PointsInitInv
<1>2. ASSUME PointsInv, [PointsNext]_pointsVars PROVE PointsInv'
    <2>1. ASSUME NEW g \in Gifts, NEW from \in Members, NEW to \in Members, NEW n \in Amounts,
                 GiftBegins(g, from, to, n)
          PROVE  PointsInv'
        BY <1>2, <2>1, BeginningIsSafe
    <2>2. ASSUME NEW g \in Gifts, GiftDebit(g) \/ GiftCredit(g) PROVE PointsInv'
        BY <1>2, <2>2, LockingIsSafe
    <2>3. ASSUME NEW g \in Gifts, GiftCommit(g) PROVE PointsInv'
        BY <1>2, <2>3, CommittingIsSafe
    <2>4. ASSUME NEW g \in Gifts, GiftRefused(g) \/ GiftFails(g) \/ DeadlockDetected(g) PROVE PointsInv'
        BY <1>2, <2>4, GivingUpIsSafe DEF GiftRefused, GiftFails, RolledBack, DeadlockDetected
    <2>5. ASSUME NEW c \in Changes, NEW m \in Members, NEW d \in Deltas \ {0}, ChangeUpdate(c, m, d)
          PROVE  PointsInv'
        BY <1>2, <2>5, ChangingIsSafe
    <2>6. ASSUME NEW c \in Changes, ChangeInsert(c) \/ InsertFails(c) PROVE PointsInv'
        BY <1>2, <2>6, InsertingIsSafe
    <2>7. CASE UNCHANGED pointsVars
        BY <1>2, <2>7 DEF pointsVars, PointsInv, PointsShape, GiftShape, ChangeShape, GiftsAreJudged, Judged,
                          PendingIsWhole, OneHolder, Holds, GiftsAreFunded, Funded, NoDebts
    <2> QED BY <1>2, <2>1, <2>2, <2>3, <2>4, <2>5, <2>6, <2>7 DEF PointsNext
<1> QED BY <1>1, <1>2, PTL DEF PointsSpec

\* Type correctness of the balances, the transactions and the changes.
THEOREM PointsTypeCorrect == PointsSpec => []PointsTypeOK
<1>1. PointsInv => PointsTypeOK
    BY DEF PointsInv, PointsShape, GiftShape, ChangeShape, PointsTypeOK
<1> QED BY <1>1, PointsInductive, PTL

\* For every number of members, gifts in flight and awards, and however they
\* interleave: nobody's balance goes below zero, and all balances together are what
\* was minted, for TransferPoints moves points and neither makes nor loses them.
THEOREM BalancesHold == PointsSpec => []BalancesAddUp
<1>1. PointsInv => BalancesAddUp
    BY DEF PointsInv, NoDebts, Total, BalancesAddUp
<1> QED BY <1>1, PointsInductive, PTL

(***************************************************************************)
(* Avatars: a picture that a member shows, an offer can bring back or a    *)
(* request is about to record or restore is spared by the sweep, unless it *)
(* crossed it; one being uploaded is young, and nobody's yet.              *)
(***************************************************************************)
Carried(p) == \E q \in Requests : request[q].op \in {"clear", "record", "restore"} /\ request[q].picture = p
Shown(p) == \E m \in Uploaders : avatar[m] = p

RequestsAreWhole ==
    \A q \in Requests :
        /\ request[q].op # "idle" => request[q].for \in Uploaders
        /\ request[q].op \in {"upload", "record", "restore"} => request[q].picture \in Pictures
        /\ request[q].op = "restore" => /\ request[q].offer \in Offers
                                        /\ offer[request[q].offer].picture = request[q].picture
                                        /\ offer[request[q].offer].state # "none"
OffersAreWhole ==
    \A o \in Offers : IF offer[o].state = "none" THEN offer[o].picture = NoPicture
                      ELSE offer[o].of \in Uploaders /\ offer[o].picture \in Pictures
NamesAreTaken ==
    \A p \in Pictures : disk[p] = "none" =>
        /\ \A m \in Uploaders : avatar[m] # p
        /\ \A o \in Offers : offer[o].picture # p
        /\ \A q \in Requests : request[q].picture # p
UploadsAreNew ==
    \A q \in Requests : request[q].op = "upload" =>
        /\ disk[request[q].picture] = "young"
        /\ \A m \in Uploaders : avatar[m] # request[q].picture
        /\ \A o \in Offers : offer[o].picture # request[q].picture
        /\ \A r \in Requests \ {q} : request[r].picture # request[q].picture
HeldIsOnDisk == \A p \in Pictures \ crossed : (Needed(p) \/ Carried(p)) => OnDisk(p)
SweepSpares ==
    \A p \in sweep.found \ crossed : disk[p] = "old" =>
        /\ sweep.pc = "users" => (Shown(p) \/ Carried(p) => p \in sweep.keep)
        /\ sweep.pc = "remove" => (Needed(p) \/ Carried(p) => p \in sweep.keep)

AvatarInv ==
    /\ AvatarTypeOK /\ RequestsAreWhole /\ OffersAreWhole /\ NamesAreTaken
    /\ UploadsAreNew /\ HeldIsOnDisk /\ SweepSpares

AvatarParts ==
    /\ avatar \in [Uploaders -> Pictures \cup {NoPicture}]
    /\ disk \in [Pictures -> {"none", "young", "old", "removed"}]
    /\ offer \in [Offers -> [state : {"none", "live", "used"}, expired : BOOLEAN,
                             of : Uploaders \cup {NoPicture}, picture : Pictures \cup {NoPicture}]]
    /\ sweep \in [pc : {"idle", "listed", "users", "remove"}, found : SUBSET Pictures, keep : SUBSET Pictures]
    /\ unvetted \subseteq Uploaders /\ crossed \subseteq Pictures
RequestShape ==
    request \in [Requests -> [op : {"idle", "upload", "clear", "record", "review", "restore"},
                              for : Uploaders \cup {NoPicture}, picture : Pictures \cup {NoPicture},
                              offer : Offers \cup {NoPicture}, moderator : BOOLEAN]]

LEMMA AvatarTypeParts == AvatarTypeOK <=> AvatarParts /\ RequestShape
BY DEF AvatarTypeOK, AvatarParts, RequestShape

\* A request takes up r, and the others go on.
LEMMA RequestTurns ==
    ASSUME RequestShape, NEW q \in Requests,
           NEW r \in [op : {"idle", "upload", "clear", "record", "review", "restore"},
                      for : Uploaders \cup {NoPicture}, picture : Pictures \cup {NoPicture},
                      offer : Offers \cup {NoPicture}, moderator : BOOLEAN],
           Become(q, r)
    PROVE  RequestShape' /\ request'[q] = r /\ \A x \in Requests \ {q} : request'[x] = request[x]
BY DEF RequestShape, Become

LEMMA IdlingIsIdle ==
    /\ Idling \in [op : {"idle", "upload", "clear", "record", "review", "restore"},
                   for : Uploaders \cup {NoPicture}, picture : Pictures \cup {NoPicture},
                   offer : Offers \cup {NoPicture}, moderator : BOOLEAN]
    /\ Idling.op = "idle" /\ Idling.picture = NoPicture
BY DEF Idling

LEMMA SavingAFileIsSafe ==
    ASSUME AvatarInv, NEW q \in Requests, NEW m \in Uploaders, NEW p \in Pictures, UploadSaves(q, m, p)
    PROVE  AvatarInv'
<1> DEFINE r == [Idling EXCEPT !.op = "upload", !.for = m, !.picture = p]
<1>1. /\ AvatarParts /\ RequestShape /\ RequestsAreWhole /\ OffersAreWhole /\ NamesAreTaken
      /\ UploadsAreNew /\ HeldIsOnDisk /\ SweepSpares
    BY AvatarTypeParts DEF AvatarInv
<1>2. /\ request[q].op = "idle" /\ disk[p] = "none" /\ Become(q, r)
      /\ disk' = [disk EXCEPT ![p] = "young"]
      /\ UNCHANGED <<avatar, offer, sweep, unvetted, crossed>>
    BY DEF UploadSaves
<1>3. /\ r \in [op : {"idle", "upload", "clear", "record", "review", "restore"},
                for : Uploaders \cup {NoPicture}, picture : Pictures \cup {NoPicture},
                offer : Offers \cup {NoPicture}, moderator : BOOLEAN]
      /\ r.op = "upload" /\ r.for = m /\ r.picture = p
    BY DEF Idling
<1> HIDE DEF r
<1>4. RequestShape' /\ request'[q] = r /\ \A x \in Requests \ {q} : request'[x] = request[x]
    BY <1>1, <1>2, <1>3, RequestTurns
<1>5. /\ AvatarParts' /\ disk'[p] = "young" /\ \A x \in Pictures \ {p} : disk'[x] = disk[x]
    BY <1>1, <1>2 DEF AvatarParts
<1>6. RequestsAreWhole' /\ OffersAreWhole' /\ NamesAreTaken'
    BY <1>1, <1>2, <1>3, <1>4, <1>5 DEF RequestsAreWhole, OffersAreWhole, NamesAreTaken
<1>7. UploadsAreNew'
    BY <1>1, <1>2, <1>3, <1>4, <1>5 DEF UploadsAreNew, NamesAreTaken
<1>8. \A x \in Pictures : /\ Carried(x)' => Carried(x)
                          /\ Needed(x)' <=> Needed(x)
                          /\ Shown(x)' <=> Shown(x)
                          /\ OnDisk(x) => OnDisk(x)'
    BY <1>2, <1>3, <1>4, <1>5 DEF Carried, Needed, Shown, OnDisk
<1>9. HeldIsOnDisk'
    BY <1>1, <1>2, <1>8 DEF HeldIsOnDisk
<1>10. SweepSpares'
    BY <1>1, <1>2, <1>5, <1>8 DEF SweepSpares, AvatarParts
<1> QED BY <1>4, <1>5, <1>6, <1>7, <1>9, <1>10, AvatarTypeParts DEF AvatarInv, AvatarTypeOK, AvatarParts, RequestShape

LEMMA ShowingAnUploadIsSafe ==
    ASSUME AvatarInv, NEW q \in Requests, UploadSets(q)
    PROVE  AvatarInv'
<1> DEFINE p == request[q].picture
           m == request[q].for
<1>1. /\ AvatarParts /\ RequestShape /\ RequestsAreWhole /\ OffersAreWhole /\ NamesAreTaken
      /\ UploadsAreNew /\ HeldIsOnDisk /\ SweepSpares
    BY AvatarTypeParts DEF AvatarInv
<1>2. /\ request[q].op = "upload" /\ Become(q, Idling)
      /\ avatar' = [avatar EXCEPT ![m] = p] /\ unvetted' = unvetted \cup {m}
      /\ UNCHANGED <<disk, offer, sweep, crossed>>
    BY DEF UploadSets, EndRequest
<1>3. /\ p \in Pictures /\ m \in Uploaders /\ p # NoPicture
      /\ disk[p] = "young" /\ \A x \in Requests \ {q} : request[x].picture # p
    BY <1>1, <1>2, AvatarAssumption DEF RequestsAreWhole, UploadsAreNew
<1> HIDE DEF p, m
<1>4. RequestShape' /\ request'[q] = Idling /\ \A x \in Requests \ {q} : request'[x] = request[x]
    BY <1>1, <1>2, IdlingIsIdle, RequestTurns
<1>5. AvatarParts' /\ avatar'[m] = p /\ \A x \in Uploaders \ {m} : avatar'[x] = avatar[x]
    BY <1>1, <1>2, <1>3 DEF AvatarParts
<1>6. RequestsAreWhole' /\ OffersAreWhole' /\ NamesAreTaken'
    BY <1>1, <1>2, <1>3, <1>4, <1>5, IdlingIsIdle, AvatarAssumption DEF RequestsAreWhole, OffersAreWhole, NamesAreTaken
<1>7. UploadsAreNew'
    BY <1>1, <1>2, <1>3, <1>4, <1>5, IdlingIsIdle, AvatarAssumption DEF UploadsAreNew, RequestsAreWhole
<1>8. /\ \A x \in Pictures \ {p} : /\ Carried(x)' => Carried(x)
                                   /\ Needed(x)' => Needed(x)
                                   /\ Shown(x)' => Shown(x)
      /\ \A x \in Pictures : OnDisk(x)' <=> OnDisk(x)
    BY <1>2, <1>3, <1>4, <1>5, IdlingIsIdle DEF Carried, Needed, Shown, OnDisk
<1>9. OnDisk(p)
    BY <1>3 DEF OnDisk
<1>10. HeldIsOnDisk'
    BY <1>1, <1>2, <1>8, <1>9 DEF HeldIsOnDisk
<1>11. SweepSpares'
    BY <1>1, <1>2, <1>3, <1>8 DEF SweepSpares, AvatarParts
<1> QED BY <1>4, <1>5, <1>6, <1>7, <1>10, <1>11 DEF AvatarInv, AvatarTypeOK, AvatarParts, RequestShape

LEMMA TakingAFileBackIsSafe ==
    ASSUME AvatarInv, NEW q \in Requests, NEW crash \in BOOLEAN, UploadFails(q, crash)
    PROVE  AvatarInv'
<1> DEFINE p == request[q].picture
<1>1. /\ AvatarParts /\ RequestShape /\ RequestsAreWhole /\ OffersAreWhole /\ NamesAreTaken
      /\ UploadsAreNew /\ HeldIsOnDisk /\ SweepSpares
    BY AvatarTypeParts DEF AvatarInv
<1>2. /\ request[q].op = "upload" /\ Become(q, Idling)
      /\ disk' = IF crash THEN disk ELSE [disk EXCEPT ![p] = "removed"]
      /\ UNCHANGED <<avatar, offer, sweep, unvetted, crossed>>
    BY DEF UploadFails, EndRequest
<1>3. /\ p \in Pictures /\ p # NoPicture
      /\ disk[p] = "young" /\ \A x \in Requests \ {q} : request[x].picture # p
      /\ \A m \in Uploaders : avatar[m] # p
      /\ \A o \in Offers : offer[o].picture # p
    BY <1>1, <1>2, AvatarAssumption DEF RequestsAreWhole, UploadsAreNew
<1> HIDE DEF p
<1>4. RequestShape' /\ request'[q] = Idling /\ \A x \in Requests \ {q} : request'[x] = request[x]
    BY <1>1, <1>2, IdlingIsIdle, RequestTurns
<1>5. /\ AvatarParts' /\ \A x \in Pictures \ {p} : disk'[x] = disk[x]
      /\ disk'[p] \in {"young", "removed"}
    BY <1>1, <1>2, <1>3 DEF AvatarParts
<1>6. RequestsAreWhole' /\ OffersAreWhole' /\ NamesAreTaken'
    BY <1>1, <1>2, <1>3, <1>4, <1>5, IdlingIsIdle, AvatarAssumption DEF RequestsAreWhole, OffersAreWhole, NamesAreTaken
<1>7. UploadsAreNew'
    BY <1>1, <1>2, <1>3, <1>4, <1>5, IdlingIsIdle, AvatarAssumption DEF UploadsAreNew, RequestsAreWhole
<1>8. /\ \A x \in Pictures : /\ Carried(x)' => Carried(x)
                             /\ Needed(x)' <=> Needed(x)
                             /\ Shown(x)' <=> Shown(x)
      /\ \A x \in Pictures \ {p} : OnDisk(x)' <=> OnDisk(x)
    BY <1>2, <1>4, <1>5, IdlingIsIdle DEF Carried, Needed, Shown, OnDisk
<1>9. ~Needed(p) /\ ~Carried(p)
    BY <1>2, <1>3 DEF Needed, Carried
<1>10. HeldIsOnDisk'
    BY <1>1, <1>2, <1>8, <1>9 DEF HeldIsOnDisk
<1>11. SweepSpares'
    BY <1>1, <1>2, <1>5, <1>8 DEF SweepSpares, AvatarParts
<1> QED BY <1>4, <1>5, <1>6, <1>7, <1>10, <1>11 DEF AvatarInv, AvatarTypeOK, AvatarParts, RequestShape

\* A step that leaves the files and the sweep alone, and holds nothing that was not held.
LEMMA HoldingNoMore ==
    ASSUME AvatarInv, UNCHANGED <<disk, sweep, crossed>>,
           \A p \in Pictures : /\ (Needed(p)' \/ Carried(p)') => (Needed(p) \/ Carried(p))
                               /\ (Shown(p)' \/ Carried(p)') => (Shown(p) \/ Carried(p))
    PROVE  HeldIsOnDisk' /\ SweepSpares'
<1>1. AvatarParts /\ HeldIsOnDisk /\ SweepSpares
    BY AvatarTypeParts DEF AvatarInv
<1>2. \A p \in Pictures : OnDisk(p)' <=> OnDisk(p)
    BY DEF OnDisk
<1>3. HeldIsOnDisk'
    BY <1>1, <1>2 DEF HeldIsOnDisk
<1>4. SweepSpares'
    BY <1>1 DEF SweepSpares, AvatarParts
<1> QED BY <1>3, <1>4

LEMMA ClearingStartsSafely ==
    ASSUME AvatarInv, NEW q \in Requests, NEW m \in Uploaders, NEW b \in BOOLEAN, ClearReads(q, m, b)
    PROVE  AvatarInv'
<1> DEFINE r == [Idling EXCEPT !.op = "clear", !.for = m, !.picture = avatar[m], !.moderator = b]
<1>1. AvatarParts /\ RequestShape /\ RequestsAreWhole /\ OffersAreWhole /\ NamesAreTaken /\ UploadsAreNew
    BY AvatarTypeParts DEF AvatarInv
<1>2. request[q].op = "idle" /\ Become(q, r) /\ UNCHANGED <<avatar, disk, offer, sweep, unvetted, crossed>>
    BY DEF ClearReads
<1>3. /\ r \in [op : {"idle", "upload", "clear", "record", "review", "restore"},
                for : Uploaders \cup {NoPicture}, picture : Pictures \cup {NoPicture},
                offer : Offers \cup {NoPicture}, moderator : BOOLEAN]
      /\ r.op = "clear" /\ r.for = m /\ r.picture = avatar[m]
    BY <1>1 DEF Idling, AvatarParts
<1> HIDE DEF r
<1>4. RequestShape' /\ request'[q] = r /\ \A x \in Requests \ {q} : request'[x] = request[x]
    BY <1>1, <1>2, <1>3, RequestTurns
<1>5. AvatarParts' /\ RequestsAreWhole' /\ OffersAreWhole' /\ NamesAreTaken'
    BY <1>1, <1>2, <1>3, <1>4 DEF AvatarParts, RequestsAreWhole, OffersAreWhole, NamesAreTaken
<1>6. UploadsAreNew'
    BY <1>1, <1>2, <1>3, <1>4 DEF UploadsAreNew
<1>7. \A p \in Pictures : /\ (Needed(p)' \/ Carried(p)') => (Needed(p) \/ Carried(p))
                          /\ (Shown(p)' \/ Carried(p)') => (Shown(p) \/ Carried(p))
    BY <1>2, <1>3, <1>4 DEF Needed, Carried, Shown
<1>8. HeldIsOnDisk' /\ SweepSpares'
    BY <1>2, <1>7, HoldingNoMore
<1> QED BY <1>4, <1>5, <1>6, <1>8 DEF AvatarInv, AvatarTypeOK, AvatarParts, RequestShape

\* What follows a request is idle, or a later step of it for the same picture.
LEMMA NextOfAClear ==
    ASSUME RequestShape, NEW q \in Requests, NEW op \in {"record", "review"}
    PROVE  LET r == [request[q] EXCEPT !.op = op] IN
           /\ r \in [op : {"idle", "upload", "clear", "record", "review", "restore"},
                     for : Uploaders \cup {NoPicture}, picture : Pictures \cup {NoPicture},
                     offer : Offers \cup {NoPicture}, moderator : BOOLEAN]
           /\ r.op = op /\ r.for = request[q].for /\ r.picture = request[q].picture
BY DEF RequestShape

LEMMA AClearMovesOn ==
    ASSUME AvatarInv, NEW q \in Requests,
           request[q].op \in {"clear", "record", "review"},
           NEW r \in [op : {"idle", "upload", "clear", "record", "review", "restore"},
                      for : Uploaders \cup {NoPicture}, picture : Pictures \cup {NoPicture},
                      offer : Offers \cup {NoPicture}, moderator : BOOLEAN],
           Become(q, r),
           \/ r = Idling
           \/ /\ r.op \in {"record", "review"} /\ r.for = request[q].for /\ r.picture = request[q].picture
              /\ r.op = "record" => r.picture # NoPicture /\ request[q].op # "review",
           UNCHANGED <<disk, offer, sweep, crossed>>,
           avatar' \in [Uploaders -> Pictures \cup {NoPicture}], unvetted' \subseteq Uploaders,
           \A m \in Uploaders : avatar'[m] \in {avatar[m], NoPicture}
    PROVE  AvatarInv'
<1>1. AvatarParts /\ RequestShape /\ RequestsAreWhole /\ OffersAreWhole /\ NamesAreTaken /\ UploadsAreNew
    BY AvatarTypeParts DEF AvatarInv
<1>2. RequestShape' /\ request'[q] = r /\ \A x \in Requests \ {q} : request'[x] = request[x]
    BY <1>1, RequestTurns
<1>3. r.picture \in Pictures => r.picture = request[q].picture /\ r.op # "idle"
    BY IdlingIsIdle, AvatarAssumption
<1>4. AvatarParts'
    BY <1>1 DEF AvatarParts
<1>5. r.op \in {"idle", "record", "review"}
    BY IdlingIsIdle
<1>6. r.op # "idle" => r.for \in Uploaders /\ (r.op = "record" => r.picture \in Pictures)
    BY <1>1, IdlingIsIdle DEF RequestsAreWhole, RequestShape
<1>7. RequestsAreWhole' /\ OffersAreWhole'
    BY <1>1, <1>2, <1>5, <1>6 DEF RequestsAreWhole, OffersAreWhole
<1>8. NamesAreTaken'
    BY <1>1, <1>2, <1>3, AvatarAssumption DEF NamesAreTaken
<1>9. UploadsAreNew'
    BY <1>1, <1>2, <1>3, <1>5, AvatarAssumption DEF UploadsAreNew, RequestsAreWhole
<1>10. \A p \in Pictures : Carried(p)' => Carried(p)
    <2> SUFFICES ASSUME NEW p \in Pictures, NEW x \in Requests,
                        request'[x].op \in {"clear", "record", "restore"}, request'[x].picture = p
                 PROVE  Carried(p)
        BY DEF Carried
    <2>1. CASE x = q
        <3>1. r.op = "record" /\ r.picture = p
            BY <2>1, <1>2, <1>5
        <3>2. request[q].op # "review" /\ request[q].picture = p
            BY <3>1, IdlingIsIdle
        <3>3. request[q].op \in {"clear", "record", "restore"}
            BY <3>2
        <3> QED BY <3>2, <3>3 DEF Carried
    <2>2. CASE x # q
        BY <2>2, <1>2 DEF Carried
    <2> QED BY <2>1, <2>2
<1>11. \A p \in Pictures : /\ (Needed(p)' \/ Carried(p)') => (Needed(p) \/ Carried(p))
                           /\ (Shown(p)' \/ Carried(p)') => (Shown(p) \/ Carried(p))
    BY <1>10, AvatarAssumption DEF Needed, Shown
<1>12. HeldIsOnDisk' /\ SweepSpares'
    BY <1>11, HoldingNoMore
<1> QED BY <1>2, <1>4, <1>7, <1>8, <1>9, <1>12 DEF AvatarInv, AvatarTypeOK, AvatarParts, RequestShape

LEMMA ClearingIsSafe ==
    ASSUME AvatarInv, NEW q \in Requests, ClearWrites(q) \/ ClearFails(q) \/ MarkReviewed(q)
    PROVE  AvatarInv'
<1>1. AvatarParts /\ RequestShape
    BY AvatarTypeParts DEF AvatarInv
<1>2. CASE ClearFails(q)
    <2>1. /\ request[q].op \in {"clear", "record", "review"} /\ Become(q, Idling)
          /\ UNCHANGED <<avatar, disk, offer, sweep, unvetted, crossed>>
        BY <1>2 DEF ClearFails, EndRequest
    <2>2. /\ avatar' \in [Uploaders -> Pictures \cup {NoPicture}] /\ unvetted' \subseteq Uploaders
          /\ \A m \in Uploaders : avatar'[m] \in {avatar[m], NoPicture}
        BY <1>1, <2>1 DEF AvatarParts
    <2> QED BY <2>1, <2>2, IdlingIsIdle, AClearMovesOn
<1>3. CASE MarkReviewed(q)
    <2>1. /\ request[q].op = "review" /\ Become(q, Idling) /\ unvetted' \subseteq unvetted
          /\ UNCHANGED <<avatar, disk, offer, sweep, crossed>>
        BY <1>3 DEF MarkReviewed, EndRequest
    <2>2. /\ avatar' \in [Uploaders -> Pictures \cup {NoPicture}] /\ unvetted' \subseteq Uploaders
          /\ \A m \in Uploaders : avatar'[m] \in {avatar[m], NoPicture}
        BY <1>1, <2>1 DEF AvatarParts
    <2> QED BY <2>1, <2>2, IdlingIsIdle, AClearMovesOn
<1>4. CASE ClearWrites(q)
    <2>1. /\ request[q].op = "clear"
          /\ avatar' = [avatar EXCEPT ![request[q].for] = NoPicture]
          /\ UNCHANGED <<disk, offer, sweep, unvetted, crossed>>
        BY <1>4 DEF ClearWrites
    <2>2. PICK r : /\ Become(q, r)
                   /\ \/ r = Idling
                      \/ r = [request[q] EXCEPT !.op = "review"]
                      \/ r = [request[q] EXCEPT !.op = "record"] /\ request[q].picture # NoPicture
        BY <1>4 DEF ClearWrites, AfterClear
    <2>3. /\ avatar' \in [Uploaders -> Pictures \cup {NoPicture}] /\ unvetted' \subseteq Uploaders
          /\ \A m \in Uploaders : avatar'[m] \in {avatar[m], NoPicture}
        BY <1>1, <2>1 DEF AvatarParts
    <2>4. CASE r = Idling
        BY <2>1, <2>2, <2>3, <2>4, IdlingIsIdle, AClearMovesOn
    <2>5. ASSUME NEW op \in {"record", "review"}, r = [request[q] EXCEPT !.op = op],
                 op = "record" => request[q].picture # NoPicture
          PROVE  AvatarInv'
        <3>1. /\ r \in [op : {"idle", "upload", "clear", "record", "review", "restore"},
                        for : Uploaders \cup {NoPicture}, picture : Pictures \cup {NoPicture},
                        offer : Offers \cup {NoPicture}, moderator : BOOLEAN]
              /\ r.op = op /\ r.for = request[q].for /\ r.picture = request[q].picture
            BY <1>1, <2>5, NextOfAClear
        <3> QED BY <2>1, <2>2, <2>3, <2>5, <3>1, AClearMovesOn
    <2> QED BY <2>2, <2>4, <2>5
<1> QED BY <1>2, <1>3, <1>4

LEMMA ApprovingIsSafe ==
    ASSUME AvatarInv, NEW m \in Uploaders, Approve(m)
    PROVE  AvatarInv'
<1>1. UNCHANGED <<avatar, disk, offer, request, sweep, crossed>> /\ unvetted' \subseteq unvetted
    BY DEF Approve
<1> QED BY <1>1 DEF AvatarInv, AvatarTypeOK, RequestsAreWhole, OffersAreWhole, NamesAreTaken, UploadsAreNew,
                    HeldIsOnDisk, SweepSpares, Needed, Carried, Shown, OnDisk

LEMMA RecordingIsSafe ==
    ASSUME AvatarInv, NEW q \in Requests, NEW o \in Offers, RecordUndo(q, o)
    PROVE  AvatarInv'
<1> DEFINE new == [state |-> "live", expired |-> FALSE, of |-> request[q].for, picture |-> request[q].picture]
           p == request[q].picture
<1>1. AvatarParts /\ RequestShape /\ RequestsAreWhole /\ OffersAreWhole /\ NamesAreTaken /\ UploadsAreNew
    BY AvatarTypeParts DEF AvatarInv
<1>2. /\ request[q].op = "record" /\ offer[o].state = "none"
      /\ offer' = [offer EXCEPT ![o] = new]
      /\ UNCHANGED <<avatar, disk, sweep, unvetted, crossed>>
    BY DEF RecordUndo
<1>3. /\ request[q].for \in Uploaders /\ p \in Pictures /\ p # NoPicture
    BY <1>1, <1>2, AvatarAssumption DEF RequestsAreWhole
<1>4. PICK r \in [op : {"idle", "upload", "clear", "record", "review", "restore"},
                  for : Uploaders \cup {NoPicture}, picture : Pictures \cup {NoPicture},
                  offer : Offers \cup {NoPicture}, moderator : BOOLEAN] :
               /\ Become(q, r)
               /\ r.op \in {"idle", "review"} /\ r.picture \in {NoPicture, p}
               /\ r.op = "review" => r.for \in Uploaders
    <2>1. CASE request[q].moderator
        <3>1. Become(q, [request[q] EXCEPT !.op = "review"])
            BY <2>1 DEF RecordUndo, AfterClear
        <3> QED BY <1>1, <1>3, <3>1, NextOfAClear
    <2>2. CASE ~request[q].moderator
        <3>1. Become(q, Idling)
            BY <2>2 DEF RecordUndo, AfterClear
        <3> QED BY <3>1, IdlingIsIdle
    <2> QED BY <2>1, <2>2
<1>5. RequestShape' /\ request'[q] = r /\ \A x \in Requests \ {q} : request'[x] = request[x]
    BY <1>1, <1>4, RequestTurns
<1>6. /\ new \in [state : {"none", "live", "used"}, expired : BOOLEAN,
                  of : Uploaders \cup {NoPicture}, picture : Pictures \cup {NoPicture}]
      /\ new.state = "live" /\ new.of = request[q].for /\ new.picture = p
    BY <1>3
<1> HIDE DEF new
<1>7. AvatarParts' /\ offer'[o] = new /\ \A x \in Offers \ {o} : offer'[x] = offer[x]
    BY <1>1, <1>2, <1>6 DEF AvatarParts
<1>8. RequestsAreWhole'
    BY <1>1, <1>2, <1>4, <1>5, <1>7 DEF RequestsAreWhole
<1>9. OffersAreWhole'
    BY <1>1, <1>3, <1>6, <1>7 DEF OffersAreWhole
<1>10. NamesAreTaken'
    BY <1>1, <1>2, <1>4, <1>5, <1>6, <1>7, AvatarAssumption DEF NamesAreTaken
<1>11. UploadsAreNew'
    BY <1>1, <1>2, <1>3, <1>4, <1>5, <1>6, <1>7, AvatarAssumption DEF UploadsAreNew, RequestsAreWhole
<1>12. /\ Carried(p) /\ \A x \in Pictures : Carried(x)' => Carried(x)
       /\ \A x \in Pictures : Shown(x)' <=> Shown(x)
       /\ \A x \in Pictures \ {p} : Needed(x)' => Needed(x)
    <2>1. Carried(p)
        BY <1>2 DEF Carried
    <2>2. \A x \in Pictures : Carried(x)' => Carried(x)
        BY <1>4, <1>5 DEF Carried
    <2>3. \A x \in Pictures : Shown(x)' <=> Shown(x)
        BY <1>2 DEF Shown
    <2>4. \A x \in Pictures \ {p} : Needed(x)' => Needed(x)
        BY <1>2, <1>6, <1>7 DEF Needed
    <2> QED BY <2>1, <2>2, <2>3, <2>4
<1>13. HeldIsOnDisk' /\ SweepSpares'
    BY <1>2, <1>12, HoldingNoMore
<1> QED BY <1>5, <1>7, <1>8, <1>9, <1>10, <1>11, <1>13 DEF AvatarInv, AvatarTypeOK, AvatarParts, RequestShape

LEMMA ClaimingIsSafe ==
    ASSUME AvatarInv, NEW q \in Requests, NEW o \in Offers, ClaimUndo(q, o)
    PROVE  AvatarInv'
<1> DEFINE r == [Idling EXCEPT !.op = "restore", !.for = offer[o].of, !.picture = offer[o].picture, !.offer = o]
           p == offer[o].picture
<1>1. /\ AvatarParts /\ RequestShape /\ RequestsAreWhole /\ OffersAreWhole /\ NamesAreTaken
      /\ UploadsAreNew /\ HeldIsOnDisk /\ SweepSpares
    BY AvatarTypeParts DEF AvatarInv
<1>2. /\ request[q].op = "idle" /\ offer[o].state = "live" /\ ~offer[o].expired
      /\ offer' = [offer EXCEPT ![o].state = "used"] /\ Become(q, r)
      /\ crossed' = IF sweep.pc = "users" THEN crossed \cup {p} ELSE crossed
      /\ UNCHANGED <<avatar, disk, sweep, unvetted>>
    BY DEF ClaimUndo
<1>3. p \in Pictures /\ offer[o].of \in Uploaders
    BY <1>1, <1>2 DEF OffersAreWhole
<1>4. /\ r \in [op : {"idle", "upload", "clear", "record", "review", "restore"},
                for : Uploaders \cup {NoPicture}, picture : Pictures \cup {NoPicture},
                offer : Offers \cup {NoPicture}, moderator : BOOLEAN]
      /\ r.op = "restore" /\ r.for = offer[o].of /\ r.picture = p /\ r.offer = o
    BY <1>3 DEF Idling
<1> HIDE DEF r
<1>5. RequestShape' /\ request'[q] = r /\ \A x \in Requests \ {q} : request'[x] = request[x]
    BY <1>1, <1>2, <1>4, RequestTurns
<1>6. /\ offer' \in [Offers -> [state : {"none", "live", "used"}, expired : BOOLEAN,
                                of : Uploaders \cup {NoPicture}, picture : Pictures \cup {NoPicture}]]
      /\ offer'[o].state = "used" /\ offer'[o].of = offer[o].of /\ offer'[o].picture = p
      /\ \A x \in Offers \ {o} : offer'[x] = offer[x]
    BY <1>1, <1>2 DEF AvatarParts
<1>7. AvatarParts'
    BY <1>1, <1>2, <1>3, <1>6 DEF AvatarParts
<1> HIDE DEF p
<1>8. \A x \in Offers : offer'[x].picture = offer[x].picture
    BY <1>6 DEF p
<1>9. RequestsAreWhole'
    BY <1>1, <1>2, <1>3, <1>4, <1>5, <1>6 DEF RequestsAreWhole
<1>10. OffersAreWhole'
    BY <1>1, <1>3, <1>6 DEF OffersAreWhole
<1>11. NamesAreTaken'
    BY <1>1, <1>2, <1>4, <1>5, <1>8 DEF NamesAreTaken, p
<1>12. UploadsAreNew'
    BY <1>1, <1>2, <1>3, <1>4, <1>5, <1>8 DEF UploadsAreNew, RequestsAreWhole, p
<1>13. /\ Needed(p) /\ p \in Pictures
       /\ \A x \in Pictures : Shown(x)' <=> Shown(x)
       /\ \A x \in Pictures : Needed(x)' => Needed(x)
       /\ \A x \in Pictures \ {p} : Carried(x)' => Carried(x)
       /\ \A x \in Pictures : OnDisk(x)' <=> OnDisk(x)
    <2>1. Needed(p)
        BY <1>2 DEF Needed, p
    <2>2. \A x \in Pictures : (Shown(x)' <=> Shown(x)) /\ (OnDisk(x)' <=> OnDisk(x))
        BY <1>2 DEF Shown, OnDisk
    <2>3. \A x \in Pictures : Needed(x)' => Needed(x)
        BY <1>2, <1>6 DEF Needed
    <2>4. \A x \in Pictures \ {p} : Carried(x)' => Carried(x)
        BY <1>2, <1>4, <1>5 DEF Carried
    <2> QED BY <1>3, <2>1, <2>2, <2>3, <2>4
<1>14. HeldIsOnDisk'
    BY <1>1, <1>2, <1>13 DEF HeldIsOnDisk
<1>15. SweepSpares'
    BY <1>1, <1>2, <1>13 DEF SweepSpares, AvatarParts
<1> QED BY <1>5, <1>7, <1>9, <1>10, <1>11, <1>12, <1>14, <1>15
        DEF AvatarInv, AvatarTypeOK, AvatarParts, RequestShape

LEMMA RestoringIsSafe ==
    ASSUME AvatarInv, NEW q \in Requests, Restore(q)
    PROVE  AvatarInv'
<1> DEFINE p == request[q].picture
           m == request[q].for
<1>1. AvatarParts /\ RequestShape /\ RequestsAreWhole /\ OffersAreWhole /\ NamesAreTaken /\ UploadsAreNew
    BY AvatarTypeParts DEF AvatarInv
<1>2. /\ request[q].op = "restore" /\ Become(q, Idling)
      /\ avatar' = [avatar EXCEPT ![m] = p] /\ unvetted' = unvetted \cup {m}
      /\ UNCHANGED <<disk, offer, sweep, crossed>>
    BY DEF Restore, EndRequest
<1>3. p \in Pictures /\ m \in Uploaders /\ Carried(p)
    BY <1>1, <1>2 DEF RequestsAreWhole, Carried
<1>4. RequestShape' /\ request'[q] = Idling /\ \A x \in Requests \ {q} : request'[x] = request[x]
    BY <1>1, <1>2, IdlingIsIdle, RequestTurns
<1>5. AvatarParts' /\ avatar'[m] = p /\ \A x \in Uploaders \ {m} : avatar'[x] = avatar[x]
    BY <1>1, <1>2, <1>3 DEF AvatarParts
<1>6. RequestsAreWhole' /\ OffersAreWhole' /\ NamesAreTaken'
    BY <1>1, <1>2, <1>3, <1>4, <1>5, IdlingIsIdle, AvatarAssumption DEF RequestsAreWhole, OffersAreWhole, NamesAreTaken
<1>7. UploadsAreNew'
    BY <1>1, <1>2, <1>3, <1>4, <1>5, IdlingIsIdle, AvatarAssumption DEF UploadsAreNew, RequestsAreWhole
<1>8. \A x \in Pictures : Carried(x)' => Carried(x)
    BY <1>4, IdlingIsIdle DEF Carried
<1> HIDE DEF p, m
<1>9. \A x \in Pictures \ {p} : (Needed(x)' => Needed(x)) /\ (Shown(x)' => Shown(x))
    BY <1>2, <1>5 DEF Needed, Shown
<1>10. HeldIsOnDisk' /\ SweepSpares'
    BY <1>2, <1>3, <1>8, <1>9, HoldingNoMore
<1> QED BY <1>4, <1>5, <1>6, <1>7, <1>10 DEF AvatarInv, AvatarTypeOK, AvatarParts, RequestShape

LEMMA PuttingAnOfferBackIsSafe ==
    ASSUME AvatarInv, NEW q \in Requests, NEW crash \in BOOLEAN, RestoreFails(q, crash)
    PROVE  AvatarInv'
<1> DEFINE o == request[q].offer
           p == request[q].picture
<1>1. AvatarParts /\ RequestShape /\ RequestsAreWhole /\ OffersAreWhole /\ NamesAreTaken /\ UploadsAreNew
    BY AvatarTypeParts DEF AvatarInv
<1>2. /\ request[q].op = "restore" /\ Become(q, Idling)
      /\ offer' = IF crash THEN offer ELSE [offer EXCEPT ![o].state = "live"]
      /\ UNCHANGED <<avatar, disk, sweep, unvetted, crossed>>
    BY DEF RestoreFails, EndRequest
<1>3. o \in Offers /\ offer[o].picture = p /\ offer[o].state # "none" /\ Carried(p)
    BY <1>1, <1>2 DEF RequestsAreWhole, Carried
<1> HIDE DEF o, p
<1>4. RequestShape' /\ request'[q] = Idling /\ \A x \in Requests \ {q} : request'[x] = request[x]
    BY <1>1, <1>2, IdlingIsIdle, RequestTurns
<1>5. /\ offer' \in [Offers -> [state : {"none", "live", "used"}, expired : BOOLEAN,
                                of : Uploaders \cup {NoPicture}, picture : Pictures \cup {NoPicture}]]
      /\ offer'[o].state # "none" /\ offer'[o].of = offer[o].of /\ offer'[o].picture = p
      /\ \A x \in Offers \ {o} : offer'[x] = offer[x]
    BY <1>1, <1>2, <1>3 DEF AvatarParts
<1>6. AvatarParts'
    BY <1>1, <1>2, <1>5 DEF AvatarParts
<1>7. \A x \in Offers : /\ offer'[x].picture = offer[x].picture /\ offer'[x].of = offer[x].of
                        /\ offer'[x].state = "none" <=> offer[x].state = "none"
    BY <1>3, <1>5
<1>8. RequestsAreWhole'
    BY <1>1, <1>4, <1>7, IdlingIsIdle DEF RequestsAreWhole
<1>9. OffersAreWhole'
    BY <1>1, <1>7 DEF OffersAreWhole
<1>10. NamesAreTaken'
    BY <1>1, <1>2, <1>4, <1>7, IdlingIsIdle, AvatarAssumption DEF NamesAreTaken
<1>11. UploadsAreNew'
    BY <1>1, <1>2, <1>4, <1>7, IdlingIsIdle, AvatarAssumption DEF UploadsAreNew, RequestsAreWhole
<1>12. \A x \in Pictures : (Carried(x)' => Carried(x)) /\ (Shown(x)' <=> Shown(x))
    BY <1>2, <1>4, IdlingIsIdle DEF Carried, Shown
<1>13. \A x \in Pictures \ {p} : Needed(x)' => Needed(x)
    BY <1>2, <1>3, <1>5 DEF Needed
<1>14. HeldIsOnDisk' /\ SweepSpares'
    BY <1>2, <1>3, <1>12, <1>13, HoldingNoMore
<1> QED BY <1>4, <1>6, <1>8, <1>9, <1>10, <1>11, <1>14 DEF AvatarInv, AvatarTypeOK, AvatarParts, RequestShape

LEMMA ExpiringIsSafe ==
    ASSUME AvatarInv, NEW o \in Offers, OfferExpires(o)
    PROVE  AvatarInv'
<1>1. AvatarParts /\ RequestShape /\ RequestsAreWhole /\ OffersAreWhole /\ NamesAreTaken /\ UploadsAreNew
    BY AvatarTypeParts DEF AvatarInv
<1>2. /\ offer' = [offer EXCEPT ![o].expired = TRUE]
      /\ UNCHANGED <<avatar, disk, request, sweep, unvetted, crossed>>
    BY DEF OfferExpires
<1>3. /\ offer' \in [Offers -> [state : {"none", "live", "used"}, expired : BOOLEAN,
                                of : Uploaders \cup {NoPicture}, picture : Pictures \cup {NoPicture}]]
      /\ \A x \in Offers : /\ offer'[x].picture = offer[x].picture /\ offer'[x].of = offer[x].of
                           /\ offer'[x].state = offer[x].state
      /\ offer'[o].expired = TRUE /\ \A x \in Offers \ {o} : offer'[x] = offer[x]
    BY <1>1, <1>2 DEF AvatarParts
<1>4. AvatarParts' /\ RequestShape'
    BY <1>1, <1>2, <1>3 DEF AvatarParts, RequestShape
<1>5. RequestsAreWhole' /\ OffersAreWhole' /\ NamesAreTaken' /\ UploadsAreNew'
    BY <1>1, <1>2, <1>3 DEF RequestsAreWhole, OffersAreWhole, NamesAreTaken, UploadsAreNew
<1>6. \A x \in Pictures : (Carried(x)' <=> Carried(x)) /\ (Shown(x)' <=> Shown(x)) /\ (Needed(x)' => Needed(x))
    BY <1>2, <1>3 DEF Carried, Shown, Needed
<1>7. HeldIsOnDisk' /\ SweepSpares'
    BY <1>2, <1>6, HoldingNoMore
<1> QED BY <1>4, <1>5, <1>7 DEF AvatarInv, AvatarTypeOK, AvatarParts, RequestShape

LEMMA AgeingIsSafe ==
    ASSUME AvatarInv, NEW p \in Pictures, PictureAges(p)
    PROVE  AvatarInv'
<1>1. /\ AvatarParts /\ RequestShape /\ RequestsAreWhole /\ OffersAreWhole /\ NamesAreTaken
      /\ UploadsAreNew /\ HeldIsOnDisk
    BY AvatarTypeParts DEF AvatarInv
<1>2. /\ disk[p] = "young" /\ sweep.pc = "idle" /\ disk' = [disk EXCEPT ![p] = "old"]
      /\ \A q \in Requests : request[q].op = "upload" => request[q].picture # p
      /\ UNCHANGED <<avatar, offer, request, sweep, unvetted, crossed>>
    BY DEF PictureAges
<1>3. AvatarParts' /\ RequestShape' /\ disk'[p] = "old" /\ \A x \in Pictures \ {p} : disk'[x] = disk[x]
    BY <1>1, <1>2 DEF AvatarParts, RequestShape
<1>4. RequestsAreWhole' /\ OffersAreWhole' /\ NamesAreTaken'
    BY <1>1, <1>2, <1>3 DEF RequestsAreWhole, OffersAreWhole, NamesAreTaken
<1>5. UploadsAreNew'
    BY <1>1, <1>2, <1>3 DEF UploadsAreNew, RequestsAreWhole
<1>6. \A x \in Pictures : (Carried(x)' <=> Carried(x)) /\ (Needed(x)' <=> Needed(x)) /\ (OnDisk(x) => OnDisk(x)')
    BY <1>2, <1>3 DEF Carried, Needed, OnDisk
<1>7. HeldIsOnDisk'
    BY <1>1, <1>2, <1>6 DEF HeldIsOnDisk
<1>8. SweepSpares'
    BY <1>2 DEF SweepSpares
<1> QED BY <1>3, <1>4, <1>5, <1>7, <1>8 DEF AvatarInv, AvatarTypeOK, AvatarParts, RequestShape

LEMMA SweepingIsSafe ==
    ASSUME AvatarInv, SweepLists \/ SweepReadsPaths \/ SweepReadsOffers \/ SweepEnds
    PROVE  AvatarInv'
<1>1. /\ AvatarParts /\ RequestShape /\ RequestsAreWhole /\ OffersAreWhole /\ NamesAreTaken
      /\ UploadsAreNew /\ HeldIsOnDisk /\ SweepSpares
    BY AvatarTypeParts DEF AvatarInv
<1>2. UNCHANGED <<avatar, disk, offer, request, unvetted>>
    BY DEF SweepLists, SweepReadsPaths, SweepReadsOffers, SweepEnds
<1>3. Changing \subseteq Pictures /\ \A p \in Pictures : Carried(p) => p \in Changing
    BY <1>1, AvatarAssumption DEF Changing, Carried, RequestShape
<1>4. OffersKept \subseteq Pictures
    BY <1>1 DEF OffersKept, OffersAreWhole
<1>5. crossed \subseteq crossed' /\ crossed' \subseteq Pictures
    BY <1>1, <1>3 DEF SweepLists, SweepReadsPaths, SweepReadsOffers, SweepEnds, AvatarParts
<1>6. sweep' \in [pc : {"idle", "listed", "users", "remove"}, found : SUBSET Pictures, keep : SUBSET Pictures]
    <2>1. CASE SweepLists
        BY <2>1 DEF SweepLists
    <2>2. CASE SweepReadsPaths
        <3>1. {avatar[m] : m \in Uploaders} \ {NoPicture} \subseteq Pictures
            BY <1>1 DEF AvatarParts
        <3>2. /\ sweep'.pc = "users" /\ sweep'.found = sweep.found
              /\ sweep'.keep = {avatar[m] : m \in Uploaders} \ {NoPicture}
              /\ sweep' = [pc |-> sweep'.pc, found |-> sweep'.found, keep |-> sweep'.keep]
            BY <1>1, <2>2 DEF SweepReadsPaths, AvatarParts
        <3>3. sweep.found \subseteq Pictures
            BY <1>1 DEF AvatarParts
        <3> QED BY <3>1, <3>2, <3>3
    <2>3. CASE SweepReadsOffers
        BY <1>1, <1>4, <2>3 DEF SweepReadsOffers, AvatarParts
    <2>4. CASE SweepEnds
        BY <2>4 DEF SweepEnds, NoSweep
    <2> QED BY <2>1, <2>2, <2>3, <2>4
<1>7. AvatarParts' /\ RequestShape' /\ RequestsAreWhole' /\ OffersAreWhole' /\ NamesAreTaken' /\ UploadsAreNew'
    BY <1>1, <1>2, <1>5, <1>6 DEF AvatarParts, RequestShape, RequestsAreWhole, OffersAreWhole,
                                  NamesAreTaken, UploadsAreNew
<1>8. \A p \in Pictures : /\ Carried(p)' <=> Carried(p)
                          /\ Needed(p)' <=> Needed(p)
                          /\ Shown(p)' <=> Shown(p)
                          /\ OnDisk(p)' <=> OnDisk(p)
    BY <1>2 DEF Carried, Needed, Shown, OnDisk
<1>9. HeldIsOnDisk'
    BY <1>1, <1>5, <1>8 DEF HeldIsOnDisk
<1>10. SweepSpares'
    <2>1. CASE SweepLists \/ SweepEnds
        <3>1. sweep'.pc \in {"idle", "listed"}
            BY <2>1 DEF SweepLists, SweepEnds, NoSweep
        <3> QED BY <3>1 DEF SweepSpares
    <2>2. CASE SweepReadsPaths
        <3>1. /\ sweep'.pc = "users" /\ sweep'.keep = {avatar[m] : m \in Uploaders} \ {NoPicture}
              /\ crossed' = crossed \cup Changing
            BY <1>1, <2>2 DEF SweepReadsPaths, AvatarParts
        <3>2. \A p \in Pictures : Shown(p) => p \in sweep'.keep
            BY <3>1, AvatarAssumption DEF Shown
        <3>3. \A p \in Pictures \ crossed' : ~Carried(p)
            BY <1>3, <3>1
        <3> QED BY <1>6, <1>8, <3>1, <3>2, <3>3 DEF SweepSpares
    <2>3. CASE SweepReadsOffers
        <3>1. /\ sweep'.pc = "remove" /\ sweep.pc = "users" /\ sweep'.keep = sweep.keep \cup OffersKept
              /\ sweep'.found = sweep.found /\ crossed' = crossed \cup Changing
            BY <1>1, <2>3 DEF SweepReadsOffers, AvatarParts
        <3>2. \A p \in Pictures : Needed(p) => Shown(p) \/ p \in OffersKept
            BY DEF Needed, Shown, OffersKept
        <3>3. \A p \in Pictures \ crossed' : ~Carried(p)
            BY <1>3, <3>1
        <3>4. \A p \in sweep.found \ crossed : (disk[p] = "old" /\ Shown(p)) => p \in sweep.keep
            BY <1>1, <3>1 DEF SweepSpares
        <3> QED BY <1>2, <1>5, <1>6, <1>8, <3>1, <3>2, <3>3, <3>4 DEF SweepSpares
    <2> QED BY <2>1, <2>2, <2>3
<1> QED BY <1>7, <1>9, <1>10 DEF AvatarInv, AvatarTypeOK, AvatarParts, RequestShape

LEMMA RemovingIsSafe ==
    ASSUME AvatarInv, NEW p \in Pictures, SweepRemoves(p)
    PROVE  AvatarInv'
<1>1. /\ AvatarParts /\ RequestShape /\ RequestsAreWhole /\ OffersAreWhole /\ NamesAreTaken
      /\ UploadsAreNew /\ HeldIsOnDisk /\ SweepSpares
    BY AvatarTypeParts DEF AvatarInv
<1>2. /\ sweep.pc = "remove" /\ p \in sweep.found \ sweep.keep /\ disk[p] = "old"
      /\ disk' = [disk EXCEPT ![p] = "removed"]
      /\ UNCHANGED <<avatar, offer, request, sweep, unvetted, crossed>>
    BY DEF SweepRemoves
<1>3. AvatarParts' /\ RequestShape' /\ disk'[p] = "removed" /\ \A x \in Pictures \ {p} : disk'[x] = disk[x]
    BY <1>1, <1>2 DEF AvatarParts, RequestShape
<1>4. RequestsAreWhole' /\ OffersAreWhole' /\ NamesAreTaken'
    BY <1>1, <1>2, <1>3 DEF RequestsAreWhole, OffersAreWhole, NamesAreTaken
<1>5. UploadsAreNew'
    BY <1>1, <1>2, <1>3 DEF UploadsAreNew, RequestsAreWhole
<1>6. /\ \A x \in Pictures : /\ Carried(x)' <=> Carried(x)
                             /\ Needed(x)' <=> Needed(x)
                             /\ Shown(x)' <=> Shown(x)
      /\ \A x \in Pictures \ {p} : OnDisk(x) => OnDisk(x)'
    BY <1>2, <1>3 DEF Carried, Needed, OnDisk, Shown
<1>7. p \notin crossed => ~Needed(p) /\ ~Carried(p)
    BY <1>1, <1>2 DEF SweepSpares
<1>8. HeldIsOnDisk'
    BY <1>1, <1>2, <1>6, <1>7 DEF HeldIsOnDisk
<1>9. SweepSpares'
    BY <1>1, <1>2, <1>3, <1>6 DEF SweepSpares, AvatarParts
<1> QED BY <1>3, <1>4, <1>5, <1>8, <1>9 DEF AvatarInv, AvatarTypeOK, AvatarParts, RequestShape

LEMMA AvatarInductive == AvatarSpec => []AvatarInv
<1>1. AvatarInit => AvatarInv
    <2> SUFFICES ASSUME AvatarInit PROVE AvatarInv
        OBVIOUS
    <2>1. AvatarParts
        BY DEF AvatarInit, AvatarParts, NoOffer, NoSweep
    <2>2. RequestShape
        BY IdlingIsIdle DEF AvatarInit, RequestShape
    <2>3. RequestsAreWhole /\ UploadsAreNew
        BY IdlingIsIdle DEF AvatarInit, RequestsAreWhole, UploadsAreNew
    <2>4. OffersAreWhole /\ NamesAreTaken
        BY IdlingIsIdle, AvatarAssumption DEF AvatarInit, OffersAreWhole, NamesAreTaken, NoOffer
    <2>5. HeldIsOnDisk /\ SweepSpares
        BY IdlingIsIdle, AvatarAssumption DEF AvatarInit, HeldIsOnDisk, SweepSpares, Needed, Carried, NoOffer, NoSweep
    <2> QED BY <2>1, <2>2, <2>3, <2>4, <2>5, AvatarTypeParts DEF AvatarInv
<1>2. AvatarInv /\ [AvatarNext]_avatarVars => AvatarInv'
    <2> SUFFICES ASSUME AvatarInv, [AvatarNext]_avatarVars PROVE AvatarInv'
        OBVIOUS
    <2>1. CASE SweepLists \/ SweepReadsPaths \/ SweepReadsOffers \/ SweepEnds
        BY <2>1, SweepingIsSafe
    <2>2. ASSUME NEW p \in Pictures, PictureAges(p) \/ SweepRemoves(p) PROVE AvatarInv'
        BY <2>2, AgeingIsSafe, RemovingIsSafe
    <2>3. ASSUME NEW o \in Offers, OfferExpires(o) PROVE AvatarInv'
        BY <2>3, ExpiringIsSafe
    <2>4. ASSUME NEW m \in Uploaders, Approve(m) PROVE AvatarInv'
        BY <2>4, ApprovingIsSafe
    <2>5. ASSUME NEW q \in Requests, NEW m \in Uploaders, NEW p \in Pictures, UploadSaves(q, m, p) PROVE AvatarInv'
        BY <2>5, SavingAFileIsSafe
    <2>6. ASSUME NEW q \in Requests, NEW m \in Uploaders, NEW b \in BOOLEAN, ClearReads(q, m, b) PROVE AvatarInv'
        BY <2>6, ClearingStartsSafely
    <2>7. ASSUME NEW q \in Requests, NEW o \in Offers, RecordUndo(q, o) \/ ClaimUndo(q, o) PROVE AvatarInv'
        BY <2>7, RecordingIsSafe, ClaimingIsSafe
    <2>8. ASSUME NEW q \in Requests, NEW crash \in BOOLEAN, UploadFails(q, crash) \/ RestoreFails(q, crash)
          PROVE  AvatarInv'
        BY <2>8, TakingAFileBackIsSafe, PuttingAnOfferBackIsSafe
    <2>9. ASSUME NEW q \in Requests, UploadSets(q) \/ Restore(q) PROVE AvatarInv'
        BY <2>9, ShowingAnUploadIsSafe, RestoringIsSafe
    <2>10. ASSUME NEW q \in Requests, ClearWrites(q) \/ ClearFails(q) \/ MarkReviewed(q) PROVE AvatarInv'
        BY <2>10, ClearingIsSafe
    <2>11. CASE UNCHANGED avatarVars
        BY <2>11 DEF avatarVars, AvatarInv, AvatarTypeOK, RequestsAreWhole, OffersAreWhole, NamesAreTaken,
                     UploadsAreNew, HeldIsOnDisk, SweepSpares, Needed, Carried, Shown, OnDisk
    <2> QED BY <2>1, <2>2, <2>3, <2>4, <2>5, <2>6, <2>7, <2>8, <2>9, <2>10, <2>11 DEF AvatarNext
<1> QED BY <1>1, <1>2, PTL DEF AvatarSpec

\* Type correctness of the paths, the files, the offers and the requests.
THEOREM AvatarTypeCorrect == AvatarSpec => []AvatarTypeOK
<1>1. AvatarInv => AvatarTypeOK
    BY DEF AvatarInv
<1> QED BY <1>1, AvatarInductive, PTL

\* For every number of members, pictures, offers and requests at once: the sweep takes no
\* file that a member shows or an undo can still bring back, unless that picture was
\* being cleared or restored as the sweep read (sweepAvatars).
THEOREM SweptIsSpare == AvatarSpec => []SweptIsUnneeded
<1>1. AvatarInv => SweptIsUnneeded
    BY DEF AvatarInv, HeldIsOnDisk, SweptIsUnneeded
<1> QED BY <1>1, AvatarInductive, PTL

(***************************************************************************)
(* Seeding points.  The time a member was paid for, and the time the runs  *)
(* under way are going to pay them for, is what the last recorded run      *)
(* allows; a run that is lost or overlaps costs one catch-up more.  A      *)
(* fraction is in the table, or a run is carrying it; one that two runs    *)
(* carry costs less than a point.                                          *)
(***************************************************************************)
RunsInOrder ==
    /\ \A r \in Runs :
          /\ payout[r].elapsed <= CatchUp
          /\ payout[r].pc # "idle" => payout[r].economy \in Economies
          /\ payout[r].pc # "pay" => payout[r].todo = {} /\ payout[r].saving = {}
          /\ \A s \in payout[r].saving : s \notin payout[r].todo /\ payout[r].saving = {s}
    /\ lastRun # Never => lastRun <= now

TimeOf(r, s) == IF payout[r].pc = "read" \/ s \in payout[r].todo THEN payout[r].elapsed ELSE 0
PendingTime(s) == Total([r \in Runs |-> TimeOf(r, s)], Runs)
Recorded == IF lastRun = Never THEN 0 ELSE lastRun + Interval
Extra(n) == n * CatchUp

TimeIsBounded ==
    \A s \in Seeders :
        /\ covered[s] + PendingTime(s) <= now + Interval + Extra(mishaps)
        /\ covered[s] + PendingTime(s) <= Recorded + Extra(mishaps + 1)
        /\ ~Busy => covered[s] + PendingTime(s) <= Recorded + Extra(mishaps)

CarriedBy(r, s) == IF payout[r].pc = "read" THEN Unit - 1
                   ELSE IF s \in payout[r].todo THEN payout[r].carry[s]
                   ELSE IF s \in payout[r].saving THEN AwardCarry(r, s) ELSE 0
CarriedOf(s) == Total([r \in Runs |-> CarriedBy(r, s)], Runs)
InHand(s) == \E r \in Runs : s \in payout[r].todo \cup payout[r].saving
Lost(n) == n * (Unit - 1)
Got(s) == paid[s] * Unit

FractionsAreCounted ==
    \A s \in Seeders :
        /\ ~Owing(s) => Got(s) + fraction[s] <= due[s] + Lost(mishaps)
        /\ InHand(s) => Got(s) + CarriedOf(s) <= due[s] + Lost(mishaps)
        /\ ~InHand(s) => Got(s) + fraction[s] + CarriedOf(s) <= due[s] + Lost(mishaps + 1)

FractionsAreExact ==
    mishaps = 0 =>
        /\ \A r, q \in Runs : (payout[r].pc # "idle" /\ payout[q].pc # "idle") => r = q
        /\ \A s \in Seeders \ capped :
              /\ ~Owing(s) => Got(s) + fraction[s] = due[s]
              /\ \A r \in Runs : /\ s \in payout[r].todo => payout[r].carry[s] = fraction[s]
                                 /\ s \in payout[r].saving => Got(s) + AwardCarry(r, s) = due[s]

SeedShape == SeedTypeOK /\ RunsInOrder
SeedInv == SeedShape /\ TimeIsBounded /\ FractionsAreCounted /\ FractionsAreExact

LEMMA LostAdds ==
    ASSUME NEW n \in Nat
    PROVE  /\ Lost(n) \in Nat /\ Lost(n + 1) = Lost(n) + (Unit - 1) /\ Unit - 1 \in Nat
           /\ Lost(0) = 0
BY SeedAssumption DEF Lost

LEMMA ExtraAdds ==
    ASSUME NEW n \in Nat
    PROVE  Extra(n) \in Nat /\ Extra(n + 1) = Extra(n) + CatchUp /\ CatchUp \in Nat /\ Interval <= CatchUp
BY SeedAssumption DEF Extra, CatchUp

\* What a run pays a member, and the fraction it leaves, are what they earned and the
\* fraction they had; at the cap, no more than that.
LEMMA AwardAdds ==
    ASSUME SeedShape, NEW r \in Runs, NEW s \in Seeders, payout[r].pc # "idle"
    PROVE  /\ Earned(r, s) \in Nat /\ CapThisRun(r) \in Nat
           /\ AmountWithoutCarry(r, s) \in Nat
           /\ AwardPoints(r, s) \in Nat /\ AwardCarry(r, s) \in 0 .. Unit - 1
           /\ AwardPoints(r, s) * Unit + AwardCarry(r, s) <= AmountWithoutCarry(r, s) + payout[r].carry[s]
           /\ ~IsCapped(r, s) => AwardPoints(r, s) * Unit + AwardCarry(r, s) = AmountWithoutCarry(r, s) + payout[r].carry[s]
<1>1. /\ payout[r].economy \in Economies /\ payout[r].elapsed \in Nat
      /\ payout[r].carry \in [Seeders -> 0 .. Unit - 1]
    BY DEF SeedShape, SeedTypeOK, RunsInOrder, Payouts
<1>2. Rate[payout[r].economy][s] \in Nat /\ CapRate \in Nat /\ Unit \in Nat /\ Unit # 0
    BY <1>1, SeedAssumption
<1>3. Earned(r, s) \in Nat /\ CapThisRun(r) \in Nat
    BY <1>1, <1>2 DEF Earned, CapThisRun
<1>4. payout[r].carry[s] \in Nat /\ payout[r].carry[s] \in 0 .. Unit - 1
    BY <1>1
<1>5. \A a \in Nat : /\ a \div Unit \in Nat /\ (a % Unit) \in 0 .. Unit - 1
                     /\ (a \div Unit) * Unit + (a % Unit) = a
    BY <1>2
<1> DEFINE c == payout[r].carry[s]
           a == Amount(r, s)
           e == AmountWithoutCarry(r, s)
<1>6. CASE IsCapped(r, s)
    <2>1. a = CapThisRun(r) /\ e = CapThisRun(r) /\ AwardCarry(r, s) = 0 /\ AwardPoints(r, s) = a \div Unit
        BY <1>6 DEF Amount, AmountWithoutCarry, AwardCarry, AwardPoints
    <2>2. a \in Nat
        BY <1>3, <2>1
    <2>3. a \div Unit \in Nat /\ (a % Unit) \in 0 .. Unit - 1 /\ (a \div Unit) * Unit + (a % Unit) = a
        BY <1>5, <2>2
    <2>4. (a \div Unit) * Unit \in Nat /\ 0 \in 0 .. Unit - 1
        BY <1>2, <2>3
    <2> QED BY <1>3, <1>4, <1>6, <2>1, <2>2, <2>3, <2>4
<1>7. CASE ~IsCapped(r, s)
    <2>1. /\ a = e + c /\ e = Earned(r, s)
          /\ AwardCarry(r, s) = a % Unit /\ AwardPoints(r, s) = a \div Unit
        BY <1>7 DEF Amount, AmountWithoutCarry, AwardCarry, AwardPoints
    <2>2. a \in Nat
        BY <1>3, <1>4, <2>1
    <2>3. a \div Unit \in Nat /\ (a % Unit) \in 0 .. Unit - 1 /\ (a \div Unit) * Unit + (a % Unit) = a
        BY <1>5, <2>2
    <2>4. AwardPoints(r, s) * Unit + AwardCarry(r, s) = e + c
        BY <2>1, <2>3
    <2> QED BY <1>3, <1>4, <2>1, <2>2, <2>3, <2>4
<1> QED BY <1>6, <1>7

NaturalTerms ==
    \A r \in Runs, s \in Seeders : TimeOf(r, s) \in 0 .. CatchUp /\ CarriedBy(r, s) \in 0 .. Unit - 1
LEMMA TermsAreNatural == SeedShape => NaturalTerms
<1> SUFFICES ASSUME SeedShape, NEW r \in Runs, NEW s \in Seeders
             PROVE  TimeOf(r, s) \in 0 .. CatchUp /\ CarriedBy(r, s) \in 0 .. Unit - 1
    BY DEF NaturalTerms
<1>1. /\ payout[r].elapsed \in 0 .. CatchUp /\ payout[r].carry[s] \in 0 .. Unit - 1
      /\ payout[r].pc = "idle" => s \notin payout[r].saving
    BY ExtraAdds DEF SeedShape, SeedTypeOK, RunsInOrder, Payouts
<1>2. s \in payout[r].saving => AwardCarry(r, s) \in 0 .. Unit - 1
    BY <1>1, AwardAdds
<1>3. 0 \in 0 .. CatchUp /\ 0 \in 0 .. Unit - 1 /\ Unit - 1 \in 0 .. Unit - 1
    BY SeedAssumption, ExtraAdds, LostAdds
<1> QED BY <1>1, <1>2, <1>3 DEF TimeOf, CarriedBy

\* One run takes a step: the sums move by what it had and has.
LEMMA OneRunTurns ==
    ASSUME SeedShape, SeedShape', NEW r \in Runs, \A q \in Runs \ {r} : payout'[q] = payout[q],
           NEW s \in Seeders
    PROVE  /\ PendingTime(s) \in Nat /\ PendingTime(s)' \in Nat /\ TimeOf(r, s) \in Nat /\ TimeOf(r, s)' \in Nat
           /\ PendingTime(s)' = PendingTime(s) + (TimeOf(r, s)' - TimeOf(r, s))
           /\ CarriedOf(s) \in Nat /\ CarriedOf(s)' \in Nat /\ CarriedBy(r, s) \in Nat /\ CarriedBy(r, s)' \in Nat
           /\ CarriedOf(s)' = CarriedOf(s) + (CarriedBy(r, s)' - CarriedBy(r, s))
           /\ CarriedBy(r, s) <= CarriedOf(s)
<1> DEFINE tf == [q \in Runs |-> TimeOf(q, s)]
           th == [q \in Runs |-> TimeOf(q, s)']
           cf == [q \in Runs |-> CarriedBy(q, s)]
           ch == [q \in Runs |-> CarriedBy(q, s)']
<1>1. \A q \in Runs : TimeOf(q, s) \in Nat /\ CarriedBy(q, s) \in Nat
    BY TermsAreNatural DEF NaturalTerms
<1>2. \A q \in Runs : TimeOf(q, s)' \in Nat /\ CarriedBy(q, s)' \in Nat
    <2>1. SeedShape' => NaturalTerms'
        BY TermsAreNatural, PTL
    <2> QED BY <2>1 DEF NaturalTerms
<1>3. \A q \in Runs \ {r} : TimeOf(q, s)' = TimeOf(q, s) /\ CarriedBy(q, s)' = CarriedBy(q, s)
    BY DEF TimeOf, CarriedBy, AwardCarry, Amount, IsCapped, Earned, CapThisRun
<1>4. /\ tf \in [Runs -> Nat] /\ th \in [Runs -> Nat] /\ cf \in [Runs -> Nat] /\ ch \in [Runs -> Nat]
      /\ tf[r] = TimeOf(r, s) /\ th[r] = TimeOf(r, s)' /\ cf[r] = CarriedBy(r, s) /\ ch[r] = CarriedBy(r, s)'
      /\ \A q \in Runs : q # r => th[q] = tf[q] /\ ch[q] = cf[q]
    BY <1>1, <1>2, <1>3
<1>5. /\ PendingTime(s) = Total(tf, Runs) /\ PendingTime(s)' = Total(th, Runs)
      /\ CarriedOf(s) = Total(cf, Runs) /\ CarriedOf(s)' = Total(ch, Runs)
    BY DEF PendingTime, CarriedOf
<1> HIDE DEF tf, th, cf, ch
<1>6. IsFiniteSet(Runs)
    BY SeedAssumption
<1>7. /\ Total(tf, Runs) \in Nat /\ Total(th, Runs) \in Nat
      /\ Total(cf, Runs) \in Nat /\ Total(ch, Runs) \in Nat /\ cf[r] <= Total(cf, Runs)
    BY <1>4, <1>6, TotalOfNaturals
<1>8. \A f \in [Runs -> Nat] : f \in [Runs -> Int]
    OBVIOUS
<1>9. Total(th, Runs) = Total(tf, Runs) + (th[r] - tf[r])
    BY <1>4, <1>6, <1>8, TotalChanges
<1>10. Total(ch, Runs) = Total(cf, Runs) + (ch[r] - cf[r])
    BY <1>4, <1>6, <1>8, TotalChanges
<1> QED BY <1>4, <1>5, <1>7, <1>9, <1>10

(***************************************************************************)
(* What each step leaves of the shape, and what it does to the run.        *)
(***************************************************************************)
SeedSharing == UNCHANGED <<now, economy, lastRun, fraction, paid, due, covered, capped>>

LEMMA BeginShape ==
    ASSUME SeedShape, NEW r \in Runs, NEW marker \in {lastRun, Never}, Begin(r, marker)
    PROVE  /\ SeedShape' /\ SeedSharing
           /\ payout[r].pc = "idle" /\ payout'[r].pc = "read" /\ payout'[r].elapsed = Elapsed(marker)
           /\ payout[r].todo = {} /\ payout[r].saving = {} /\ payout'[r].todo = {} /\ payout'[r].saving = {}
           /\ \A q \in Runs \ {r} : payout'[q] = payout[q]
           /\ Elapsed(marker) \in 0 .. CatchUp
           /\ marker = Never => Elapsed(marker) = Interval
           /\ marker # Never => Elapsed(marker) <= now - lastRun
           /\ mishaps' = mishaps + ((IF Busy THEN 1 ELSE 0) + (IF marker # lastRun THEN 1 ELSE 0))
<1> DEFINE e == Elapsed(marker)
           b == [payout[r] EXCEPT !.pc = "read", !.economy = economy, !.elapsed = e]
<1>1. /\ payout[r].pc = "idle" /\ economy \in Economies /\ SeedSharing
      /\ payout' = [payout EXCEPT ![r] = b]
      /\ mishaps' = mishaps + ((IF Busy THEN 1 ELSE 0) + (IF marker # lastRun THEN 1 ELSE 0))
      /\ mishaps' <= MaxMishaps
    BY DEF Begin, Mishap, SeedSharing, SeedShape, SeedTypeOK
<1>2. /\ Elapsed(marker) \in 0 .. CatchUp
      /\ marker = Never => Elapsed(marker) = Interval
      /\ marker # Never => Elapsed(marker) <= now - lastRun
    <2>1. Interval \in 0 .. CatchUp
        BY SeedAssumption, ExtraAdds
    <2>2. CASE marker = Never
        BY <2>1, <2>2 DEF Elapsed
    <2>3. CASE marker # Never
        <3>1. marker = lastRun /\ now \in Nat /\ lastRun \in Nat /\ lastRun <= now
            BY <2>3 DEF SeedShape, SeedTypeOK, RunsInOrder
        <3>2. CatchUp \in Nat
            BY ExtraAdds
        <3>3. Elapsed(marker) = IF now - lastRun > CatchUp THEN CatchUp ELSE now - lastRun
            BY <2>3, <3>1 DEF Elapsed, Clamped
        <3> QED BY <2>3, <3>1, <3>2, <3>3
    <2> QED BY <2>2, <2>3
<1>3. payout \in [Runs -> Payouts]
    BY DEF SeedShape, SeedTypeOK
<1>4. e \in Nat /\ e <= CatchUp
    BY <1>2, ExtraAdds
<1> HIDE DEF e
<1>5. /\ b \in Payouts /\ b.pc = "read" /\ b.economy = economy /\ b.elapsed = e
      /\ b.todo = payout[r].todo /\ b.saving = payout[r].saving
    BY <1>1, <1>3, <1>4 DEF Payouts
<1> HIDE DEF b
<1>6. payout' \in [Runs -> Payouts] /\ payout'[r] = b /\ \A q \in Runs \ {r} : payout'[q] = payout[q]
    BY <1>1, <1>3, <1>5
<1>7. payout[r].todo = {} /\ payout[r].saving = {}
    BY <1>1 DEF SeedShape, RunsInOrder
<1>8. RunsInOrder'
    BY <1>1, <1>4, <1>5, <1>6, <1>7 DEF SeedShape, RunsInOrder, SeedSharing, CatchUp
<1>9. mishaps' \in 0 .. MaxMishaps
    BY <1>1, SeedAssumption DEF SeedShape, SeedTypeOK
<1>10. SeedTypeOK'
    BY <1>1, <1>6, <1>9 DEF SeedShape, SeedTypeOK, SeedSharing, Payouts
<1> QED BY <1>1, <1>2, <1>5, <1>6, <1>7, <1>8, <1>10 DEF e, SeedShape

LEMMA ReadShape ==
    ASSUME SeedShape, NEW r \in Runs, NEW missed \in BOOLEAN, ReadCarry(r, missed)
    PROVE  /\ SeedShape' /\ SeedSharing
           /\ payout[r].pc = "read" /\ payout'[r].pc = "pay" /\ payout'[r].elapsed = payout[r].elapsed
           /\ payout[r].todo = {} /\ payout[r].saving = {} /\ payout'[r].saving = {}
           /\ \A q \in Runs \ {r} : payout'[q] = payout[q]
           /\ IF missed THEN mishaps' = mishaps + 1 ELSE mishaps' = mishaps /\ payout'[r].carry = fraction
           /\ \A s \in Seeders : payout'[r].carry[s] \in {0, fraction[s]}
<1> DEFINE c == IF missed THEN [s \in Seeders |-> 0] ELSE fraction
           w == Awarded(r)
           b == [payout[r] EXCEPT !.pc = "pay", !.todo = w, !.carry = c]
<1>1. /\ payout[r].pc = "read" /\ SeedSharing /\ payout' = [payout EXCEPT ![r] = b]
      /\ mishaps' = mishaps + (IF missed THEN 1 ELSE 0) /\ mishaps' <= MaxMishaps
    BY DEF ReadCarry, Mishap, SeedSharing
<1>2. fraction \in [Seeders -> 0 .. Unit - 1] /\ mishaps \in Nat /\ payout \in [Runs -> Payouts]
    BY SeedAssumption DEF SeedShape, SeedTypeOK
<1>3. c \in [Seeders -> 0 .. Unit - 1] /\ \A s \in Seeders : c[s] \in {0, fraction[s]}
    <2>1. 0 \in 0 .. Unit - 1
        BY SeedAssumption
    <2> QED BY <1>2, <2>1
<1>4. (c = fraction \/ missed) /\ w \in SUBSET Seeders
    BY DEF Awarded
<1> HIDE DEF c, w
<1>5. /\ b \in Payouts /\ b.pc = "pay" /\ b.economy = payout[r].economy /\ b.elapsed = payout[r].elapsed
      /\ b.todo = w /\ b.saving = payout[r].saving /\ b.carry = c
    BY <1>2, <1>3, <1>4 DEF Payouts
<1> HIDE DEF b
<1>6. payout' \in [Runs -> Payouts] /\ payout'[r] = b /\ \A q \in Runs \ {r} : payout'[q] = payout[q]
    BY <1>1, <1>2, <1>5
<1>7. payout[r].todo = {} /\ payout[r].saving = {}
    BY <1>1 DEF SeedShape, RunsInOrder
<1>8. RunsInOrder'
    BY <1>1, <1>5, <1>6, <1>7 DEF SeedShape, RunsInOrder, SeedSharing, CatchUp
<1>9. mishaps' \in 0 .. MaxMishaps
    BY <1>1, <1>2, SeedAssumption
<1>10. SeedTypeOK'
    BY <1>1, <1>6, <1>9 DEF SeedShape, SeedTypeOK, SeedSharing, Payouts
<1>11. IF missed THEN mishaps' = mishaps + 1 ELSE mishaps' = mishaps /\ payout'[r].carry = fraction
    BY <1>1, <1>2, <1>4, <1>5, <1>6
<1> QED BY <1>1, <1>3, <1>5, <1>6, <1>7, <1>8, <1>10, <1>11 DEF SeedShape

\* A run that is paying has fewer members left to credit and to save for.
Turned(r, todo, saving) ==
    /\ payout'[r].pc = "pay" /\ payout'[r].elapsed = payout[r].elapsed /\ payout'[r].economy = payout[r].economy
    /\ payout'[r].carry = payout[r].carry /\ payout'[r].todo = todo /\ payout'[r].saving = saving
    /\ \A q \in Runs \ {r} : payout'[q] = payout[q]

LEMMA PayShape ==
    ASSUME SeedShape, NEW r \in Runs, payout[r].pc = "pay", NEW x \in Seeders, lastRun' = lastRun, now' = now,
           NEW todo, NEW saving, NEW b \in Payouts, b.pc = "pay", b.elapsed = payout[r].elapsed,
           b.economy = payout[r].economy, b.carry = payout[r].carry, b.todo = todo, b.saving = saving,
           todo \subseteq payout[r].todo, saving = {} \/ (saving = {x} /\ x \notin todo),
           payout' = [payout EXCEPT ![r] = b]
    PROVE  RunsInOrder' /\ payout' \in [Runs -> Payouts] /\ Turned(r, todo, saving)
<1>1. payout \in [Runs -> Payouts]
    BY DEF SeedShape, SeedTypeOK
<1>2. payout' \in [Runs -> Payouts] /\ payout'[r] = b /\ \A q \in Runs \ {r} : payout'[q] = payout[q]
    BY <1>1
<1>3. RunsInOrder'
    BY <1>2 DEF SeedShape, RunsInOrder, CatchUp
<1> QED BY <1>2, <1>3 DEF Turned

LEMMA EndShape ==
    ASSUME SeedShape, NEW r \in Runs, payout' = [payout EXCEPT ![r] = NoRun],
           (lastRun' # Never) => lastRun' <= now'
    PROVE  /\ RunsInOrder' /\ payout' \in [Runs -> Payouts]
           /\ payout'[r].pc = "idle" /\ payout'[r].todo = {} /\ payout'[r].saving = {}
           /\ \A q \in Runs \ {r} : payout'[q] = payout[q]
<1>1. payout \in [Runs -> Payouts]
    BY DEF SeedShape, SeedTypeOK
<1>2. NoRun \in Payouts /\ NoRun.pc = "idle" /\ NoRun.elapsed = 0 /\ NoRun.todo = {} /\ NoRun.saving = {}
    <2>1. 0 \in 0 .. Unit - 1
        BY SeedAssumption
    <2>2. [s \in Seeders |-> 0] \in [Seeders -> 0 .. Unit - 1]
        BY <2>1
    <2> QED BY <2>2 DEF NoRun, Payouts
<1>3. /\ payout'[r] = NoRun /\ \A q \in Runs \ {r} : payout'[q] = payout[q]
      /\ payout' \in [Runs -> Payouts]
    BY <1>1, <1>2
<1>4. RunsInOrder'
    BY <1>2, <1>3, ExtraAdds DEF SeedShape, RunsInOrder
<1> QED BY <1>2, <1>3, <1>4

(***************************************************************************)
(* The time that is paid for.                                              *)
(***************************************************************************)
NaturalTimes ==
    /\ now \in Nat /\ Interval \in Nat /\ CatchUp \in Nat /\ mishaps \in Nat /\ Recorded \in Nat
    /\ \A s \in Seeders : covered[s] \in Nat
LEMMA TimesAreNatural == SeedShape => NaturalTimes
<1> SUFFICES ASSUME SeedShape PROVE NaturalTimes
    OBVIOUS
<1>1. now \in Nat /\ mishaps \in Nat /\ \A s \in Seeders : covered[s] \in Nat
    BY SeedAssumption DEF SeedShape, SeedTypeOK
<1>2. Interval \in Nat /\ CatchUp \in Nat
    BY SeedAssumption DEF CatchUp
<1>3. lastRun # Never => lastRun \in Nat
    BY SeedAssumption DEF SeedShape, SeedTypeOK
<1>4. Recorded \in Nat
    BY <1>2, <1>3 DEF Recorded
<1> QED BY <1>1, <1>2, <1>4 DEF NaturalTimes

\* More mishaps allow no less.
LEMMA ExtraGrows ==
    ASSUME NEW n \in Nat, NEW k \in 0 .. 2
    PROVE  /\ Extra(n) \in Nat /\ Extra(n + k) \in Nat /\ Extra(n + k + 1) \in Nat
           /\ Extra(n) <= Extra(n + k) /\ Extra(n + 1) <= Extra(n + k + 1)
           /\ k > 0 => /\ Extra(n) + CatchUp <= Extra(n + k)
                       /\ Extra(n + 1) + CatchUp <= Extra(n + k + 1)
           /\ Extra(n + 1) = Extra(n) + CatchUp
<1>1. Extra(n) \in Nat /\ Extra(n + 1) = Extra(n) + CatchUp /\ CatchUp \in Nat
    BY ExtraAdds
<1>2. Extra(n + 1) \in Nat /\ Extra(n + 1 + 1) = Extra(n + 1) + CatchUp
    BY <1>1, ExtraAdds
<1>3. Extra(n + 2) \in Nat /\ Extra(n + 2 + 1) = Extra(n + 2) + CatchUp /\ n + 1 + 1 = n + 2
    BY <1>1, ExtraAdds
<1>4. n + 0 = n
    OBVIOUS
<1>5. CASE k = 0
    BY <1>1, <1>2, <1>4, <1>5
<1>6. CASE k = 1
    BY <1>1, <1>2, <1>6
<1>7. CASE k = 2
    BY <1>1, <1>2, <1>3, <1>7
<1> QED BY <1>5, <1>6, <1>7

\* A run that is under way pays no time but what it had taken on.
LEMMA PayingKeepsTime ==
    ASSUME SeedShape, SeedShape', TimeIsBounded, NEW r \in Runs, \A q \in Runs \ {r} : payout'[q] = payout[q],
           now' = now, lastRun' = lastRun, payout'[r].pc # "idle", mishaps' = mishaps \/ mishaps' = mishaps + 1,
           \A s \in Seeders : covered'[s] + TimeOf(r, s)' <= covered[s] + TimeOf(r, s)
    PROVE  TimeIsBounded'
<1> SUFFICES ASSUME NEW s \in Seeders
             PROVE  /\ covered'[s] + PendingTime(s)' <= now' + Interval + Extra(mishaps')
                    /\ covered'[s] + PendingTime(s)' <= Recorded' + Extra(mishaps' + 1)
                    /\ Busy'
    BY DEF TimeIsBounded, Extra
<1>1. /\ PendingTime(s) \in Nat /\ PendingTime(s)' \in Nat /\ TimeOf(r, s) \in Nat /\ TimeOf(r, s)' \in Nat
      /\ PendingTime(s)' = PendingTime(s) + (TimeOf(r, s)' - TimeOf(r, s))
    BY OneRunTurns
<1>2. NaturalTimes /\ NaturalTimes'
    BY TimesAreNatural, PTL
<1>3. /\ covered[s] + PendingTime(s) <= now + Interval + Extra(mishaps)
      /\ covered[s] + PendingTime(s) <= Recorded + Extra(mishaps + 1)
    BY DEF TimeIsBounded
<1>4. Recorded' = Recorded /\ Recorded \in Nat /\ Interval \in Nat /\ now \in Nat
    BY <1>2 DEF Recorded, NaturalTimes
<1>5. covered[s] \in Nat /\ covered'[s] \in Nat /\ mishaps \in Nat
    BY <1>2 DEF NaturalTimes
<1>6. /\ Extra(mishaps) \in Nat /\ Extra(mishaps') \in Nat /\ Extra(mishaps + 1) \in Nat /\ Extra(mishaps' + 1) \in Nat
      /\ Extra(mishaps) <= Extra(mishaps') /\ Extra(mishaps + 1) <= Extra(mishaps' + 1)
    <2>1. CASE mishaps' = mishaps
        BY <1>5, <2>1, ExtraAdds
    <2>2. CASE mishaps' = mishaps + 1
        <3>1. mishaps \in Nat /\ mishaps + 1 \in Nat
            BY <1>5
        <3>2. Extra(mishaps) \in Nat /\ Extra(mishaps + 1) = Extra(mishaps) + CatchUp /\ CatchUp \in Nat
            BY <3>1, ExtraAdds
        <3>3. Extra(mishaps + 1) \in Nat /\ Extra(mishaps + 1 + 1) = Extra(mishaps + 1) + CatchUp
            BY <3>1, ExtraAdds
        <3>4. Extra(mishaps + 1 + 1) \in Nat
            BY <3>2, <3>3
        <3>5. Extra(mishaps) <= Extra(mishaps + 1) /\ Extra(mishaps + 1) <= Extra(mishaps + 1 + 1)
            BY <3>2, <3>3
        <3> QED BY <2>2, <3>2, <3>3, <3>4, <3>5
    <2> QED BY <2>1, <2>2
<1>7. covered'[s] + PendingTime(s)' <= covered[s] + PendingTime(s)
    BY <1>1, <1>5
<1>8. Busy'
    BY DEF Busy
<1> QED BY <1>1, <1>3, <1>4, <1>5, <1>6, <1>7, <1>8

LEMMA BeginKeepsTime ==
    ASSUME SeedShape, TimeIsBounded, NEW r \in Runs, NEW marker \in {lastRun, Never}, Begin(r, marker)
    PROVE  TimeIsBounded'
<1>1. /\ SeedShape' /\ SeedSharing
      /\ payout[r].pc = "idle" /\ payout'[r].pc = "read" /\ payout'[r].elapsed = Elapsed(marker)
      /\ payout[r].todo = {} /\ \A q \in Runs \ {r} : payout'[q] = payout[q]
      /\ Elapsed(marker) \in 0 .. CatchUp
      /\ marker = Never => Elapsed(marker) = Interval
      /\ marker # Never => Elapsed(marker) <= now - lastRun
      /\ mishaps' = mishaps + ((IF Busy THEN 1 ELSE 0) + (IF marker # lastRun THEN 1 ELSE 0))
    BY BeginShape
<1> DEFINE e == Elapsed(marker)
           k == (IF Busy THEN 1 ELSE 0) + (IF marker # lastRun THEN 1 ELSE 0)
<1>2. k \in 0 .. 2 /\ mishaps' = mishaps + k /\ (k = 0 => ~Busy /\ marker = lastRun)
    BY <1>1
<1>3. NaturalTimes
    BY TimesAreNatural
<1>4. now \in Nat /\ Interval \in Nat /\ CatchUp \in Nat /\ mishaps \in Nat /\ Recorded \in Nat
    BY <1>3 DEF NaturalTimes
<1>5. e \in Nat /\ e <= CatchUp
    BY <1>1, <1>4
<1> HIDE DEF k
<1> SUFFICES ASSUME NEW s \in Seeders
             PROVE  /\ covered'[s] + PendingTime(s)' <= now' + Interval + Extra(mishaps')
                    /\ covered'[s] + PendingTime(s)' <= Recorded' + Extra(mishaps' + 1)
                    /\ Busy'
    BY DEF TimeIsBounded, Extra
<1>6. TimeOf(r, s) = 0 /\ TimeOf(r, s)' = e
    BY <1>1 DEF TimeOf
<1>7. PendingTime(s) \in Nat /\ PendingTime(s)' = PendingTime(s) + e
    <2>1. PendingTime(s) \in Nat /\ PendingTime(s)' = PendingTime(s) + (TimeOf(r, s)' - TimeOf(r, s))
        BY <1>1, OneRunTurns
    <2> QED BY <1>5, <1>6, <2>1
<1>8. covered[s] \in Nat /\ covered' = covered /\ now' = now /\ Recorded' = Recorded
    BY <1>1, <1>3 DEF NaturalTimes, SeedSharing, Recorded
<1>9. /\ covered[s] + PendingTime(s) <= now + Interval + Extra(mishaps)
      /\ covered[s] + PendingTime(s) <= Recorded + Extra(mishaps + 1)
      /\ ~Busy => covered[s] + PendingTime(s) <= Recorded + Extra(mishaps)
    BY DEF TimeIsBounded
<1>10. Busy'
    BY <1>1 DEF Busy
<1>11. /\ Extra(mishaps) \in Nat /\ Extra(mishaps + k) \in Nat /\ Extra(mishaps + k + 1) \in Nat
       /\ k > 0 => /\ Extra(mishaps) + CatchUp <= Extra(mishaps + k)
                   /\ Extra(mishaps + 1) + CatchUp <= Extra(mishaps + k + 1)
       /\ Extra(mishaps + 1) = Extra(mishaps) + CatchUp
    BY <1>2, <1>4, ExtraGrows
<1> HIDE DEF e
<1>12. CASE k > 0
    BY <1>2, <1>4, <1>5, <1>7, <1>8, <1>9, <1>10, <1>11, <1>12
<1>13. CASE k = 0
    <2>1. ~Busy /\ marker = lastRun /\ mishaps' = mishaps
        BY <1>2, <1>4, <1>13
    <2>2. Recorded + e <= now + Interval
        BY <1>1, <1>4, <1>5, <2>1, SeedAssumption DEF Recorded, e, SeedShape, SeedTypeOK
    <2> QED BY <1>4, <1>5, <1>7, <1>8, <1>9, <1>10, <1>11, <2>1, <2>2
<1> QED BY <1>2, <1>12, <1>13

\* A run that ends took everything on that it is recorded for; one that is lost
\* may be paid for again.
LEMMA EndingKeepsTime ==
    ASSUME SeedShape, SeedShape', TimeIsBounded, NEW r \in Runs, \A q \in Runs \ {r} : payout'[q] = payout[q],
           payout'[r].pc = "idle", payout'[r].todo = {}, now' = now, covered' = covered,
           \/ lastRun' = now /\ mishaps' = mishaps
           \/ lastRun' = lastRun /\ mishaps' = mishaps + 1
    PROVE  TimeIsBounded'
<1> SUFFICES ASSUME NEW s \in Seeders
             PROVE  /\ covered'[s] + PendingTime(s)' <= now' + Interval + Extra(mishaps')
                    /\ covered'[s] + PendingTime(s)' <= Recorded' + Extra(mishaps' + 1)
                    /\ covered'[s] + PendingTime(s)' <= Recorded' + Extra(mishaps')
    BY DEF TimeIsBounded, Extra
<1>1. TimeOf(r, s)' = 0
    BY DEF TimeOf
<1>2. PendingTime(s) \in Nat /\ PendingTime(s)' \in Nat /\ PendingTime(s)' <= PendingTime(s)
    <2>1. /\ PendingTime(s) \in Nat /\ PendingTime(s)' \in Nat /\ TimeOf(r, s) \in Nat
          /\ PendingTime(s)' = PendingTime(s) + (TimeOf(r, s)' - TimeOf(r, s))
        BY OneRunTurns
    <2> QED BY <1>1, <2>1
<1>3. NaturalTimes
    BY TimesAreNatural
<1>4. /\ now \in Nat /\ Interval \in Nat /\ CatchUp \in Nat /\ mishaps \in Nat /\ Recorded \in Nat
      /\ covered[s] \in Nat
    BY <1>3 DEF NaturalTimes
<1>5. /\ covered[s] + PendingTime(s) <= now + Interval + Extra(mishaps)
      /\ covered[s] + PendingTime(s) <= Recorded + Extra(mishaps + 1)
    BY DEF TimeIsBounded
<1>6. /\ Extra(mishaps) \in Nat /\ Extra(mishaps + 1) \in Nat /\ Extra(mishaps + 1 + 1) \in Nat
      /\ Extra(mishaps) <= Extra(mishaps + 1) /\ Extra(mishaps + 1) <= Extra(mishaps + 1 + 1)
    <2>1. mishaps \in Nat /\ 1 \in 0 .. 2
        BY <1>4
    <2> QED BY <2>1, ExtraGrows
<1>7. CASE lastRun' = now /\ mishaps' = mishaps
    <2>1. Recorded' = now + Interval
        BY <1>7, SeedAssumption DEF Recorded, SeedShape, SeedTypeOK
    <2> QED BY <1>2, <1>4, <1>5, <1>6, <1>7, <2>1
<1>8. CASE lastRun' = lastRun /\ mishaps' = mishaps + 1
    <2>1. Recorded' = Recorded
        BY <1>8 DEF Recorded
    <2> QED BY <1>2, <1>4, <1>5, <1>6, <1>8, <2>1
<1> QED BY <1>7, <1>8

(***************************************************************************)
(* The fractions.                                                          *)
(***************************************************************************)
NaturalFractions ==
    /\ Unit - 1 \in Nat /\ mishaps \in Nat
    /\ \A s \in Seeders : /\ fraction[s] \in Nat /\ fraction[s] <= Unit - 1
                          /\ paid[s] \in Nat /\ Got(s) \in Nat /\ due[s] \in Nat
LEMMA FractionsAreNatural == SeedShape => NaturalFractions
<1> SUFFICES ASSUME SeedShape PROVE NaturalFractions
    OBVIOUS
<1>1. Unit - 1 \in Nat /\ Unit \in Nat
    BY SeedAssumption
<1>2. /\ fraction \in [Seeders -> 0 .. Unit - 1] /\ paid \in [Seeders -> Nat] /\ due \in [Seeders -> Nat]
      /\ mishaps \in Nat
    BY SeedAssumption DEF SeedShape, SeedTypeOK
<1>3. \A s \in Seeders : Got(s) \in Nat
    BY <1>1, <1>2 DEF Got
<1> QED BY <1>1, <1>2, <1>3 DEF NaturalFractions

LEMMA LostGrows ==
    ASSUME NEW n \in Nat, NEW k \in 0 .. 2
    PROVE  /\ Lost(n) \in Nat /\ Lost(n + k) \in Nat /\ Lost(n + k + 1) \in Nat
           /\ Lost(n) <= Lost(n + k) /\ Lost(n + 1) <= Lost(n + k + 1)
           /\ k > 0 => /\ Lost(n) + (Unit - 1) <= Lost(n + k)
                       /\ Lost(n + 1) + (Unit - 1) <= Lost(n + k + 1)
           /\ Lost(n + 1) = Lost(n) + (Unit - 1)
<1>1. Lost(n) \in Nat /\ Lost(n + 1) = Lost(n) + (Unit - 1) /\ Unit - 1 \in Nat
    BY LostAdds
<1>2. Lost(n + 1) \in Nat /\ Lost(n + 1 + 1) = Lost(n + 1) + (Unit - 1)
    BY <1>1, LostAdds
<1>3. Lost(n + 2) \in Nat /\ Lost(n + 2 + 1) = Lost(n + 2) + (Unit - 1) /\ n + 1 + 1 = n + 2
    BY <1>1, LostAdds
<1>4. n + 0 = n
    OBVIOUS
<1>5. CASE k = 0
    BY <1>1, <1>2, <1>4, <1>5
<1>6. CASE k = 1
    BY <1>1, <1>2, <1>6
<1>7. CASE k = 2
    BY <1>1, <1>2, <1>3, <1>7
<1> QED BY <1>5, <1>6, <1>7

\* Who is owed a carry, or is in a run's hands, when one run takes a step.
LEMMA HandsTurn ==
    ASSUME NEW r \in Runs, \A q \in Runs \ {r} : payout'[q] = payout[q], NEW s \in Seeders
    PROVE  /\ Owing(s) <=> (s \in payout[r].saving \/ \E q \in Runs \ {r} : s \in payout[q].saving)
           /\ Owing(s)' <=> (s \in payout'[r].saving \/ \E q \in Runs \ {r} : s \in payout[q].saving)
           /\ InHand(s) <=> (s \in payout[r].todo \cup payout[r].saving
                              \/ \E q \in Runs \ {r} : s \in payout[q].todo \cup payout[q].saving)
           /\ InHand(s)' <=> (s \in payout'[r].todo \cup payout'[r].saving
                               \/ \E q \in Runs \ {r} : s \in payout[q].todo \cup payout[q].saving)
BY DEF Owing, InHand

\* A run that lets go of members: those it had credited cost a mishap.
LEMMA LettingGoKeepsFractions ==
    ASSUME SeedShape, SeedShape', FractionsAreCounted, NEW r \in Runs, \A q \in Runs \ {r} : payout'[q] = payout[q],
           UNCHANGED <<paid, due, fraction>>, payout[r].pc = "pay", payout'[r].pc # "read",
           payout'[r].todo \subseteq payout[r].todo, payout'[r].saving \subseteq payout[r].saving,
           payout'[r].pc = "pay" => /\ payout'[r].carry = payout[r].carry /\ payout'[r].economy = payout[r].economy
                                    /\ payout'[r].elapsed = payout[r].elapsed,
           \/ mishaps' = mishaps /\ payout'[r].saving = payout[r].saving
           \/ mishaps' = mishaps + 1
    PROVE  FractionsAreCounted'
<1> SUFFICES ASSUME NEW s \in Seeders
             PROVE  /\ ~Owing(s)' => Got(s)' + fraction'[s] <= due'[s] + Lost(mishaps')
                    /\ InHand(s)' => Got(s)' + CarriedOf(s)' <= due'[s] + Lost(mishaps')
                    /\ ~InHand(s)' => Got(s)' + fraction'[s] + CarriedOf(s)' <= due'[s] + Lost(mishaps' + 1)
    BY DEF FractionsAreCounted, Lost
<1>1. NaturalFractions
    BY FractionsAreNatural
<1>2. /\ mishaps \in Nat /\ Unit - 1 \in Nat /\ fraction[s] \in Nat /\ fraction[s] <= Unit - 1
      /\ Got(s) \in Nat /\ due[s] \in Nat
    BY <1>1 DEF NaturalFractions
<1>3. Got(s)' = Got(s) /\ fraction'[s] = fraction[s] /\ due'[s] = due[s]
    BY DEF Got
<1>4. CarriedBy(r, s)' <= CarriedBy(r, s)
    <2>1. NaturalTerms
        BY TermsAreNatural
    <2>2. CarriedBy(r, s) \in Nat
        BY <2>1 DEF NaturalTerms
    <2>3. CASE payout'[r].pc = "pay"
        <3>1. AwardCarry(r, s)' = AwardCarry(r, s)
            BY <2>3 DEF AwardCarry, Amount, IsCapped, Earned, CapThisRun
        <3>2. CASE s \in payout'[r].todo
            BY <2>2, <2>3, <3>2 DEF CarriedBy
        <3>3. CASE s \in payout'[r].saving /\ s \notin payout'[r].todo
            <4>1. s \in payout[r].saving /\ s \notin payout[r].todo
                BY <3>3 DEF SeedShape, RunsInOrder
            <4> QED BY <2>2, <2>3, <3>1, <3>3, <4>1 DEF CarriedBy
        <3>4. CASE s \notin payout'[r].saving /\ s \notin payout'[r].todo
            BY <2>2, <2>3, <3>4 DEF CarriedBy
        <3> QED BY <3>2, <3>3, <3>4
    <2>4. CASE payout'[r].pc # "pay"
        <3>1. payout'[r].todo = {} /\ payout'[r].saving = {}
            BY <2>4 DEF SeedShape, RunsInOrder
        <3> QED BY <2>2, <3>1 DEF CarriedBy
    <2> QED BY <2>3, <2>4
<1>5. CarriedOf(s) \in Nat /\ CarriedOf(s)' \in Nat /\ CarriedOf(s)' <= CarriedOf(s)
    <2>1. /\ CarriedOf(s) \in Nat /\ CarriedOf(s)' \in Nat /\ CarriedBy(r, s) \in Nat /\ CarriedBy(r, s)' \in Nat
          /\ CarriedOf(s)' = CarriedOf(s) + (CarriedBy(r, s)' - CarriedBy(r, s))
        BY OneRunTurns
    <2> QED BY <1>4, <2>1
<1>6. /\ InHand(s)' => InHand(s)
      /\ Owing(s) => InHand(s)
      /\ Owing(s) /\ ~Owing(s)' => mishaps' = mishaps + 1
    BY HandsTurn
<1>7. /\ Lost(mishaps) \in Nat /\ Lost(mishaps') \in Nat /\ Lost(mishaps + 1) \in Nat /\ Lost(mishaps' + 1) \in Nat
      /\ Lost(mishaps) <= Lost(mishaps') /\ Lost(mishaps + 1) <= Lost(mishaps' + 1)
      /\ Lost(mishaps + 1) = Lost(mishaps) + (Unit - 1)
    <2>1. /\ Lost(mishaps) \in Nat /\ Lost(mishaps + 1) \in Nat /\ Lost(mishaps + 1 + 1) \in Nat
          /\ Lost(mishaps) <= Lost(mishaps + 1) /\ Lost(mishaps + 1) <= Lost(mishaps + 1 + 1)
          /\ Lost(mishaps + 1) = Lost(mishaps) + (Unit - 1)
        <3>1. mishaps \in Nat /\ 1 \in 0 .. 2
            BY <1>2
        <3> QED BY <3>1, LostGrows
    <2> QED BY <2>1
<1>8. /\ ~Owing(s) => Got(s) + fraction[s] <= due[s] + Lost(mishaps)
      /\ InHand(s) => Got(s) + CarriedOf(s) <= due[s] + Lost(mishaps)
      /\ ~InHand(s) => Got(s) + fraction[s] + CarriedOf(s) <= due[s] + Lost(mishaps + 1)
    BY DEF FractionsAreCounted
<1>9. ~Owing(s)' => Got(s) + fraction[s] <= due[s] + Lost(mishaps')
    <2>1. CASE ~Owing(s)
        BY <1>2, <1>7, <1>8, <2>1
    <2>2. CASE Owing(s) /\ ~Owing(s)'
        BY <1>2, <1>5, <1>6, <1>7, <1>8, <2>2
    <2> QED BY <2>1, <2>2
<1>10. InHand(s)' => Got(s) + CarriedOf(s)' <= due[s] + Lost(mishaps')
    BY <1>2, <1>5, <1>6, <1>7, <1>8
<1>11. ~InHand(s)' => Got(s) + fraction[s] + CarriedOf(s)' <= due[s] + Lost(mishaps' + 1)
    <2>1. CASE InHand(s)
        BY <1>2, <1>5, <1>7, <1>8, <2>1
    <2>2. CASE ~InHand(s)
        BY <1>2, <1>5, <1>7, <1>8, <2>2
    <2> QED BY <2>1, <2>2
<1> QED BY <1>3, <1>9, <1>10, <1>11

\* No run is under way: no fraction is carried.
LEMMA IdleCarriesNothing ==
    ASSUME SeedShape, ~Busy, NEW s \in Seeders
    PROVE  CarriedOf(s) = 0
<1>1. \A r \in Runs : CarriedBy(r, s) = 0
    BY DEF Busy, CarriedBy, SeedShape, RunsInOrder
<1>2. CarriedOf(s) = Total([r \in Runs |-> 0], Runs)
    BY <1>1 DEF CarriedOf
<1>3. IsFiniteSet(Runs) /\ 0 \in Nat
    BY SeedAssumption
<1>4. Total([r \in Runs |-> 0], Runs) = 0 * Cardinality(Runs) /\ Cardinality(Runs) \in Nat
    BY <1>3, TotalOfConstant, FS_CardinalityType
<1> QED BY <1>2, <1>4

LEMMA IdleTakesNoTime ==
    ASSUME SeedShape, ~Busy, NEW s \in Seeders
    PROVE  PendingTime(s) = 0
<1>1. \A r \in Runs : TimeOf(r, s) = 0
    BY DEF Busy, TimeOf, SeedShape, RunsInOrder
<1>2. PendingTime(s) = Total([r \in Runs |-> 0], Runs)
    BY <1>1 DEF PendingTime
<1>3. IsFiniteSet(Runs) /\ 0 \in Nat
    BY SeedAssumption
<1>4. Total([r \in Runs |-> 0], Runs) = 0 * Cardinality(Runs) /\ Cardinality(Runs) \in Nat
    BY <1>3, TotalOfConstant, FS_CardinalityType
<1> QED BY <1>2, <1>4

LEMMA PendingIsNatural ==
    ASSUME SeedShape, NEW s \in Seeders
    PROVE  PendingTime(s) \in Nat
<1> DEFINE f == [r \in Runs |-> TimeOf(r, s)]
<1>1. NaturalTerms
    BY TermsAreNatural
<1>2. f \in [Runs -> Nat] /\ IsFiniteSet(Runs) /\ PendingTime(s) = Total(f, Runs)
    BY <1>1, SeedAssumption DEF NaturalTerms, PendingTime
<1> HIDE DEF f
<1> QED BY <1>2, TotalOfNaturals

LEMMA BeginKeepsFractions ==
    ASSUME SeedShape, FractionsAreCounted, NEW r \in Runs, NEW marker \in {lastRun, Never}, Begin(r, marker)
    PROVE  FractionsAreCounted'
<1>1. /\ SeedShape' /\ SeedSharing /\ payout[r].pc = "idle" /\ payout'[r].pc = "read"
      /\ payout[r].todo = {} /\ payout[r].saving = {} /\ payout'[r].todo = {} /\ payout'[r].saving = {}
      /\ \A q \in Runs \ {r} : payout'[q] = payout[q]
      /\ mishaps' = mishaps + ((IF Busy THEN 1 ELSE 0) + (IF marker # lastRun THEN 1 ELSE 0))
    BY BeginShape
<1> DEFINE k == (IF Busy THEN 1 ELSE 0) + (IF marker # lastRun THEN 1 ELSE 0)
<1>2. k \in 0 .. 2 /\ mishaps' = mishaps + k /\ (k = 0 => ~Busy)
    BY <1>1
<1> HIDE DEF k
<1> SUFFICES ASSUME NEW s \in Seeders
             PROVE  /\ ~Owing(s)' => Got(s)' + fraction'[s] <= due'[s] + Lost(mishaps')
                    /\ InHand(s)' => Got(s)' + CarriedOf(s)' <= due'[s] + Lost(mishaps')
                    /\ ~InHand(s)' => Got(s)' + fraction'[s] + CarriedOf(s)' <= due'[s] + Lost(mishaps' + 1)
    BY DEF FractionsAreCounted, Lost
<1>3. /\ mishaps \in Nat /\ Unit - 1 \in Nat /\ fraction[s] \in Nat /\ fraction[s] <= Unit - 1
      /\ Got(s) \in Nat /\ due[s] \in Nat
    <2>1. NaturalFractions
        BY FractionsAreNatural
    <2> QED BY <2>1 DEF NaturalFractions
<1>4. Got(s)' = Got(s) /\ fraction'[s] = fraction[s] /\ due'[s] = due[s]
    BY <1>1 DEF Got, SeedSharing
<1>5. CarriedOf(s) \in Nat /\ CarriedOf(s)' = CarriedOf(s) + (Unit - 1)
    <2>1. CarriedOf(s) \in Nat /\ CarriedOf(s)' = CarriedOf(s) + (CarriedBy(r, s)' - CarriedBy(r, s))
        BY <1>1, OneRunTurns
    <2>2. CarriedBy(r, s) = 0 /\ CarriedBy(r, s)' = Unit - 1
        BY <1>1 DEF CarriedBy
    <2> QED BY <1>3, <2>1, <2>2
<1>6. /\ Owing(s)' <=> Owing(s)
      /\ InHand(s)' <=> InHand(s)
      /\ Owing(s) => InHand(s)
    BY <1>1, HandsTurn
<1>7. /\ Lost(mishaps) \in Nat /\ Lost(mishaps + k) \in Nat /\ Lost(mishaps + k + 1) \in Nat
      /\ Lost(mishaps) <= Lost(mishaps + k) /\ Lost(mishaps + 1) <= Lost(mishaps + k + 1)
      /\ k > 0 => /\ Lost(mishaps) + (Unit - 1) <= Lost(mishaps + k)
                  /\ Lost(mishaps + 1) + (Unit - 1) <= Lost(mishaps + k + 1)
      /\ Lost(mishaps + 1) = Lost(mishaps) + (Unit - 1)
    BY <1>2, <1>3, LostGrows
<1>8. /\ ~Owing(s) => Got(s) + fraction[s] <= due[s] + Lost(mishaps)
      /\ InHand(s) => Got(s) + CarriedOf(s) <= due[s] + Lost(mishaps)
      /\ ~InHand(s) => Got(s) + fraction[s] + CarriedOf(s) <= due[s] + Lost(mishaps + 1)
    BY DEF FractionsAreCounted
<1>9. InHand(s) => k > 0
    BY <1>2 DEF InHand, Busy, SeedShape, RunsInOrder
<1>10. ~Owing(s)' => Got(s) + fraction[s] <= due[s] + Lost(mishaps')
    BY <1>2, <1>3, <1>6, <1>7, <1>8
<1>11. InHand(s)' => Got(s) + CarriedOf(s)' <= due[s] + Lost(mishaps')
    BY <1>2, <1>3, <1>5, <1>6, <1>7, <1>8, <1>9
<1>12. ~InHand(s)' => Got(s) + fraction[s] + CarriedOf(s)' <= due[s] + Lost(mishaps' + 1)
    <2>1. CASE k > 0
        BY <1>2, <1>3, <1>5, <1>6, <1>7, <1>8, <2>1
    <2>2. CASE k = 0
        <3>1. CarriedOf(s) = 0
            BY <1>2, <2>2, IdleCarriesNothing
        <3> QED BY <1>2, <1>3, <1>5, <1>6, <1>7, <1>8, <2>2, <3>1
    <2> QED BY <1>2, <2>1, <2>2
<1> QED BY <1>4, <1>10, <1>11, <1>12

LEMMA ReadKeepsFractions ==
    ASSUME SeedShape, FractionsAreCounted, NEW r \in Runs, NEW missed \in BOOLEAN, ReadCarry(r, missed)
    PROVE  FractionsAreCounted'
<1>1. /\ SeedShape' /\ SeedSharing /\ payout[r].pc = "read" /\ payout'[r].pc = "pay"
      /\ payout[r].todo = {} /\ payout[r].saving = {} /\ payout'[r].saving = {}
      /\ \A q \in Runs \ {r} : payout'[q] = payout[q]
      /\ \A s \in Seeders : payout'[r].carry[s] \in {0, fraction[s]}
      /\ mishaps' = mishaps \/ mishaps' = mishaps + 1
    BY ReadShape
<1> SUFFICES ASSUME NEW s \in Seeders
             PROVE  /\ ~Owing(s)' => Got(s)' + fraction'[s] <= due'[s] + Lost(mishaps')
                    /\ InHand(s)' => Got(s)' + CarriedOf(s)' <= due'[s] + Lost(mishaps')
                    /\ ~InHand(s)' => Got(s)' + fraction'[s] + CarriedOf(s)' <= due'[s] + Lost(mishaps' + 1)
    BY DEF FractionsAreCounted, Lost
<1>3. /\ mishaps \in Nat /\ Unit - 1 \in Nat /\ fraction[s] \in Nat /\ fraction[s] <= Unit - 1
      /\ Got(s) \in Nat /\ due[s] \in Nat
    <2>1. NaturalFractions
        BY FractionsAreNatural
    <2> QED BY <2>1 DEF NaturalFractions
<1>4. Got(s)' = Got(s) /\ fraction'[s] = fraction[s] /\ due'[s] = due[s]
    BY <1>1 DEF Got, SeedSharing
<1> DEFINE c == CarriedBy(r, s)'
<1>5. c \in Nat /\ c <= fraction[s] /\ (c # 0 => s \in payout'[r].todo)
    <2>1. payout'[r].carry[s] \in Nat /\ payout'[r].carry[s] <= fraction[s]
        BY <1>1, <1>3
    <2> QED BY <1>1, <1>3, <2>1 DEF CarriedBy
<1> HIDE DEF c
<1>6. CarriedOf(s) \in Nat /\ CarriedOf(s) >= Unit - 1 /\ CarriedOf(s)' = CarriedOf(s) - (Unit - 1) + c
    <2>1. /\ CarriedOf(s) \in Nat /\ CarriedBy(r, s) <= CarriedOf(s)
          /\ CarriedOf(s)' = CarriedOf(s) + (CarriedBy(r, s)' - CarriedBy(r, s))
        BY <1>1, OneRunTurns
    <2>2. CarriedBy(r, s) = Unit - 1
        BY <1>1 DEF CarriedBy
    <2> QED BY <1>3, <1>5, <2>1, <2>2 DEF c
<1>7. /\ Owing(s)' <=> Owing(s)
      /\ InHand(s) => InHand(s)'
      /\ Owing(s) => InHand(s)
    BY <1>1, HandsTurn
<1>8. /\ Lost(mishaps) \in Nat /\ Lost(mishaps') \in Nat /\ Lost(mishaps + 1) \in Nat /\ Lost(mishaps' + 1) \in Nat
      /\ Lost(mishaps) <= Lost(mishaps') /\ Lost(mishaps + 1) <= Lost(mishaps' + 1)
      /\ Lost(mishaps + 1) = Lost(mishaps) + (Unit - 1)
    <2>1. /\ Lost(mishaps) \in Nat /\ Lost(mishaps + 1) \in Nat /\ Lost(mishaps + 1 + 1) \in Nat
          /\ Lost(mishaps) <= Lost(mishaps + 1) /\ Lost(mishaps + 1) <= Lost(mishaps + 1 + 1)
          /\ Lost(mishaps + 1) = Lost(mishaps) + (Unit - 1)
        <3>1. mishaps \in Nat /\ 1 \in 0 .. 2
            BY <1>3
        <3> QED BY <3>1, LostGrows
    <2> QED BY <1>1, <2>1
<1>9. /\ ~Owing(s) => Got(s) + fraction[s] <= due[s] + Lost(mishaps)
      /\ InHand(s) => Got(s) + CarriedOf(s) <= due[s] + Lost(mishaps)
      /\ ~InHand(s) => Got(s) + fraction[s] + CarriedOf(s) <= due[s] + Lost(mishaps + 1)
    BY DEF FractionsAreCounted
<1>10. ~Owing(s)' => Got(s) + fraction[s] <= due[s] + Lost(mishaps')
    BY <1>3, <1>7, <1>8, <1>9
<1>11. InHand(s)' => Got(s) + CarriedOf(s)' <= due[s] + Lost(mishaps')
    <2>1. CASE InHand(s)
        BY <1>3, <1>5, <1>6, <1>8, <1>9, <2>1
    <2>2. CASE ~InHand(s)
        BY <1>3, <1>5, <1>6, <1>8, <1>9, <2>2
    <2> QED BY <2>1, <2>2
<1>12. ~InHand(s)' => Got(s) + fraction[s] + CarriedOf(s)' <= due[s] + Lost(mishaps' + 1)
    BY <1>3, <1>5, <1>6, <1>7, <1>8, <1>9
<1> QED BY <1>4, <1>10, <1>11, <1>12

LEMMA CreditShape ==
    ASSUME SeedShape, NEW r \in Runs, NEW x \in Seeders, Credit(r, x)
    PROVE  /\ SeedShape' /\ Turned(r, payout[r].todo \ {x}, {x})
           /\ payout[r].pc = "pay" /\ payout[r].saving = {} /\ x \in payout[r].todo
           /\ paid'[x] = paid[x] + AwardPoints(r, x) /\ due'[x] = due[x] + AmountWithoutCarry(r, x)
           /\ covered'[x] = covered[x] + payout[r].elapsed
           /\ \A s \in Seeders \ {x} : paid'[s] = paid[s] /\ due'[s] = due[s] /\ covered'[s] = covered[s]
           /\ capped' = (IF IsCapped(r, x) THEN capped \cup {x} ELSE capped)
           /\ UNCHANGED <<now, economy, lastRun, fraction, mishaps>>
<1> DEFINE b == [payout[r] EXCEPT !.todo = payout[r].todo \ {x}, !.saving = {x}]
<1>1. /\ payout[r].pc = "pay" /\ payout[r].saving = {} /\ x \in payout[r].todo
      /\ paid' = [paid EXCEPT ![x] = @ + AwardPoints(r, x)]
      /\ due' = [due EXCEPT ![x] = @ + AmountWithoutCarry(r, x)]
      /\ covered' = [covered EXCEPT ![x] = @ + payout[r].elapsed]
      /\ capped' = (IF IsCapped(r, x) THEN capped \cup {x} ELSE capped)
      /\ payout' = [payout EXCEPT ![r] = b]
      /\ UNCHANGED <<now, economy, lastRun, fraction, mishaps>>
    BY DEF Credit, AmountWithoutCarry
<1>2. AwardPoints(r, x) \in Nat /\ AmountWithoutCarry(r, x) \in Nat
    BY <1>1, AwardAdds
<1>3. /\ SeedTypeOK /\ RunsInOrder /\ payout \in [Runs -> Payouts]
      /\ paid \in [Seeders -> Nat] /\ due \in [Seeders -> Nat] /\ covered \in [Seeders -> Nat]
    BY DEF SeedShape, SeedTypeOK
<1>4. payout[r].elapsed \in Nat
    BY <1>3 DEF Payouts
<1>5. RunsInOrder' /\ payout' \in [Runs -> Payouts] /\ Turned(r, payout[r].todo \ {x}, {x})
    <2>1. /\ b \in Payouts /\ b.pc = "pay" /\ b.elapsed = payout[r].elapsed /\ b.economy = payout[r].economy
          /\ b.carry = payout[r].carry /\ b.todo = payout[r].todo \ {x} /\ b.saving = {x}
        BY <1>1, <1>3 DEF Payouts
    <2> HIDE DEF b
    <2>2. payout[r].todo \ {x} \subseteq payout[r].todo /\ x \notin payout[r].todo \ {x}
        OBVIOUS
    <2> QED BY <1>1, <2>1, <2>2, PayShape
<1>6. /\ paid' \in [Seeders -> Nat] /\ due' \in [Seeders -> Nat] /\ covered' \in [Seeders -> Nat]
      /\ paid'[x] = paid[x] + AwardPoints(r, x) /\ due'[x] = due[x] + AmountWithoutCarry(r, x)
      /\ covered'[x] = covered[x] + payout[r].elapsed
      /\ \A s \in Seeders \ {x} : paid'[s] = paid[s] /\ due'[s] = due[s] /\ covered'[s] = covered[s]
    BY <1>1, <1>2, <1>3, <1>4
<1>7. SeedTypeOK'
    BY <1>1, <1>3, <1>5, <1>6 DEF SeedTypeOK, Payouts
<1> QED BY <1>1, <1>5, <1>6, <1>7 DEF SeedShape

LEMMA CreditKeepsFractions ==
    ASSUME SeedShape, FractionsAreCounted, NEW r \in Runs, NEW x \in Seeders, Credit(r, x)
    PROVE  FractionsAreCounted'
<1>1. /\ SeedShape' /\ Turned(r, payout[r].todo \ {x}, {x})
      /\ payout[r].pc = "pay" /\ payout[r].saving = {} /\ x \in payout[r].todo
      /\ paid'[x] = paid[x] + AwardPoints(r, x) /\ due'[x] = due[x] + AmountWithoutCarry(r, x)
      /\ \A s \in Seeders \ {x} : paid'[s] = paid[s] /\ due'[s] = due[s]
      /\ fraction' = fraction /\ mishaps' = mishaps
    BY CreditShape
<1>2. /\ payout'[r].pc = "pay" /\ payout'[r].carry = payout[r].carry
      /\ payout'[r].economy = payout[r].economy /\ payout'[r].elapsed = payout[r].elapsed
      /\ payout'[r].todo = payout[r].todo \ {x} /\ payout'[r].saving = {x}
      /\ \A q \in Runs \ {r} : payout'[q] = payout[q]
    BY <1>1 DEF Turned
<1> SUFFICES ASSUME NEW s \in Seeders
             PROVE  /\ ~Owing(s)' => Got(s)' + fraction'[s] <= due'[s] + Lost(mishaps')
                    /\ InHand(s)' => Got(s)' + CarriedOf(s)' <= due'[s] + Lost(mishaps')
                    /\ ~InHand(s)' => Got(s)' + fraction'[s] + CarriedOf(s)' <= due'[s] + Lost(mishaps' + 1)
    BY DEF FractionsAreCounted, Lost
<1>3. /\ mishaps \in Nat /\ Unit - 1 \in Nat /\ fraction[s] \in Nat /\ fraction[s] <= Unit - 1
      /\ Got(s) \in Nat /\ due[s] \in Nat /\ paid[s] \in Nat
    <2>1. NaturalFractions
        BY FractionsAreNatural
    <2> QED BY <2>1 DEF NaturalFractions
<1>4. /\ CarriedOf(s) \in Nat /\ CarriedOf(s)' \in Nat /\ CarriedBy(r, s) \in Nat /\ CarriedBy(r, s)' \in Nat
      /\ CarriedOf(s)' = CarriedOf(s) + (CarriedBy(r, s)' - CarriedBy(r, s))
    BY <1>1, <1>2, OneRunTurns
<1>5. /\ ~Owing(s) => Got(s) + fraction[s] <= due[s] + Lost(mishaps)
      /\ InHand(s) => Got(s) + CarriedOf(s) <= due[s] + Lost(mishaps)
      /\ ~InHand(s) => Got(s) + fraction[s] + CarriedOf(s) <= due[s] + Lost(mishaps + 1)
    BY DEF FractionsAreCounted
<1>6. CASE s # x
    <2>1. Got(s)' = Got(s) /\ due'[s] = due[s] /\ fraction'[s] = fraction[s]
        BY <1>1, <1>6 DEF Got
    <2>2. CarriedBy(r, s)' = CarriedBy(r, s)
        BY <1>1, <1>2, <1>6 DEF CarriedBy
    <2>3. (Owing(s)' <=> Owing(s)) /\ (InHand(s)' <=> InHand(s))
        BY <1>1, <1>2, <1>6, HandsTurn
    <2> QED BY <1>1, <1>3, <1>4, <1>5, <2>1, <2>2, <2>3
<1>7. CASE s = x
    <2> DEFINE a == AwardPoints(r, s)
               c == AwardCarry(r, s)
               e == AmountWithoutCarry(r, s)
               b == payout[r].carry[s]
    <2>1. /\ a \in Nat /\ c \in Nat /\ e \in Nat /\ a * Unit + c <= e + b
        BY <1>1, AwardAdds, SeedAssumption
    <2>2. b \in Nat /\ Unit \in Nat
        BY SeedAssumption DEF SeedShape, SeedTypeOK, Payouts
    <2>3. CarriedBy(r, s) = b /\ CarriedBy(r, s)' = c
        <3>1. AwardCarry(r, s)' = c
            BY <1>2 DEF AwardCarry, Amount, IsCapped, Earned, CapThisRun
        <3> QED BY <1>1, <1>2, <1>7, <3>1 DEF CarriedBy
    <2>4. due'[s] = due[s] + e /\ paid'[s] = paid[s] + a
        BY <1>1, <1>7
    <2> HIDE DEF a, b, c, e
    <2>5. Got(s)' = Got(s) + a * Unit /\ a * Unit \in Nat
        BY <1>3, <2>1, <2>2, <2>4 DEF Got
    <2>6. Owing(s)' /\ InHand(s)' /\ InHand(s)
        BY <1>1, <1>2, <1>7, HandsTurn
    <2>7. Lost(mishaps) \in Nat /\ Lost(mishaps') = Lost(mishaps)
        BY <1>1, <1>3, LostAdds
    <2>8. Got(s)' + CarriedOf(s)' <= due'[s] + Lost(mishaps')
        <3> DEFINE g == Got(s)
                   h == Got(s)'
                   k == CarriedOf(s)
                   l == CarriedOf(s)'
                   m == Lost(mishaps)
                   u == a * Unit
        <3>1. g \in Nat /\ k \in Nat /\ m \in Nat /\ u \in Nat /\ due[s] \in Nat
            BY <1>3, <1>4, <2>5, <2>7
        <3>2. g + k <= due[s] + m /\ u + c <= e + b /\ l = k + (c - b) /\ h = g + u
            BY <1>4, <1>5, <2>1, <2>3, <2>5, <2>6
        <3>3. h + l <= (due[s] + e) + m
            <4> HIDE DEF g, h, k, l, m, u
            <4> QED BY <2>1, <2>2, <3>1, <3>2
        <3> QED BY <2>4, <2>7, <3>3
    <2> QED BY <2>6, <2>8
<1> QED BY <1>6, <1>7

LEMMA SaveShape ==
    ASSUME SeedShape, NEW r \in Runs, NEW x \in Seeders, SaveCarry(r, x)
    PROVE  /\ SeedShape' /\ Turned(r, payout[r].todo, {})
           /\ payout[r].pc = "pay" /\ payout[r].saving = {x} /\ x \notin payout[r].todo
           /\ fraction'[x] = AwardCarry(r, x) /\ \A s \in Seeders \ {x} : fraction'[s] = fraction[s]
           /\ UNCHANGED <<now, economy, lastRun, paid, due, covered, capped, mishaps>>
<1> DEFINE b == [payout[r] EXCEPT !.saving = {}]
<1>1. /\ x \in payout[r].saving
      /\ fraction' = [fraction EXCEPT ![x] = AwardCarry(r, x)]
      /\ payout' = [payout EXCEPT ![r] = b]
      /\ UNCHANGED <<now, economy, lastRun, paid, due, covered, capped, mishaps>>
    BY DEF SaveCarry
<1>2. /\ SeedTypeOK /\ RunsInOrder /\ payout \in [Runs -> Payouts] /\ fraction \in [Seeders -> 0 .. Unit - 1]
    BY DEF SeedShape, SeedTypeOK
<1>3. payout[r].pc = "pay" /\ payout[r].saving = {x} /\ x \notin payout[r].todo
    BY <1>1, <1>2 DEF RunsInOrder, Payouts
<1>4. AwardCarry(r, x) \in 0 .. Unit - 1
    BY <1>3, AwardAdds
<1>5. /\ fraction' \in [Seeders -> 0 .. Unit - 1] /\ fraction'[x] = AwardCarry(r, x)
      /\ \A s \in Seeders \ {x} : fraction'[s] = fraction[s]
    BY <1>1, <1>2, <1>4
<1>6. RunsInOrder' /\ payout' \in [Runs -> Payouts] /\ Turned(r, payout[r].todo, {})
    <2>1. /\ b \in Payouts /\ b.pc = "pay" /\ b.elapsed = payout[r].elapsed /\ b.economy = payout[r].economy
          /\ b.carry = payout[r].carry /\ b.todo = payout[r].todo /\ b.saving = {}
        BY <1>2, <1>3 DEF Payouts
    <2> HIDE DEF b
    <2> QED BY <1>1, <1>3, <2>1, PayShape
<1>7. SeedTypeOK'
    BY <1>1, <1>2, <1>5, <1>6 DEF SeedTypeOK, Payouts
<1> QED BY <1>1, <1>3, <1>5, <1>6, <1>7 DEF SeedShape

LEMMA SaveKeepsFractions ==
    ASSUME SeedShape, FractionsAreCounted, NEW r \in Runs, NEW x \in Seeders, SaveCarry(r, x)
    PROVE  FractionsAreCounted'
<1>1. /\ SeedShape' /\ Turned(r, payout[r].todo, {})
      /\ payout[r].pc = "pay" /\ payout[r].saving = {x} /\ x \notin payout[r].todo
      /\ fraction'[x] = AwardCarry(r, x) /\ \A s \in Seeders \ {x} : fraction'[s] = fraction[s]
      /\ paid' = paid /\ due' = due /\ mishaps' = mishaps
    BY SaveShape
<1>2. /\ payout'[r].pc = "pay" /\ payout'[r].carry = payout[r].carry
      /\ payout'[r].todo = payout[r].todo /\ payout'[r].saving = {}
      /\ \A q \in Runs \ {r} : payout'[q] = payout[q]
    BY <1>1 DEF Turned
<1> SUFFICES ASSUME NEW s \in Seeders
             PROVE  /\ ~Owing(s)' => Got(s)' + fraction'[s] <= due'[s] + Lost(mishaps')
                    /\ InHand(s)' => Got(s)' + CarriedOf(s)' <= due'[s] + Lost(mishaps')
                    /\ ~InHand(s)' => Got(s)' + fraction'[s] + CarriedOf(s)' <= due'[s] + Lost(mishaps' + 1)
    BY DEF FractionsAreCounted, Lost
<1>3. /\ mishaps \in Nat /\ Unit - 1 \in Nat /\ fraction[s] \in Nat /\ fraction[s] <= Unit - 1
      /\ Got(s) \in Nat /\ due[s] \in Nat
    <2>1. NaturalFractions
        BY FractionsAreNatural
    <2> QED BY <2>1 DEF NaturalFractions
<1>4. /\ CarriedOf(s) \in Nat /\ CarriedOf(s)' \in Nat /\ CarriedBy(r, s) \in Nat /\ CarriedBy(r, s)' \in Nat
      /\ CarriedOf(s)' = CarriedOf(s) + (CarriedBy(r, s)' - CarriedBy(r, s))
      /\ CarriedBy(r, s) <= CarriedOf(s)
    BY <1>1, <1>2, OneRunTurns
<1>5. /\ ~Owing(s) => Got(s) + fraction[s] <= due[s] + Lost(mishaps)
      /\ InHand(s) => Got(s) + CarriedOf(s) <= due[s] + Lost(mishaps)
      /\ ~InHand(s) => Got(s) + fraction[s] + CarriedOf(s) <= due[s] + Lost(mishaps + 1)
    BY DEF FractionsAreCounted
<1>6. Got(s)' = Got(s) /\ due'[s] = due[s]
    BY <1>1 DEF Got
<1>7. CASE s # x
    <2>1. fraction'[s] = fraction[s]
        BY <1>1, <1>7
    <2>2. CarriedBy(r, s)' = CarriedBy(r, s)
        BY <1>1, <1>2, <1>7 DEF CarriedBy
    <2>3. (Owing(s)' <=> Owing(s)) /\ (InHand(s)' <=> InHand(s))
        BY <1>1, <1>2, <1>7, HandsTurn
    <2> QED BY <1>1, <1>3, <1>4, <1>5, <1>6, <2>1, <2>2, <2>3
<1>8. CASE s = x
    <2>1. fraction'[s] = CarriedBy(r, s) /\ CarriedBy(r, s)' = 0
        BY <1>1, <1>2, <1>8 DEF CarriedBy
    <2>2. InHand(s)
        BY <1>1, <1>2, <1>8, HandsTurn
    <2>3. /\ Lost(mishaps) \in Nat /\ Lost(mishaps + 1) = Lost(mishaps) + (Unit - 1)
          /\ Lost(mishaps') = Lost(mishaps) /\ Lost(mishaps' + 1) = Lost(mishaps + 1)
        BY <1>1, <1>3, LostAdds
    <2>4. Got(s) + CarriedOf(s) <= due[s] + Lost(mishaps)
        BY <1>5, <2>2
    <2>5. Got(s) + fraction'[s] <= due[s] + Lost(mishaps')
        BY <1>3, <1>4, <2>1, <2>3, <2>4
    <2>6. Got(s) + CarriedOf(s)' <= due[s] + Lost(mishaps')
        BY <1>3, <1>4, <2>1, <2>3, <2>4
    <2>7. Got(s) + fraction'[s] + CarriedOf(s)' <= due[s] + Lost(mishaps' + 1)
        BY <1>3, <1>4, <2>1, <2>3, <2>4
    <2> QED BY <1>6, <2>5, <2>6, <2>7
<1> QED BY <1>7, <1>8

(***************************************************************************)
(* Without a mishap one run is under way at a time, and no fraction is lost *)
(* at all.                                                                 *)
(***************************************************************************)
LEMMA LettingGoStaysExact ==
    ASSUME SeedShape, SeedShape', FractionsAreExact, NEW r \in Runs, \A q \in Runs \ {r} : payout'[q] = payout[q],
           UNCHANGED <<paid, due, fraction, capped>>, payout[r].pc = "pay",
           payout'[r].todo \subseteq payout[r].todo, payout'[r].saving \subseteq payout[r].saving,
           payout'[r].pc = "pay" => /\ payout'[r].carry = payout[r].carry /\ payout'[r].economy = payout[r].economy
                                    /\ payout'[r].elapsed = payout[r].elapsed,
           \/ mishaps' = mishaps /\ payout'[r].saving = payout[r].saving
           \/ mishaps' = mishaps + 1
    PROVE  FractionsAreExact'
<1> SUFFICES ASSUME mishaps' = 0
             PROVE  /\ \A u, q \in Runs : (payout'[u].pc # "idle" /\ payout'[q].pc # "idle") => u = q
                    /\ \A s \in Seeders \ capped' :
                          /\ ~Owing(s)' => Got(s)' + fraction'[s] = due'[s]
                          /\ \A u \in Runs : /\ s \in payout'[u].todo => payout'[u].carry[s] = fraction'[s]
                                             /\ s \in payout'[u].saving => Got(s)' + AwardCarry(u, s)' = due'[s]
    BY DEF FractionsAreExact
<1>1. mishaps = 0 /\ payout'[r].saving = payout[r].saving
    BY SeedAssumption DEF SeedShape, SeedTypeOK
<1>2. /\ \A u, q \in Runs : (payout[u].pc # "idle" /\ payout[q].pc # "idle") => u = q
      /\ \A s \in Seeders \ capped :
            /\ ~Owing(s) => Got(s) + fraction[s] = due[s]
            /\ \A u \in Runs : /\ s \in payout[u].todo => payout[u].carry[s] = fraction[s]
                               /\ s \in payout[u].saving => Got(s) + AwardCarry(u, s) = due[s]
    BY <1>1 DEF FractionsAreExact
<1>3. \A u, q \in Runs : (payout'[u].pc # "idle" /\ payout'[q].pc # "idle") => u = q
    BY <1>2
<1> SUFFICES ASSUME NEW s \in Seeders \ capped
             PROVE  /\ ~Owing(s)' => Got(s)' + fraction'[s] = due'[s]
                    /\ \A u \in Runs : /\ s \in payout'[u].todo => payout'[u].carry[s] = fraction'[s]
                                       /\ s \in payout'[u].saving => Got(s)' + AwardCarry(u, s)' = due'[s]
    BY <1>3
<1>4. Owing(s)' <=> Owing(s)
    BY <1>1, HandsTurn
<1>5. Got(s)' = Got(s) /\ fraction'[s] = fraction[s] /\ due'[s] = due[s]
    BY DEF Got
<1>6. \A u \in Runs : s \in payout'[u].todo => payout'[u].carry[s] = fraction[s]
    BY <1>2 DEF SeedShape, RunsInOrder
<1>7. ASSUME NEW u \in Runs, s \in payout'[u].saving PROVE Got(s) + AwardCarry(u, s)' = due[s]
    <2>1. s \in payout[u].saving
        BY <1>1, <1>7
    <2>2. payout'[u].pc = "pay"
        BY <1>7 DEF SeedShape, SeedTypeOK, RunsInOrder, Payouts
    <2>3. AwardCarry(u, s)' = AwardCarry(u, s)
        BY <2>2 DEF AwardCarry, Amount, IsCapped, Earned, CapThisRun
    <2> QED BY <1>2, <2>1, <2>3
<1> QED BY <1>2, <1>4, <1>5, <1>6, <1>7

LEMMA BeginStaysExact ==
    ASSUME SeedShape, FractionsAreExact, NEW r \in Runs, NEW marker \in {lastRun, Never}, Begin(r, marker)
    PROVE  FractionsAreExact'
<1>1. /\ SeedSharing /\ payout[r].todo = {} /\ payout[r].saving = {} /\ payout'[r].todo = {} /\ payout'[r].saving = {}
      /\ \A q \in Runs \ {r} : payout'[q] = payout[q]
      /\ mishaps' = mishaps + ((IF Busy THEN 1 ELSE 0) + (IF marker # lastRun THEN 1 ELSE 0))
    BY BeginShape
<1> SUFFICES ASSUME mishaps' = 0 PROVE FractionsAreExact'
    BY DEF FractionsAreExact
<1>2. mishaps = 0 /\ ~Busy
    BY <1>1, SeedAssumption DEF SeedShape, SeedTypeOK
<1>3. \A q \in Runs : payout[q].pc = "idle" /\ payout[q].todo = {} /\ payout[q].saving = {}
    BY <1>2 DEF Busy, SeedShape, RunsInOrder
<1>4. \A q \in Runs : payout'[q].todo = {} /\ payout'[q].saving = {}
    BY <1>1, <1>3
<1>5. \A u, q \in Runs : (payout'[u].pc # "idle" /\ payout'[q].pc # "idle") => u = q
    BY <1>1, <1>3
<1>6. \A s \in Seeders : ~Owing(s) /\ ~Owing(s)'
    BY <1>3, <1>4 DEF Owing
<1>7. \A s \in Seeders \ capped : Got(s) + fraction[s] = due[s]
    BY <1>2, <1>6 DEF FractionsAreExact
<1>8. /\ \A s \in Seeders : Got(s)' = Got(s)
      /\ fraction' = fraction /\ due' = due /\ capped' = capped
    BY <1>1 DEF Got, SeedSharing
<1> QED BY <1>4, <1>5, <1>6, <1>7, <1>8 DEF FractionsAreExact

LEMMA ReadStaysExact ==
    ASSUME SeedShape, FractionsAreExact, NEW r \in Runs, NEW missed \in BOOLEAN, ReadCarry(r, missed)
    PROVE  FractionsAreExact'
<1>1. /\ SeedSharing /\ payout[r].pc = "read" /\ payout[r].saving = {} /\ payout'[r].saving = {}
      /\ \A q \in Runs \ {r} : payout'[q] = payout[q]
      /\ IF missed THEN mishaps' = mishaps + 1 ELSE mishaps' = mishaps /\ payout'[r].carry = fraction
    BY ReadShape
<1> SUFFICES ASSUME mishaps' = 0 PROVE FractionsAreExact'
    BY DEF FractionsAreExact
<1>2. mishaps = 0 /\ payout'[r].carry = fraction
    BY <1>1, SeedAssumption DEF SeedShape, SeedTypeOK
<1>3. /\ \A u, q \in Runs : (payout[u].pc # "idle" /\ payout[q].pc # "idle") => u = q
      /\ \A s \in Seeders \ capped : ~Owing(s) => Got(s) + fraction[s] = due[s]
    BY <1>2 DEF FractionsAreExact
<1>4. \A q \in Runs \ {r} : payout[q].pc = "idle" /\ payout[q].todo = {} /\ payout[q].saving = {}
    BY <1>1, <1>3 DEF SeedShape, RunsInOrder
<1>5. \A u, q \in Runs : (payout'[u].pc # "idle" /\ payout'[q].pc # "idle") => u = q
    BY <1>1, <1>4
<1>6. \A q \in Runs : /\ payout'[q].saving = {} /\ payout[q].saving = {}
                      /\ q # r => payout'[q].todo = {}
    BY <1>1, <1>4
<1>7. \A s \in Seeders : ~Owing(s) /\ ~Owing(s)'
    BY <1>6 DEF Owing
<1>8. /\ \A s \in Seeders : Got(s)' = Got(s)
      /\ fraction' = fraction /\ due' = due /\ capped' = capped
    BY <1>1 DEF Got, SeedSharing
<1> QED BY <1>2, <1>3, <1>5, <1>6, <1>7, <1>8 DEF FractionsAreExact

LEMMA CreditStaysExact ==
    ASSUME SeedShape, FractionsAreExact, NEW r \in Runs, NEW x \in Seeders, Credit(r, x)
    PROVE  FractionsAreExact'
<1>1. /\ SeedShape' /\ Turned(r, payout[r].todo \ {x}, {x})
      /\ payout[r].pc = "pay" /\ payout[r].saving = {} /\ x \in payout[r].todo
      /\ paid'[x] = paid[x] + AwardPoints(r, x) /\ due'[x] = due[x] + AmountWithoutCarry(r, x)
      /\ \A s \in Seeders \ {x} : paid'[s] = paid[s] /\ due'[s] = due[s]
      /\ capped' = (IF IsCapped(r, x) THEN capped \cup {x} ELSE capped)
      /\ fraction' = fraction /\ mishaps' = mishaps
    BY CreditShape
<1>2. /\ payout'[r].pc = "pay" /\ payout'[r].carry = payout[r].carry
      /\ payout'[r].economy = payout[r].economy /\ payout'[r].elapsed = payout[r].elapsed
      /\ payout'[r].todo = payout[r].todo \ {x} /\ payout'[r].saving = {x}
      /\ \A q \in Runs \ {r} : payout'[q] = payout[q]
    BY <1>1 DEF Turned
<1> SUFFICES ASSUME mishaps' = 0 PROVE FractionsAreExact'
    BY DEF FractionsAreExact
<1>3. /\ \A u, q \in Runs : (payout[u].pc # "idle" /\ payout[q].pc # "idle") => u = q
      /\ \A s \in Seeders \ capped : /\ ~Owing(s) => Got(s) + fraction[s] = due[s]
                                     /\ s \in payout[r].todo => payout[r].carry[s] = fraction[s]
    BY <1>1 DEF FractionsAreExact
<1>4. \A q \in Runs \ {r} : payout[q].pc = "idle" /\ payout[q].todo = {} /\ payout[q].saving = {}
    BY <1>1, <1>3 DEF SeedShape, RunsInOrder
<1>5. \A u, q \in Runs : (payout'[u].pc # "idle" /\ payout'[q].pc # "idle") => u = q
    BY <1>2, <1>4
<1>6. \A s \in Seeders : ~Owing(s) /\ (Owing(s)' <=> s = x)
    BY <1>1, <1>2, <1>4 DEF Owing
<1>7. \A s \in Seeders \ {x} : Got(s)' = Got(s)
    BY <1>1 DEF Got
<1>8. \A s \in Seeders \ capped' : ~Owing(s)' => Got(s)' + fraction'[s] = due'[s]
    BY <1>1, <1>3, <1>6, <1>7
<1>9. \A s \in Seeders \ capped', u \in Runs : s \in payout'[u].todo => payout'[u].carry[s] = fraction'[s]
    BY <1>1, <1>2, <1>3, <1>4
<1>10. ASSUME NEW s \in Seeders \ capped', NEW u \in Runs, s \in payout'[u].saving
       PROVE  Got(s)' + AwardCarry(u, s)' = due'[s]
    <2>1. u = r /\ s = x
        BY <1>2, <1>4, <1>10
    <2>2. x \notin capped /\ ~IsCapped(r, x)
        BY <1>1, <1>10, <2>1
    <2> DEFINE a == AwardPoints(r, x)
               c == AwardCarry(r, x)
               e == AmountWithoutCarry(r, x)
    <2>3. /\ a \in Nat /\ c \in Nat /\ e \in Nat /\ a * Unit + c = e + payout[r].carry[x]
        BY <1>1, <2>2, AwardAdds, SeedAssumption
    <2>4. AwardCarry(u, s)' = c
        BY <1>2, <2>1 DEF AwardCarry, Amount, IsCapped, Earned, CapThisRun
    <2>5. payout[r].carry[x] = fraction[x] /\ Got(x) + fraction[x] = due[x]
        BY <1>1, <1>3, <1>6, <2>2
    <2> HIDE DEF a, c, e
    <2>6. Unit \in Nat /\ paid[x] \in Nat /\ fraction[x] \in Nat /\ due[x] \in Nat
        BY SeedAssumption DEF SeedShape, SeedTypeOK
    <2>7. Got(x)' = Got(x) + a * Unit /\ a * Unit \in Nat /\ Got(x) \in Nat
        BY <1>1, <2>3, <2>6 DEF Got, a
    <2>8. due'[x] = due[x] + e
        BY <1>1 DEF e
    <2>9. Got(x)' + c = due'[x]
        <3> DEFINE g == Got(x)
                   h == Got(x)'
                   w == a * Unit
        <3>1. g \in Nat /\ w \in Nat /\ h = g + w /\ w + c = e + fraction[x] /\ g + fraction[x] = due[x]
            BY <2>3, <2>5, <2>7
        <3>2. h + c = due[x] + e
            <4>1. \A g1, w1, c1, e1, f1, d1 \in Nat :
                     (w1 + c1 = e1 + f1 /\ g1 + f1 = d1) => (g1 + w1) + c1 = d1 + e1
                OBVIOUS
            <4>2. c \in Nat /\ e \in Nat /\ fraction[x] \in Nat /\ due[x] \in Nat
                BY <2>3, <2>6
            <4> HIDE DEF g, h, w
            <4> QED BY <3>1, <4>1, <4>2
        <3> QED BY <2>8, <3>2
    <2> QED BY <2>1, <2>4, <2>9
<1> QED BY <1>5, <1>8, <1>9, <1>10 DEF FractionsAreExact

LEMMA SaveStaysExact ==
    ASSUME SeedShape, FractionsAreExact, NEW r \in Runs, NEW x \in Seeders, SaveCarry(r, x)
    PROVE  FractionsAreExact'
<1>1. /\ SeedShape' /\ Turned(r, payout[r].todo, {})
      /\ payout[r].pc = "pay" /\ payout[r].saving = {x} /\ x \notin payout[r].todo
      /\ fraction'[x] = AwardCarry(r, x) /\ \A s \in Seeders \ {x} : fraction'[s] = fraction[s]
      /\ paid' = paid /\ due' = due /\ mishaps' = mishaps /\ capped' = capped
    BY SaveShape
<1>2. /\ payout'[r].pc = "pay" /\ payout'[r].carry = payout[r].carry
      /\ payout'[r].todo = payout[r].todo /\ payout'[r].saving = {}
      /\ \A q \in Runs \ {r} : payout'[q] = payout[q]
    BY <1>1 DEF Turned
<1> SUFFICES ASSUME mishaps' = 0 PROVE FractionsAreExact'
    BY DEF FractionsAreExact
<1>3. /\ \A u, q \in Runs : (payout[u].pc # "idle" /\ payout[q].pc # "idle") => u = q
      /\ \A s \in Seeders \ capped : /\ ~Owing(s) => Got(s) + fraction[s] = due[s]
                                     /\ s \in payout[r].todo => payout[r].carry[s] = fraction[s]
                                     /\ s \in payout[r].saving => Got(s) + AwardCarry(r, s) = due[s]
    BY <1>1 DEF FractionsAreExact
<1>4. \A q \in Runs \ {r} : payout[q].pc = "idle" /\ payout[q].todo = {} /\ payout[q].saving = {}
    BY <1>1, <1>3 DEF SeedShape, RunsInOrder
<1>5. \A u, q \in Runs : (payout'[u].pc # "idle" /\ payout'[q].pc # "idle") => u = q
    BY <1>2, <1>4
<1>6. \A s \in Seeders : (Owing(s) <=> s = x) /\ Got(s)' = Got(s)
    BY <1>1, <1>4 DEF Owing, Got
<1>7. \A s \in Seeders \ capped' : Got(s)' + fraction'[s] = due'[s]
    BY <1>1, <1>3, <1>6
<1>8. \A s \in Seeders \ capped', u \in Runs : s \in payout'[u].todo => payout'[u].carry[s] = fraction'[s]
    BY <1>1, <1>2, <1>3, <1>4
<1>9. \A u \in Runs : payout'[u].saving = {}
    BY <1>2, <1>4
<1> QED BY <1>5, <1>7, <1>8, <1>9 DEF FractionsAreExact

(***************************************************************************)
(* The steps.                                                              *)
(***************************************************************************)
LEMMA BeginIsSound ==
    ASSUME SeedInv, NEW r \in Runs, NEW marker \in {lastRun, Never}, Begin(r, marker)
    PROVE  SeedInv'
BY BeginShape, BeginKeepsTime, BeginKeepsFractions, BeginStaysExact DEF SeedInv

LEMMA ReadIsSound ==
    ASSUME SeedInv, NEW r \in Runs, NEW missed \in BOOLEAN, ReadCarry(r, missed)
    PROVE  SeedInv'
<1>1. SeedShape /\ TimeIsBounded /\ FractionsAreCounted /\ FractionsAreExact
    BY DEF SeedInv
<1>2. /\ SeedShape' /\ SeedSharing /\ payout[r].pc = "read" /\ payout'[r].pc = "pay"
      /\ payout'[r].elapsed = payout[r].elapsed
      /\ \A q \in Runs \ {r} : payout'[q] = payout[q]
      /\ mishaps' = mishaps \/ mishaps' = mishaps + 1
    BY <1>1, ReadShape
<1>3. \A s \in Seeders : covered'[s] + TimeOf(r, s)' <= covered[s] + TimeOf(r, s)
    BY <1>1, <1>2 DEF TimeOf, SeedSharing, SeedShape, SeedTypeOK, Payouts
<1>4. TimeIsBounded'
    BY <1>1, <1>2, <1>3, PayingKeepsTime DEF SeedSharing
<1> QED BY <1>1, <1>2, <1>4, ReadKeepsFractions, ReadStaysExact DEF SeedInv

LEMMA CreditIsSound ==
    ASSUME SeedInv, NEW r \in Runs, NEW x \in Seeders, Credit(r, x)
    PROVE  SeedInv'
<1>1. SeedShape /\ TimeIsBounded /\ FractionsAreCounted /\ FractionsAreExact
    BY DEF SeedInv
<1>2. /\ SeedShape' /\ Turned(r, payout[r].todo \ {x}, {x})
      /\ payout[r].pc = "pay" /\ x \in payout[r].todo
      /\ covered'[x] = covered[x] + payout[r].elapsed
      /\ \A s \in Seeders \ {x} : covered'[s] = covered[s]
      /\ now' = now /\ lastRun' = lastRun /\ mishaps' = mishaps
    BY <1>1, CreditShape
<1>3. /\ payout'[r].pc = "pay" /\ payout'[r].elapsed = payout[r].elapsed
      /\ payout'[r].todo = payout[r].todo \ {x} /\ \A q \in Runs \ {r} : payout'[q] = payout[q]
    BY <1>2 DEF Turned
<1>4. \A s \in Seeders : covered[s] \in Nat /\ payout[r].elapsed \in Nat
    BY <1>1 DEF SeedShape, SeedTypeOK, Payouts
<1>5. \A s \in Seeders : covered'[s] + TimeOf(r, s)' <= covered[s] + TimeOf(r, s)
    BY <1>2, <1>3, <1>4 DEF TimeOf
<1>6. TimeIsBounded'
    BY <1>1, <1>2, <1>3, <1>5, PayingKeepsTime
<1> QED BY <1>1, <1>2, <1>6, CreditKeepsFractions, CreditStaysExact DEF SeedInv

LEMMA SaveIsSound ==
    ASSUME SeedInv, NEW r \in Runs, NEW x \in Seeders, SaveCarry(r, x)
    PROVE  SeedInv'
<1>1. SeedShape /\ TimeIsBounded /\ FractionsAreCounted /\ FractionsAreExact
    BY DEF SeedInv
<1>2. /\ SeedShape' /\ Turned(r, payout[r].todo, {})
      /\ payout[r].pc = "pay" /\ covered' = covered
      /\ now' = now /\ lastRun' = lastRun /\ mishaps' = mishaps
    BY <1>1, SaveShape
<1>3. /\ payout'[r].pc = "pay" /\ payout'[r].elapsed = payout[r].elapsed
      /\ payout'[r].todo = payout[r].todo /\ \A q \in Runs \ {r} : payout'[q] = payout[q]
    BY <1>2 DEF Turned
<1>4. \A s \in Seeders : covered[s] \in Nat /\ payout[r].elapsed \in Nat
    BY <1>1 DEF SeedShape, SeedTypeOK, Payouts
<1>5. \A s \in Seeders : covered'[s] + TimeOf(r, s)' <= covered[s] + TimeOf(r, s)
    BY <1>2, <1>3, <1>4 DEF TimeOf
<1>6. TimeIsBounded'
    BY <1>1, <1>2, <1>3, <1>5, PayingKeepsTime
<1> QED BY <1>1, <1>2, <1>6, SaveKeepsFractions, SaveStaysExact DEF SeedInv

LEMMA LeavingOutIsSound ==
    ASSUME SeedInv, NEW r \in Runs, NEW x \in Seeders, CreditFails(r, x)
    PROVE  SeedInv'
<1>1. SeedShape /\ TimeIsBounded /\ FractionsAreCounted /\ FractionsAreExact /\ SeedTypeOK
    BY DEF SeedInv, SeedShape
<1> DEFINE b == [payout[r] EXCEPT !.todo = payout[r].todo \ {x}]
<1>2. /\ payout[r].pc = "pay" /\ payout[r].saving = {} /\ x \in payout[r].todo
      /\ payout' = [payout EXCEPT ![r] = b]
      /\ UNCHANGED <<now, economy, lastRun, fraction, paid, due, covered, capped, mishaps>>
    BY DEF CreditFails
<1>3. payout[r] \in Payouts
    BY <1>1 DEF SeedTypeOK
<1>4. /\ b \in Payouts /\ b.pc = "pay" /\ b.elapsed = payout[r].elapsed /\ b.economy = payout[r].economy
      /\ b.carry = payout[r].carry /\ b.todo = payout[r].todo \ {x} /\ b.saving = {}
    BY <1>2, <1>3 DEF Payouts
<1> HIDE DEF b
<1>5. RunsInOrder' /\ payout' \in [Runs -> Payouts] /\ Turned(r, payout[r].todo \ {x}, {})
    <2>1. payout[r].todo \ {x} \subseteq payout[r].todo
        OBVIOUS
    <2> QED BY <1>1, <1>2, <1>4, <2>1, PayShape
<1>6. SeedShape'
    BY <1>1, <1>2, <1>5 DEF SeedShape, SeedTypeOK, Payouts
<1>7. /\ payout'[r].pc = "pay" /\ payout'[r].elapsed = payout[r].elapsed /\ payout'[r].economy = payout[r].economy
      /\ payout'[r].carry = payout[r].carry /\ payout'[r].saving = payout[r].saving
      /\ payout'[r].todo \subseteq payout[r].todo /\ \A q \in Runs \ {r} : payout'[q] = payout[q]
    BY <1>2, <1>5 DEF Turned
<1>8. \A s \in Seeders : covered[s] \in Nat /\ payout[r].elapsed \in Nat
    BY <1>1 DEF SeedTypeOK, Payouts
<1>9. \A s \in Seeders : covered'[s] + TimeOf(r, s)' <= covered[s] + TimeOf(r, s)
    BY <1>2, <1>7, <1>8 DEF TimeOf
<1>10. TimeIsBounded'
    BY <1>1, <1>2, <1>6, <1>7, <1>9, PayingKeepsTime
<1>11. FractionsAreCounted'
    BY <1>1, <1>2, <1>6, <1>7, LettingGoKeepsFractions
<1>12. FractionsAreExact'
    BY <1>1, <1>2, <1>6, <1>7, LettingGoStaysExact
<1> QED BY <1>6, <1>10, <1>11, <1>12 DEF SeedInv

LEMMA LosingACarryIsSound ==
    ASSUME SeedInv, NEW r \in Runs, SaveCarryFails(r)
    PROVE  SeedInv'
<1>1. SeedShape /\ TimeIsBounded /\ FractionsAreCounted /\ FractionsAreExact /\ SeedTypeOK /\ RunsInOrder
    BY DEF SeedInv, SeedShape
<1> DEFINE b == [payout[r] EXCEPT !.saving = {}]
<1>2. /\ payout[r].saving # {} /\ payout' = [payout EXCEPT ![r] = b]
      /\ mishaps' = mishaps + 1 /\ mishaps' <= MaxMishaps
      /\ UNCHANGED <<now, economy, lastRun, fraction, paid, due, covered, capped>>
    BY DEF SaveCarryFails, Mishap
<1>3. payout[r] \in Payouts /\ payout[r].pc = "pay"
    BY <1>1, <1>2 DEF SeedTypeOK, RunsInOrder
<1>4. /\ b \in Payouts /\ b.pc = "pay" /\ b.elapsed = payout[r].elapsed /\ b.economy = payout[r].economy
      /\ b.carry = payout[r].carry /\ b.todo = payout[r].todo /\ b.saving = {}
    BY <1>3 DEF Payouts
<1> HIDE DEF b
<1>5. RunsInOrder' /\ payout' \in [Runs -> Payouts] /\ Turned(r, payout[r].todo, {})
    <2>1. PICK x \in Seeders : x \in payout[r].saving
        BY <1>2, <1>3 DEF Payouts
    <2> QED BY <1>1, <1>2, <1>3, <1>4, PayShape
<1>6. mishaps' \in 0 .. MaxMishaps
    BY <1>1, <1>2, SeedAssumption DEF SeedTypeOK
<1>7. SeedShape'
    BY <1>1, <1>2, <1>5, <1>6 DEF SeedShape, SeedTypeOK, Payouts
<1>8. /\ payout'[r].pc = "pay" /\ payout'[r].elapsed = payout[r].elapsed /\ payout'[r].economy = payout[r].economy
      /\ payout'[r].carry = payout[r].carry /\ payout'[r].saving \subseteq payout[r].saving
      /\ payout'[r].todo = payout[r].todo /\ \A q \in Runs \ {r} : payout'[q] = payout[q]
    BY <1>5 DEF Turned
<1>9. \A s \in Seeders : covered[s] \in Nat /\ payout[r].elapsed \in Nat
    BY <1>1 DEF SeedTypeOK, Payouts
<1>10. \A s \in Seeders : covered'[s] + TimeOf(r, s)' <= covered[s] + TimeOf(r, s)
    BY <1>2, <1>3, <1>8, <1>9 DEF TimeOf
<1>11. TimeIsBounded'
    BY <1>1, <1>2, <1>7, <1>8, <1>10, PayingKeepsTime
<1>12. FractionsAreCounted'
    BY <1>1, <1>2, <1>3, <1>7, <1>8, LettingGoKeepsFractions
<1>13. FractionsAreExact'
    BY <1>1, <1>2, <1>3, <1>7, <1>8, LettingGoStaysExact
<1> QED BY <1>7, <1>11, <1>12, <1>13 DEF SeedInv

LEMMA EndingIsSound ==
    ASSUME SeedInv, NEW r \in Runs, RecordRun(r) \/ RunIsLost(r)
    PROVE  SeedInv'
<1>1. SeedShape /\ TimeIsBounded /\ FractionsAreCounted /\ FractionsAreExact /\ SeedTypeOK /\ RunsInOrder
    BY DEF SeedInv, SeedShape
<1>2. /\ payout[r].pc = "pay" /\ payout' = [payout EXCEPT ![r] = NoRun]
      /\ UNCHANGED <<now, economy, fraction, paid, due, covered, capped>>
      /\ \/ lastRun' = now /\ mishaps' = mishaps /\ payout[r].saving = {}
         \/ lastRun' = lastRun /\ mishaps' = mishaps + 1 /\ mishaps' <= MaxMishaps
    BY DEF RecordRun, RunFinishes, RunIsLost, Mishap
<1>3. (lastRun' # Never) => lastRun' <= now'
    BY <1>1, <1>2, SeedAssumption DEF RunsInOrder, SeedTypeOK
<1>4. /\ RunsInOrder' /\ payout' \in [Runs -> Payouts]
      /\ payout'[r].pc = "idle" /\ payout'[r].todo = {} /\ payout'[r].saving = {}
      /\ \A q \in Runs \ {r} : payout'[q] = payout[q]
    BY <1>1, <1>2, <1>3, EndShape
<1>5. mishaps' \in 0 .. MaxMishaps /\ lastRun' \in 0 .. LastTick \cup {Never}
    BY <1>1, <1>2, SeedAssumption DEF SeedTypeOK
<1>6. SeedShape'
    BY <1>1, <1>2, <1>4, <1>5 DEF SeedShape, SeedTypeOK, Payouts
<1>7. TimeIsBounded'
    BY <1>1, <1>2, <1>4, <1>6, EndingKeepsTime
<1>8. /\ mishaps' = mishaps /\ payout'[r].saving = payout[r].saving
      \/ mishaps' = mishaps + 1
    BY <1>2, <1>4
<1>9. payout'[r].todo \subseteq payout[r].todo /\ payout'[r].saving \subseteq payout[r].saving
    BY <1>4
<1>10. FractionsAreCounted'
    BY <1>1, <1>2, <1>4, <1>6, <1>8, <1>9, LettingGoKeepsFractions
<1>11. FractionsAreExact'
    BY <1>1, <1>2, <1>4, <1>6, <1>8, <1>9, LettingGoStaysExact
<1> QED BY <1>6, <1>7, <1>10, <1>11 DEF SeedInv

\* Time passes, or the operator chooses another economy.
LEMMA WaitingIsSound ==
    ASSUME SeedInv, UNCHANGED <<lastRun, fraction, payout, paid, due, covered, capped, mishaps>>,
           economy' \in Economies \cup {"off"}, now' \in {now, now + 1}, now' <= LastTick
    PROVE  SeedInv'
<1>1. SeedShape /\ TimeIsBounded /\ FractionsAreCounted /\ FractionsAreExact
    BY DEF SeedInv
<1>2. now \in Nat /\ now' \in 0 .. LastTick /\ now <= now'
    BY <1>1, SeedAssumption DEF SeedShape, SeedTypeOK
<1>3. SeedShape'
    BY <1>1, <1>2, SeedAssumption DEF SeedShape, SeedTypeOK, RunsInOrder, Payouts
<1>4. /\ Recorded' = Recorded /\ Busy' = Busy
      /\ \A r \in Runs, s \in Seeders : TimeOf(r, s)' = TimeOf(r, s) /\ CarriedBy(r, s)' = CarriedBy(r, s)
      /\ \A r \in Runs, s \in Seeders : AwardCarry(r, s)' = AwardCarry(r, s)
      /\ \A s \in Seeders : Owing(s)' = Owing(s) /\ InHand(s)' = InHand(s) /\ Got(s)' = Got(s)
    BY DEF Recorded, Busy, TimeOf, CarriedBy, AwardCarry, Amount, IsCapped, Earned, CapThisRun, Owing, InHand, Got
<1>5. \A s \in Seeders : PendingTime(s)' = PendingTime(s) /\ CarriedOf(s)' = CarriedOf(s)
    BY <1>4 DEF PendingTime, CarriedOf
<1>6. TimeIsBounded'
    <2> SUFFICES ASSUME NEW s \in Seeders
                 PROVE  /\ covered'[s] + PendingTime(s)' <= now' + Interval + Extra(mishaps')
                        /\ covered'[s] + PendingTime(s)' <= Recorded' + Extra(mishaps' + 1)
                        /\ ~Busy' => covered'[s] + PendingTime(s)' <= Recorded' + Extra(mishaps')
        BY DEF TimeIsBounded, Extra
    <2>1. /\ covered[s] + PendingTime(s) <= now + Interval + Extra(mishaps)
          /\ covered[s] + PendingTime(s) <= Recorded + Extra(mishaps + 1)
          /\ ~Busy => covered[s] + PendingTime(s) <= Recorded + Extra(mishaps)
        BY <1>1 DEF TimeIsBounded
    <2>2. PendingTime(s) \in Nat
        BY <1>1, PendingIsNatural
    <2>3. covered[s] \in Nat /\ Interval \in Nat /\ Extra(mishaps) \in Nat
        <3>1. covered[s] \in Nat /\ mishaps \in Nat
            BY <1>1, SeedAssumption DEF SeedShape, SeedTypeOK
        <3> QED BY <3>1, ExtraAdds, SeedAssumption
    <2>4. covered[s] + PendingTime(s) <= now' + Interval + Extra(mishaps)
        BY <1>2, <2>1, <2>2, <2>3
    <2> QED BY <1>4, <1>5, <2>1, <2>4
<1>7. FractionsAreCounted'
    <2> SUFFICES ASSUME NEW s \in Seeders
                 PROVE  /\ ~Owing(s)' => Got(s)' + fraction'[s] <= due'[s] + Lost(mishaps')
                        /\ InHand(s)' => Got(s)' + CarriedOf(s)' <= due'[s] + Lost(mishaps')
                        /\ ~InHand(s)' => Got(s)' + fraction'[s] + CarriedOf(s)' <= due'[s] + Lost(mishaps' + 1)
        BY DEF FractionsAreCounted, Lost
    <2> QED BY <1>1, <1>4, <1>5 DEF FractionsAreCounted
<1>8. FractionsAreExact'
    BY <1>1, <1>4 DEF FractionsAreExact
<1> QED BY <1>3, <1>6, <1>7, <1>8 DEF SeedInv

LEMMA SeedInductive == SeedSpec => []SeedInv
<1>1. SeedInit => SeedInv
    <2> SUFFICES ASSUME SeedInit PROVE SeedInv
        OBVIOUS
    <2>1. /\ now = 0 /\ economy = "off" /\ lastRun = Never /\ fraction = [s \in Seeders |-> 0]
          /\ payout = [r \in Runs |-> NoRun] /\ paid = [s \in Seeders |-> 0] /\ due = [s \in Seeders |-> 0]
          /\ covered = [s \in Seeders |-> 0] /\ capped = {} /\ mishaps = 0
        BY DEF SeedInit
    <2>2. 0 \in 0 .. Unit - 1 /\ 0 \in 0 .. LastTick /\ 0 \in 0 .. MaxMishaps /\ Unit \in Nat
        BY SeedAssumption
    <2>3. fraction \in [Seeders -> 0 .. Unit - 1]
        BY <2>1, <2>2
    <2>4. NoRun \in Payouts /\ NoRun.pc = "idle" /\ NoRun.elapsed = 0 /\ NoRun.todo = {} /\ NoRun.saving = {}
        BY <2>1, <2>3 DEF NoRun, Payouts
    <2>5. \A r \in Runs : payout[r].pc = "idle" /\ payout[r].elapsed = 0 /\ payout[r].todo = {} /\ payout[r].saving = {}
        BY <2>1, <2>4
    <2>6. SeedTypeOK
        BY <2>1, <2>2, <2>3, <2>4 DEF SeedTypeOK
    <2>7. SeedShape
        BY <2>1, <2>5, <2>6, ExtraAdds DEF SeedShape, RunsInOrder
    <2>8. ~Busy /\ \A s \in Seeders : ~Owing(s) /\ ~InHand(s)
        BY <2>5 DEF Busy, Owing, InHand
    <2>9. \A s \in Seeders : CarriedOf(s) = 0 /\ PendingTime(s) = 0
        BY <2>7, <2>8, IdleCarriesNothing, IdleTakesNoTime
    <2>10. \A s \in Seeders : Got(s) = 0 /\ due[s] = 0 /\ covered[s] = 0 /\ fraction[s] = 0
        BY <2>1, <2>2 DEF Got
    <2>11. /\ Extra(mishaps) \in Nat /\ Extra(mishaps + 1) \in Nat /\ Lost(mishaps) \in Nat /\ Lost(mishaps + 1) \in Nat
           /\ Recorded = 0 /\ Interval \in Nat
        BY <2>1, ExtraAdds, LostAdds, SeedAssumption DEF Recorded
    <2>12. TimeIsBounded
        BY <2>1, <2>9, <2>10, <2>11 DEF TimeIsBounded
    <2>13. FractionsAreCounted
        BY <2>8, <2>9, <2>10, <2>11 DEF FractionsAreCounted
    <2>14. FractionsAreExact
        BY <2>5, <2>10 DEF FractionsAreExact
    <2> QED BY <2>7, <2>12, <2>13, <2>14 DEF SeedInv
<1>2. SeedInv /\ [SeedNext]_seedVars => SeedInv'
    <2> SUFFICES ASSUME SeedInv, [SeedNext]_seedVars PROVE SeedInv'
        OBVIOUS
    <2>1. now \in 0 .. LastTick /\ economy \in Economies \cup {"off"}
        BY DEF SeedInv, SeedShape, SeedTypeOK
    <2>2. CASE SeedTick
        BY <2>1, <2>2, WaitingIsSound, SeedAssumption DEF SeedTick
    <2>3. ASSUME NEW e \in Economies \cup {"off"}, SetEconomy(e) PROVE SeedInv'
        BY <2>1, <2>3, WaitingIsSound DEF SetEconomy
    <2>4. ASSUME NEW r \in Runs, NEW marker \in {lastRun, Never}, Begin(r, marker) PROVE SeedInv'
        BY <2>4, BeginIsSound
    <2>5. ASSUME NEW r \in Runs, NEW missed \in BOOLEAN, ReadCarry(r, missed) PROVE SeedInv'
        BY <2>5, ReadIsSound
    <2>6. ASSUME NEW r \in Runs, SaveCarryFails(r) \/ RecordRun(r) \/ RunIsLost(r) PROVE SeedInv'
        BY <2>6, LosingACarryIsSound, EndingIsSound
    <2>7. ASSUME NEW r \in Runs, NEW x \in Seeders, Credit(r, x) \/ CreditFails(r, x) \/ SaveCarry(r, x)
          PROVE  SeedInv'
        BY <2>7, CreditIsSound, LeavingOutIsSound, SaveIsSound
    <2>8. CASE UNCHANGED seedVars
        BY <2>1, <2>8, WaitingIsSound DEF seedVars
    <2> QED BY <2>2, <2>3, <2>4, <2>5, <2>6, <2>7, <2>8 DEF SeedNext
<1> QED BY <1>1, <1>2, PTL DEF SeedSpec

\* Type correctness of the clock, the runs, the points and the fractions.
THEOREM SeedTypeCorrect == SeedSpec => []SeedTypeOK
<1>1. SeedInv => SeedTypeOK
    BY DEF SeedInv, SeedShape
<1> QED BY <1>1, SeedInductive, PTL

\* For every number of members, of runs at once and of mishaps, every rate, cap and
\* interval: no time is paid for twice but at a mishap, which costs one catch-up, and
\* a member has what they earned to the fraction, less than a point off for each
\* mishap and exactly without one (runSeedPoints, awardFor).
THEOREM EarnedIsPaid == SeedSpec => []EarnedIsPaidOnce
<1>1. SeedInv => EarnedIsPaidOnce
    <2> SUFFICES ASSUME SeedInv PROVE NoTimePaidTwice /\ PaidToTheFraction
        BY DEF EarnedIsPaidOnce
    <2>1. SeedShape /\ TimeIsBounded /\ FractionsAreCounted /\ FractionsAreExact
        BY DEF SeedInv
    <2>2. NoTimePaidTwice
        <3> SUFFICES ASSUME NEW s \in Seeders PROVE covered[s] <= now + Interval + mishaps * CatchUp
            BY DEF NoTimePaidTwice
        <3>1. PendingTime(s) \in Nat
            BY <2>1, PendingIsNatural
        <3>2. covered[s] + PendingTime(s) <= now + Interval + Extra(mishaps)
            BY <2>1 DEF TimeIsBounded
        <3>3. covered[s] \in Nat /\ now \in Nat /\ Interval \in Nat /\ mishaps \in Nat
            BY <2>1, SeedAssumption DEF SeedShape, SeedTypeOK
        <3>4. Extra(mishaps) \in Nat
            BY <3>3, ExtraAdds
        <3>5. covered[s] <= now + Interval + Extra(mishaps)
            BY <3>1, <3>2, <3>3, <3>4
        <3> QED BY <3>5 DEF Extra
    <2>3. PaidToTheFraction
        <3> SUFFICES ASSUME NEW s \in Seeders, ~Owing(s)
                     PROVE  /\ paid[s] * Unit + fraction[s] <= due[s] + mishaps * (Unit - 1)
                            /\ (mishaps = 0 /\ s \notin capped) => paid[s] * Unit + fraction[s] = due[s]
            BY DEF PaidToTheFraction
        <3>1. Got(s) + fraction[s] <= due[s] + Lost(mishaps)
            BY <2>1 DEF FractionsAreCounted
        <3>2. (mishaps = 0 /\ s \notin capped) => Got(s) + fraction[s] = due[s]
            BY <2>1 DEF FractionsAreExact
        <3> QED BY <3>1, <3>2 DEF Got, Lost
    <2> QED BY <2>2, <2>3
<1> QED BY <1>1, SeedInductive, PTL

(***************************************************************************)
(* Carts.  What is in a cart and what the tabs that passed its bound are   *)
(* about to add to it.                                                     *)
(***************************************************************************)
Adding(b, m) == IF tab[b].op = "put" /\ tab[b].of = m THEN Cardinality(tab[b].ids) ELSE 0
BeingAdded(m) == Total([b \in Browsing |-> Adding(b, m)], Browsing)
CartBound == CartCap + (Cardinality(Browsing) - 1) * CartMax

BatchesFit ==
    \A b \in Browsing : tab[b].op \in {"put", "mark", "wish"} =>
        tab[b].of \in Keepers /\ (tab[b].op = "put" => Cardinality(tab[b].ids) <= CartMax)
AddingFits == \A m \in Keepers \ unread : Len(cart[m]) + BeingAdded(m) <= CartBound
CartInv == ListTypeOK /\ BatchesFit /\ AddingFits

Tabs == [op : {"idle", "put", "mark", "wish"}, of : Keepers \cup {NoKeeper}, ids : SUBSET Releases]

\* A set put in a row has its members, once each.
LEMMA SetInARow ==
    ASSUME NEW S, IsFiniteSet(S)
    PROVE  /\ SetToSeq(S) \in [1 .. Cardinality(S) -> S] /\ IsInjective(SetToSeq(S))
           /\ SetToSeq(S) \in Seq(S) /\ Len(SetToSeq(S)) = Cardinality(S) /\ Cardinality(S) \in Nat
<1>1. Cardinality(S) \in Nat /\ ExistsBijection(1 .. Cardinality(S), S)
    BY FS_CardinalityType
<1>2. \E f \in [1 .. Cardinality(S) -> S] : IsInjective(f)
    BY <1>1 DEF ExistsBijection, Bijection, Injection
<1>3. SetToSeq(S) \in [1 .. Cardinality(S) -> S] /\ IsInjective(SetToSeq(S))
    BY <1>2 DEF SetToSeq
<1> DEFINE n == Cardinality(S)
<1>4. \A f \in [1 .. n -> S] : n \in Nat => f \in Seq(S) /\ Len(f) = n
    OBVIOUS
<1> QED BY <1>1, <1>3, <1>4

\* The rows of a statement come after those that were there, and none is there twice.
LEMMA AddedRows ==
    ASSUME NEW s \in Seq(Releases), IsInjective(s), NEW S \in SUBSET Releases
    PROVE  /\ s \o SetToSeq(S \ Range(s)) \in Seq(Releases)
           /\ IsInjective(s \o SetToSeq(S \ Range(s)))
           /\ Len(s \o SetToSeq(S \ Range(s))) <= Len(s) + Cardinality(S)
           /\ Len(s) \in Nat /\ Cardinality(S) \in Nat
<1> DEFINE T == S \ Range(s)
           u == SetToSeq(T)
<1>1. IsFiniteSet(S) /\ IsFiniteSet(T) /\ Cardinality(T) <= Cardinality(S) /\ Cardinality(S) \in Nat
    BY ListAssumption, FS_Subset, FS_CardinalityType
<1>2. u \in [1 .. Cardinality(T) -> T] /\ IsInjective(u) /\ u \in Seq(T) /\ Len(u) = Cardinality(T)
    BY <1>1, SetInARow
<1>3. \A x \in T : x \in Releases /\ \A i \in 1 .. Len(s) : s[i] # x
    BY DEF Range
<1> HIDE DEF T, u
<1>4. u \in Seq(Releases) /\ \A i \in 1 .. Len(u) : u[i] \in T
    BY <1>2, <1>3
<1>5. s \o u \in Seq(Releases) /\ Len(s \o u) = Len(s) + Len(u)
    BY <1>4
<1>6. IsInjective(s \o u)
    <2> SUFFICES ASSUME NEW i \in 1 .. Len(s) + Len(u), NEW j \in 1 .. Len(s) + Len(u), (s \o u)[i] = (s \o u)[j]
                 PROVE  i = j
        BY <1>5 DEF IsInjective
    <2>1. \A k \in 1 .. Len(s) + Len(u) : (s \o u)[k] = IF k <= Len(s) THEN s[k] ELSE u[k - Len(s)]
        BY <1>4
    <2>2. \A k \in 1 .. Len(s) + Len(u) : k > Len(s) => k - Len(s) \in 1 .. Len(u)
        BY <1>4
    <2>3. CASE i <= Len(s) /\ j <= Len(s)
        BY <2>1, <2>3 DEF IsInjective
    <2>4. CASE i > Len(s) /\ j > Len(s)
        BY <1>2, <1>4, <2>1, <2>2, <2>4 DEF IsInjective
    <2>5. CASE (i <= Len(s) /\ j > Len(s)) \/ (j <= Len(s) /\ i > Len(s))
        BY <1>3, <1>4, <2>1, <2>2, <2>5
    <2> QED BY <1>4, <2>3, <2>4, <2>5
<1> QED BY <1>1, <1>2, <1>5, <1>6 DEF T, u

\* What is left of a cart is shorter, and has none twice.
LEMMA LeftRows ==
    ASSUME NEW s \in Seq(Releases), IsInjective(s), NEW ids, NEW t \in LeftOf(s, ids)
    PROVE  t \in Seq(Releases) /\ IsInjective(t) /\ Len(t) <= Len(s) /\ Len(t) \in Nat /\ Len(s) \in Nat
<1>1. PICK n \in 0 .. Len(s) : t \in [1 .. n -> Range(s) \ ids]
    BY DEF LeftOf, SeqOf
<1>2. \A x \in Range(s) : x \in Releases
    BY DEF Range
<1>3. t \in [1 .. n -> Releases] /\ n \in Nat /\ n <= Len(s)
    BY <1>1, <1>2
<1>4. t \in Seq(Releases) /\ Len(t) = n
    BY <1>3
<1>5. \A i, j \in 1 .. n : i < j => t[i] # t[j]
    BY <1>1 DEF LeftOf, InOrderOf, IsInjective
<1>6. IsInjective(t)
    BY <1>3, <1>5 DEF IsInjective
<1> QED BY <1>3, <1>4, <1>6

NaturalAdding == \A b \in Browsing, m \in Keepers : Adding(b, m) \in Nat
LEMMA AddingIsNatural == ListTypeOK => NaturalAdding
<1> SUFFICES ASSUME ListTypeOK, NEW b \in Browsing, NEW m \in Keepers PROVE Adding(b, m) \in Nat
    BY DEF NaturalAdding
<1>1. tab[b].ids \in SUBSET Releases
    BY DEF ListTypeOK
<1>2. Cardinality(tab[b].ids) \in Nat
    BY <1>1, ListAssumption, FS_Subset, FS_CardinalityType
<1> QED BY <1>2 DEF Adding

LEMMA OneTabTurns ==
    ASSUME ListTypeOK, ListTypeOK', NEW b \in Browsing, \A c \in Browsing \ {b} : tab'[c] = tab[c], NEW m \in Keepers
    PROVE  /\ BeingAdded(m) \in Nat /\ BeingAdded(m)' \in Nat /\ Adding(b, m) \in Nat /\ Adding(b, m)' \in Nat
           /\ BeingAdded(m)' = BeingAdded(m) + (Adding(b, m)' - Adding(b, m))
<1> DEFINE f == [c \in Browsing |-> Adding(c, m)]
           h == [c \in Browsing |-> Adding(c, m)']
<1>1. \A c \in Browsing : Adding(c, m) \in Nat
    BY AddingIsNatural DEF NaturalAdding
<1>2. \A c \in Browsing : Adding(c, m)' \in Nat
    <2>1. ListTypeOK' => NaturalAdding'
        BY AddingIsNatural, PTL
    <2> QED BY <2>1 DEF NaturalAdding
<1>3. /\ f \in [Browsing -> Nat] /\ h \in [Browsing -> Nat] /\ f[b] = Adding(b, m) /\ h[b] = Adding(b, m)'
      /\ \A c \in Browsing : c # b => h[c] = f[c]
    BY <1>1, <1>2 DEF Adding
<1>4. BeingAdded(m) = Total(f, Browsing) /\ BeingAdded(m)' = Total(h, Browsing)
    BY DEF BeingAdded
<1> HIDE DEF f, h
<1>5. IsFiniteSet(Browsing) /\ \A g \in [Browsing -> Nat] : g \in [Browsing -> Int]
    BY ListAssumption
<1>6. Total(f, Browsing) \in Nat /\ Total(h, Browsing) \in Nat
    BY <1>3, <1>5, TotalOfNaturals
<1>7. Total(h, Browsing) = Total(f, Browsing) + (h[b] - f[b])
    BY <1>3, <1>5, TotalChanges
<1> QED BY <1>3, <1>4, <1>6, <1>7

\* The bound with one tab's batch in it: the others add no more than CartMax each.
LEMMA OthersAddNoMore ==
    ASSUME ListTypeOK, BatchesFit, NEW b \in Browsing, NEW m \in Keepers
    PROVE  BeingAdded(m) <= Adding(b, m) + (Cardinality(Browsing) - 1) * CartMax
<1> DEFINE f == [c \in Browsing |-> Adding(c, m)]
           g == [c \in Browsing |-> CartMax]
           h == [c \in Browsing |-> IF c = b THEN Adding(b, m) ELSE CartMax]
           n == Cardinality(Browsing)
<1>1. \A c \in Browsing : Adding(c, m) \in Nat /\ Adding(c, m) <= CartMax
    <2>1. NaturalAdding
        BY AddingIsNatural
    <2> QED BY <2>1, ListAssumption DEF Adding, BatchesFit, NaturalAdding
<1>2. CartMax \in Nat /\ IsFiniteSet(Browsing) /\ n \in Nat
    BY ListAssumption, FS_CardinalityType
<1>3. /\ f \in [Browsing -> Int] /\ g \in [Browsing -> Int] /\ h \in [Browsing -> Int]
      /\ \A c \in Browsing : f[c] <= h[c]
      /\ \A c \in Browsing : c # b => h[c] = g[c]
      /\ h[b] = Adding(b, m) /\ g[b] = CartMax
    BY <1>1, <1>2
<1>4. BeingAdded(m) = Total(f, Browsing) /\ Total(g, Browsing) = CartMax * n
    BY <1>2, TotalOfConstant DEF BeingAdded
<1> HIDE DEF f, g, h
<1>5. Total(f, Browsing) <= Total(h, Browsing)
    BY <1>2, <1>3, TotalGrows
<1>6. Total(h, Browsing) = Total(g, Browsing) + (h[b] - g[b])
    BY <1>2, <1>3, TotalChanges
<1>7. CartMax * n - CartMax = (n - 1) * CartMax /\ CartMax * n \in Nat
    BY <1>2
<1>8. Total(h, Browsing) = Adding(b, m) + (n - 1) * CartMax
    <2> DEFINE p == CartMax * n
               q == (n - 1) * CartMax
    <2>1. p - CartMax = q /\ p \in Nat /\ Total(h, Browsing) = p + (Adding(b, m) - CartMax)
        BY <1>3, <1>4, <1>6, <1>7
    <2> HIDE DEF p, q
    <2> QED BY <1>1, <1>2, <2>1 DEF q
<1> QED BY <1>4, <1>5, <1>8

\* One tab takes a step and a cart grows by no more than the tab lets go of.
LEMMA StepFits ==
    ASSUME CartInv, ListTypeOK', NEW b \in Browsing, \A c \in Browsing \ {b} : tab'[c] = tab[c],
           unread \subseteq unread',
           \A m \in Keepers \ unread' : Len(cart'[m]) + Adding(b, m)' <= Len(cart[m]) + Adding(b, m)
    PROVE  AddingFits'
<1> SUFFICES ASSUME NEW m \in Keepers \ unread' PROVE Len(cart'[m]) + BeingAdded(m)' <= CartBound
    BY DEF AddingFits, CartBound
<1>1. /\ BeingAdded(m) \in Nat /\ BeingAdded(m)' \in Nat /\ Adding(b, m) \in Nat /\ Adding(b, m)' \in Nat
      /\ BeingAdded(m)' = BeingAdded(m) + (Adding(b, m)' - Adding(b, m))
    BY OneTabTurns DEF CartInv
<1>2. Len(cart[m]) + BeingAdded(m) <= CartBound
    BY DEF CartInv, AddingFits
<1>3. Len(cart[m]) \in Nat /\ Len(cart'[m]) \in Nat
    BY DEF CartInv, ListTypeOK
<1>4. CartBound \in Int
    BY ListAssumption, FS_CardinalityType DEF CartBound
<1>5. Len(cart'[m]) + Adding(b, m)' <= Len(cart[m]) + Adding(b, m)
    OBVIOUS
<1>6. \A l, k, a, d, w, v \in Nat, n \in Int :
         (l + w <= n /\ v = w + (d - a) /\ k + d <= l + a) => k + v <= n
    OBVIOUS
<1> QED BY <1>1, <1>2, <1>3, <1>4, <1>5, <1>6

\* Nothing of carts and tabs changes but that carts get shorter.
LEMMA RestFits ==
    ASSUME CartInv, ListTypeOK', tab' = tab, unread' = unread,
           \A m \in Keepers : Len(cart'[m]) <= Len(cart[m])
    PROVE  CartInv'
<1>1. PICK b \in Browsing : TRUE
    BY ListAssumption
<1>2. AddingFits'
    <2>1. \A m \in Keepers : Adding(b, m)' = Adding(b, m)
        BY DEF Adding
    <2>2. \A m \in Keepers : Len(cart[m]) \in Nat /\ Len(cart'[m]) \in Nat
        BY DEF CartInv, ListTypeOK
    <2>3. NaturalAdding
        BY AddingIsNatural DEF CartInv
    <2>4. \A m \in Keepers : Len(cart'[m]) + Adding(b, m)' <= Len(cart[m]) + Adding(b, m)
        BY <1>1, <2>1, <2>2, <2>3 DEF NaturalAdding
    <2> QED BY <1>1, <2>4, StepFits
<1>3. BatchesFit'
    BY DEF CartInv, BatchesFit
<1> QED BY <1>2, <1>3 DEF CartInv

LEMMA QuietTab == Quiet \in Tabs /\ Quiet.op = "idle"
BY DEF Quiet, Tabs

\* A submission that fits is counted once; one whose cart cannot be counted takes
\* the member out of the count.
LEMMA CountingFits ==
    ASSUME CartInv, NEW b \in Browsing, NEW m \in Keepers, NEW ids \in Batches, NEW readable \in BOOLEAN,
           CartCount(b, m, ids, readable)
    PROVE  CartInv'
<1>1. /\ ListTypeOK /\ BatchesFit /\ AddingFits
      /\ ids \in SUBSET Releases /\ Cardinality(ids) <= CartMax
    BY DEF CartInv, Batches
<1>2. Cardinality(ids) \in Nat
    BY <1>1, ListAssumption, FS_Subset, FS_CardinalityType
<1> DEFINE x == [op |-> "put", of |-> m, ids |-> ids]
<1>3. /\ tab[b].op = "idle" /\ (readable => Len(cart[m]) + Cardinality(ids) <= CartCap)
      /\ tab' = [tab EXCEPT ![b] = x]
      /\ unread' = (IF readable THEN unread ELSE unread \cup {m})
      /\ UNCHANGED <<cart, marks, grabs, wish>>
    BY DEF CartCount, Fits
<1>4. tab \in [Browsing -> Tabs] /\ x \in Tabs /\ x.op = "put" /\ x.of = m /\ x.ids = ids
    BY <1>1 DEF ListTypeOK, Tabs
<1> HIDE DEF x
<1>5. tab' \in [Browsing -> Tabs] /\ tab'[b] = x /\ \A c \in Browsing \ {b} : tab'[c] = tab[c]
    BY <1>3, <1>4
<1>6. ListTypeOK'
    BY <1>1, <1>3, <1>5 DEF ListTypeOK, Tabs
<1>7. BatchesFit'
    BY <1>1, <1>4, <1>5 DEF BatchesFit
<1>8. AddingFits'
    <2> SUFFICES ASSUME NEW k \in Keepers \ unread' PROVE Len(cart[k]) + BeingAdded(k)' <= CartBound
        BY <1>3 DEF AddingFits, CartBound
    <2>1. /\ BeingAdded(k) \in Nat /\ Adding(b, k) = 0
          /\ BeingAdded(k)' = BeingAdded(k) + (Adding(b, k)' - Adding(b, k))
        <3>1. Adding(b, k) = 0
            BY <1>3 DEF Adding
        <3> QED BY <1>1, <1>5, <1>6, <3>1, OneTabTurns
    <2>2. k \notin unread /\ Len(cart[k]) \in Nat /\ CartBound \in Int
        BY <1>1, <1>3, ListAssumption, FS_CardinalityType DEF ListTypeOK, CartBound
    <2>3. CASE k # m
        <3>1. Adding(b, k)' = 0
            BY <1>4, <1>5, <2>3 DEF Adding
        <3>2. Len(cart[k]) + BeingAdded(k) <= CartBound
            BY <1>1, <2>2 DEF AddingFits
        <3> QED BY <2>1, <2>2, <3>1, <3>2
    <2>4. CASE k = m
        <3>1. readable
            BY <1>3, <2>4
        <3>2. Adding(b, k)' = Cardinality(ids)
            BY <1>4, <1>5, <2>4 DEF Adding
        <3>3. BeingAdded(k) <= (Cardinality(Browsing) - 1) * CartMax
            <4>1. BeingAdded(k) <= Adding(b, k) + (Cardinality(Browsing) - 1) * CartMax
                BY <1>1, OthersAddNoMore
            <4>2. (Cardinality(Browsing) - 1) * CartMax \in Int
                BY ListAssumption, FS_CardinalityType
            <4> DEFINE r == (Cardinality(Browsing) - 1) * CartMax
            <4>3. BeingAdded(k) <= 0 + r /\ r \in Int
                BY <2>1, <4>1, <4>2
            <4> HIDE DEF r
            <4>4. BeingAdded(k) <= r
                BY <4>3
            <4> QED BY <4>4 DEF r
        <3>4. Len(cart[k]) + Cardinality(ids) <= CartCap /\ CartCap \in Nat
            BY <1>3, <2>4, <3>1, ListAssumption
        <3> DEFINE r == (Cardinality(Browsing) - 1) * CartMax
        <3>5. r \in Int /\ CartBound = CartCap + r /\ BeingAdded(k) <= r
            BY <3>3, ListAssumption, FS_CardinalityType DEF CartBound
        <3> HIDE DEF r
        <3>6. \A l, n, w, c \in Nat, z \in Int : (l + n <= c /\ w <= z) => l + (w + (n - 0)) <= c + z
            OBVIOUS
        <3>7. Len(cart[k]) + (BeingAdded(k) + (Cardinality(ids) - 0)) <= CartCap + r
            BY <1>2, <2>1, <2>2, <3>4, <3>5, <3>6
        <3> QED BY <2>1, <3>2, <3>5, <3>7
    <2> QED BY <2>3, <2>4
<1> QED BY <1>6, <1>7, <1>8 DEF CartInv

LEMMA PuttingFits ==
    ASSUME CartInv, NEW b \in Browsing, NEW fails \in BOOLEAN, AddToCart(b, fails)
    PROVE  CartInv'
<1> DEFINE k == tab[b].of
           ids == tab[b].ids
<1>1. /\ ListTypeOK /\ BatchesFit /\ tab \in [Browsing -> Tabs]
      /\ cart \in [Keepers -> Seq(Releases)] /\ \A m \in Keepers : IsInjective(cart[m])
    BY DEF CartInv, ListTypeOK, Tabs
<1>2. /\ tab[b].op = "put" /\ tab' = [tab EXCEPT ![b] = Quiet]
      /\ cart' = IF fails THEN cart ELSE [cart EXCEPT ![k] = cart[k] \o SetToSeq(ids \ Range(cart[k]))]
      /\ UNCHANGED <<marks, grabs, wish, unread>>
    BY DEF AddToCart, AddedTo, InCart
<1>3. k \in Keepers /\ ids \in SUBSET Releases
    BY <1>1, <1>2 DEF BatchesFit, Tabs
<1> DEFINE u == cart[k] \o SetToSeq(ids \ Range(cart[k]))
<1>4. /\ u \in Seq(Releases) /\ IsInjective(u) /\ Len(u) <= Len(cart[k]) + Cardinality(ids)
      /\ Len(cart[k]) \in Nat /\ Cardinality(ids) \in Nat
    BY <1>1, <1>3, AddedRows
<1>5. cart' = IF fails THEN cart ELSE [cart EXCEPT ![k] = u]
    BY <1>2
<1> HIDE DEF u
<1>6. /\ cart' \in [Keepers -> Seq(Releases)] /\ \A m \in Keepers : IsInjective(cart'[m])
      /\ \A m \in Keepers \ {k} : cart'[m] = cart[m]
      /\ cart'[k] = IF fails THEN cart[k] ELSE u
    BY <1>1, <1>3, <1>4, <1>5
<1>7. tab' \in [Browsing -> Tabs] /\ tab'[b].op = "idle" /\ \A c \in Browsing \ {b} : tab'[c] = tab[c]
    BY <1>1, <1>2, QuietTab
<1>8. ListTypeOK'
    BY <1>1, <1>2, <1>6, <1>7 DEF ListTypeOK, Tabs
<1>9. BatchesFit'
    BY <1>1, <1>7 DEF BatchesFit
<1>10. ASSUME NEW m \in Keepers PROVE Len(cart'[m]) + Adding(b, m)' <= Len(cart[m]) + Adding(b, m)
    <2>1. Adding(b, m)' = 0
        BY <1>7 DEF Adding
    <2>2. CASE m = k
        <3>1. Adding(b, m) = Cardinality(ids)
            BY <1>2, <2>2 DEF Adding
        <3>2. Len(cart'[m]) \in Nat
            BY <1>6
        <3>3. cart'[m] = cart[k] \/ cart'[m] = u
            BY <1>6, <2>2
        <3>4. Len(cart'[m]) <= Len(cart[k]) + Cardinality(ids)
            BY <1>4, <3>2, <3>3
        <3> QED BY <1>4, <2>1, <2>2, <3>1, <3>2, <3>4
    <2>3. CASE m # k
        <3>1. Adding(b, m) = 0 /\ cart'[m] = cart[m]
            BY <1>6, <2>3 DEF Adding
        <3>2. Len(cart[m]) \in Nat
            BY <1>1
        <3> QED BY <2>1, <3>1, <3>2
    <2> QED BY <2>2, <2>3
<1>11. AddingFits'
    BY <1>2, <1>7, <1>8, <1>10, StepFits
<1> QED BY <1>8, <1>9, <1>11 DEF CartInv

LEMMA RemovingFits ==
    ASSUME CartInv, NEW m \in Keepers, NEW ids \in SUBSET Releases, RemoveFromCart(m, ids)
    PROVE  CartInv'
<1>1. /\ ListTypeOK /\ cart \in [Keepers -> Seq(Releases)] /\ \A k \in Keepers : IsInjective(cart[k])
    BY DEF CartInv, ListTypeOK
<1>2. PICK t \in LeftOf(cart[m], ids) : cart' = [cart EXCEPT ![m] = t]
    BY DEF RemoveFromCart
<1>3. t \in Seq(Releases) /\ IsInjective(t) /\ Len(t) <= Len(cart[m])
    BY <1>1, LeftRows
<1>4. /\ cart' \in [Keepers -> Seq(Releases)] /\ \A k \in Keepers : IsInjective(cart'[k])
      /\ \A k \in Keepers : Len(cart'[k]) <= Len(cart[k])
    BY <1>1, <1>2, <1>3
<1>5. UNCHANGED <<marks, grabs, wish, tab, unread>>
    BY DEF RemoveFromCart
<1>6. ListTypeOK'
    BY <1>1, <1>4, <1>5 DEF ListTypeOK
<1> QED BY <1>4, <1>5, <1>6, RestFits

\* The marks, the grabs and the wishes are beside the carts.
LEMMA ListingFits ==
    ASSUME CartInv, NEW m \in Keepers,
           \/ BookmarkMany(m)
           \/ \E had \in SUBSET Releases : CartZip(m, had)
           \/ \E x \in Wishes, state \in {"none", "open", "filled"} : UpdateWish(m, x, state)
    PROVE  CartInv'
<1>1. ListTypeOK /\ cart \in [Keepers -> Seq(Releases)]
    BY DEF CartInv, ListTypeOK
<1>2. cart' = cart /\ tab' = tab /\ unread' = unread
    BY DEF BookmarkMany, CartZip, UpdateWish
<1>3. InCart(m) \subseteq Releases
    BY <1>1 DEF InCart, Range
<1>4. marks' \subseteq Keepers \X Releases /\ grabs' \subseteq Keepers \X Releases
    BY <1>1, <1>3 DEF BookmarkMany, CartZip, UpdateWish, ListTypeOK
<1>5. wish' \in [Wishes -> [state : {"none", "open", "filled"}, of : Keepers \cup {NoKeeper}]]
    <2>1. wish \in [Wishes -> [state : {"none", "open", "filled"}, of : Keepers \cup {NoKeeper}]]
        BY <1>1 DEF ListTypeOK
    <2>2. CASE wish' = wish
        BY <2>1, <2>2
    <2>3. ASSUME NEW x \in Wishes, NEW state \in {"none", "open", "filled"}, UpdateWish(m, x, state)
          PROVE  wish' \in [Wishes -> [state : {"none", "open", "filled"}, of : Keepers \cup {NoKeeper}]]
        <3> DEFINE w == IF state = "none" THEN NoWish ELSE [wish[x] EXCEPT !.state = state]
        <3>1. wish' = [wish EXCEPT ![x] = w]
            BY <2>3 DEF UpdateWish
        <3>2. w \in [state : {"none", "open", "filled"}, of : Keepers \cup {NoKeeper}]
            BY <2>1 DEF NoWish
        <3> HIDE DEF w
        <3> QED BY <2>1, <3>1, <3>2
    <2> QED BY <2>2, <2>3 DEF BookmarkMany, CartZip
<1>6. ListTypeOK'
    BY <1>1, <1>2, <1>4, <1>5 DEF ListTypeOK
<1>7. \A k \in Keepers : Len(cart'[k]) <= Len(cart[k])
    <2>1. \A k \in Keepers : Len(cart[k]) \in Nat
        BY <1>1
    <2> QED BY <1>2, <2>1
<1> QED BY <1>2, <1>6, <1>7, RestFits

\* A tab that marks or wishes adds to no cart.
LEMMA MarkingFits ==
    ASSUME CartInv, NEW b \in Browsing,
           \/ \E m \in Keepers : CountOpenWishes(b, m) \/ \E r \in Releases : ToggleDeletes(b, m, r)
           \/ \E fails \in BOOLEAN : ToggleInserts(b, fails)
           \/ \E x \in Wishes : AddWish(b, x)
    PROVE  CartInv'
<1>1. ListTypeOK /\ BatchesFit /\ cart \in [Keepers -> Seq(Releases)] /\ tab \in [Browsing -> Tabs]
    BY DEF CartInv, ListTypeOK, Tabs
<1>2. cart' = cart /\ unread' = unread /\ grabs' = grabs /\ tab[b].op # "put"
    BY DEF CountOpenWishes, ToggleDeletes, ToggleInserts, AddWish
<1>3. PICK y \in Tabs : /\ tab' = [tab EXCEPT ![b] = y] /\ y.op # "put"
                        /\ y.op \in {"mark", "wish"} => y.of \in Keepers
    <2>1. ASSUME NEW m \in Keepers, CountOpenWishes(b, m)
          PROVE  \E y \in Tabs : /\ tab' = [tab EXCEPT ![b] = y] /\ y.op # "put"
                                 /\ y.op \in {"mark", "wish"} => y.of \in Keepers
        <3> DEFINE y == [op |-> "wish", of |-> m, ids |-> {}]
        <3>1. y \in Tabs /\ y.op = "wish" /\ y.of = m
            BY DEF Tabs
        <3>2. tab' = [tab EXCEPT ![b] = y]
            BY <2>1 DEF CountOpenWishes
        <3> QED BY <3>1, <3>2
    <2>2. ASSUME NEW m \in Keepers, NEW r \in Releases, ToggleDeletes(b, m, r)
          PROVE  \E y \in Tabs : /\ tab' = [tab EXCEPT ![b] = y] /\ y.op # "put"
                                 /\ y.op \in {"mark", "wish"} => y.of \in Keepers
        <3> DEFINE y == [op |-> "mark", of |-> m, ids |-> {r}]
        <3>1. y \in Tabs /\ y.op = "mark" /\ y.of = m
            BY DEF Tabs
        <3>2. tab' = tab \/ tab' = [tab EXCEPT ![b] = y]
            BY <2>2 DEF ToggleDeletes
        <3>3. tab[b] \in Tabs /\ tab[b].op = "idle" /\ tab = [tab EXCEPT ![b] = tab[b]]
            BY <1>1, <2>2 DEF ToggleDeletes
        <3>4. tab' = tab => tab' = [tab EXCEPT ![b] = tab[b]]
            BY <3>3
        <3> QED BY <3>1, <3>2, <3>3, <3>4
    <2>3. CASE tab' = [tab EXCEPT ![b] = Quiet]
        BY <2>3, QuietTab
    <2> QED BY <2>1, <2>2, <2>3 DEF ToggleInserts, AddWish
<1>4. tab' \in [Browsing -> Tabs] /\ tab'[b] = y /\ \A c \in Browsing \ {b} : tab'[c] = tab[c]
    BY <1>1, <1>3
<1>5. marks' \subseteq Keepers \X Releases
    BY <1>1 DEF CountOpenWishes, ToggleDeletes, ToggleInserts, AddWish, ListTypeOK, BatchesFit, Tabs
<1>6. wish' \in [Wishes -> [state : {"none", "open", "filled"}, of : Keepers \cup {NoKeeper}]]
    <2>1. wish \in [Wishes -> [state : {"none", "open", "filled"}, of : Keepers \cup {NoKeeper}]]
        BY <1>1 DEF ListTypeOK
    <2>2. CASE wish' = wish
        BY <2>1, <2>2
    <2>3. ASSUME NEW x \in Wishes, AddWish(b, x)
          PROVE  wish' \in [Wishes -> [state : {"none", "open", "filled"}, of : Keepers \cup {NoKeeper}]]
        <3> DEFINE w == [state |-> "open", of |-> tab[b].of]
        <3>1. wish' = [wish EXCEPT ![x] = w]
            BY <2>3 DEF AddWish
        <3>2. w \in [state : {"none", "open", "filled"}, of : Keepers \cup {NoKeeper}]
            BY <1>1 DEF Tabs
        <3> HIDE DEF w
        <3> QED BY <2>1, <3>1, <3>2
    <2> QED BY <2>2, <2>3 DEF CountOpenWishes, ToggleDeletes, ToggleInserts
<1>7. ListTypeOK'
    BY <1>1, <1>2, <1>4, <1>5, <1>6 DEF ListTypeOK, Tabs
<1>8. BatchesFit'
    BY <1>1, <1>3, <1>4 DEF BatchesFit
<1>9. \A m \in Keepers : Adding(b, m) = 0 /\ Adding(b, m)' = 0 /\ Len(cart[m]) \in Nat
    BY <1>1, <1>2, <1>3, <1>4 DEF Adding
<1>10. AddingFits'
    BY <1>2, <1>4, <1>7, <1>9, StepFits
<1> QED BY <1>7, <1>8, <1>10 DEF CartInv

LEMMA CartInductive == ListSpec => []CartInv
<1>1. ListInit => CartInv
    <2> SUFFICES ASSUME ListInit PROVE CartInv
        OBVIOUS
    <2>1. /\ cart = [m \in Keepers |-> <<>>] /\ marks = {} /\ grabs = {} /\ wish = [x \in Wishes |-> NoWish]
          /\ tab = [b \in Browsing |-> Quiet] /\ unread = {}
        BY DEF ListInit
    <2>2. \A m \in Keepers : cart[m] = <<>> /\ IsInjective(cart[m]) /\ Len(cart[m]) = 0
        BY <2>1 DEF IsInjective
    <2>3. NoWish \in [state : {"none", "open", "filled"}, of : Keepers \cup {NoKeeper}]
        BY DEF NoWish
    <2>4. ListTypeOK
        BY <2>1, <2>2, <2>3, QuietTab DEF ListTypeOK, Tabs
    <2>5. \A b \in Browsing : tab[b].op = "idle"
        BY <2>1, QuietTab
    <2>6. BatchesFit
        BY <2>5 DEF BatchesFit
    <2>7. PICK b \in Browsing : TRUE
        BY ListAssumption
    <2>8. AddingFits
        <3> SUFFICES ASSUME NEW m \in Keepers PROVE Len(cart[m]) + BeingAdded(m) <= CartBound
            BY DEF AddingFits
        <3>1. BeingAdded(m) = 0
            <4>1. BeingAdded(m) = Total([c \in Browsing |-> 0], Browsing)
                BY <2>5 DEF BeingAdded, Adding
            <4>2. IsFiniteSet(Browsing) /\ 0 \in Nat
                BY ListAssumption
            <4>3. Total([c \in Browsing |-> 0], Browsing) = 0 * Cardinality(Browsing) /\ Cardinality(Browsing) \in Nat
                BY <4>2, TotalOfConstant, FS_CardinalityType
            <4> QED BY <4>1, <4>3
        <3>2. CartBound \in Nat
            <4>1. Cardinality(Browsing) \in Nat /\ Cardinality(Browsing) # 0
                BY ListAssumption, FS_CardinalityType, FS_EmptySet
            <4>2. Cardinality(Browsing) - 1 \in Nat
                BY <4>1
            <4>3. (Cardinality(Browsing) - 1) * CartMax \in Nat
                BY <4>2, ListAssumption
            <4> QED BY <4>3, ListAssumption DEF CartBound
        <3> QED BY <2>2, <3>1, <3>2
    <2> QED BY <2>4, <2>6, <2>8 DEF CartInv
<1>2. CartInv /\ [ListNext]_listVars => CartInv'
    <2> SUFFICES ASSUME CartInv, [ListNext]_listVars PROVE CartInv'
        OBVIOUS
    <2>1. ASSUME NEW m \in Keepers,
                 \/ BookmarkMany(m)
                 \/ \E ids \in SUBSET Releases : CartZip(m, ids)
                 \/ \E x \in Wishes, state \in {"none", "open", "filled"} : UpdateWish(m, x, state)
          PROVE  CartInv'
        BY <2>1, ListingFits
    <2>2. ASSUME NEW m \in Keepers, NEW ids \in SUBSET Releases, RemoveFromCart(m, ids) PROVE CartInv'
        BY <2>2, RemovingFits
    <2>3. ASSUME NEW b \in Browsing,
                 \/ \E m \in Keepers : CountOpenWishes(b, m) \/ \E r \in Releases : ToggleDeletes(b, m, r)
                 \/ \E fails \in BOOLEAN : ToggleInserts(b, fails)
                 \/ \E x \in Wishes : AddWish(b, x)
          PROVE  CartInv'
        BY <2>3, MarkingFits
    <2>4. ASSUME NEW b \in Browsing, NEW m \in Keepers, NEW ids \in Batches, NEW readable \in BOOLEAN,
                 CartCount(b, m, ids, readable)
          PROVE  CartInv'
        BY <2>4, CountingFits
    <2>5. ASSUME NEW b \in Browsing, NEW fails \in BOOLEAN, AddToCart(b, fails) PROVE CartInv'
        BY <2>5, PuttingFits
    <2>6. CASE UNCHANGED listVars
        <3>1. ListTypeOK' /\ \A m \in Keepers : Len(cart[m]) \in Nat /\ cart'[m] = cart[m]
            BY <2>6 DEF listVars, CartInv, ListTypeOK
        <3> QED BY <2>6, <3>1, RestFits DEF listVars
    <2> QED BY <2>1, <2>2, <2>3, <2>4, <2>5, <2>6 DEF ListNext
<1> QED BY <1>1, <1>2, PTL DEF ListSpec

\* Type correctness of the lists: a release is in a cart once.
THEOREM ListTypeCorrect == ListSpec => []ListTypeOK
<1>1. CartInv => ListTypeOK
    BY DEF CartInv
<1> QED BY <1>1, CartInductive, PTL

\* For every number of members, tabs and releases, every cap and batch: a cart passes
\* the cap only by what the other tabs were adding when it was counted (cartAdd).
THEOREM CartsAreBounded == ListSpec => []CartBounded
<1>1. CartInv => CartBounded
    <2> SUFFICES ASSUME CartInv, NEW m \in Keepers \ unread PROVE Len(cart[m]) <= CartBound
        BY DEF CartBounded, CartBound
    <2>1. Len(cart[m]) + BeingAdded(m) <= CartBound /\ Len(cart[m]) \in Nat
        BY DEF CartInv, AddingFits, ListTypeOK
    <2>2. BeingAdded(m) \in Nat
        <3> DEFINE f == [b \in Browsing |-> Adding(b, m)]
        <3>1. NaturalAdding
            BY AddingIsNatural DEF CartInv
        <3>2. f \in [Browsing -> Nat] /\ IsFiniteSet(Browsing) /\ BeingAdded(m) = Total(f, Browsing)
            BY <3>1, ListAssumption DEF NaturalAdding, BeingAdded
        <3> HIDE DEF f
        <3> QED BY <3>2, TotalOfNaturals
    <2>3. CartBound \in Int
        BY ListAssumption, FS_CardinalityType DEF CartBound
    <2> QED BY <2>1, <2>2, <2>3
<1> QED BY <1>1, CartInductive, PTL

===============================================================================
