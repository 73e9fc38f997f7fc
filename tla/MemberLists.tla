------------------------------ MODULE MemberLists -----------------------------
(***************************************************************************)
(* What a member keeps lists of: a cart of releases and the archive made   *)
(* from it, bookmarks and follows (marks that one control puts and takes   *)
(* away), grabs, and wishes.  A cap is read by one statement and the rows  *)
(* are added by a later one; several tabs of a member do so at once.       *)
(***************************************************************************)
EXTENDS Integers, FiniteSets, SequencesExt

CONSTANTS
    Keepers,    \* members
    Browsing,   \* tabs: requests being served at once
    Releases,
    Titles,     \* [Releases -> names], what the index calls each file
    Wishes,     \* ids of wishlist rows
    CartCap,
    CartMax,    \* ids taken from one submission
    WishCap,
    NoKeeper

ASSUME ListAssumption ==
    /\ IsFiniteSet(Browsing) /\ Browsing # {} /\ IsFiniteSet(Releases)
    /\ CartCap \in Nat /\ CartMax \in Nat

VARIABLES
    cart,     \* release_cart: each member's releases in the order they came
    marks,    \* release_bookmark and user_follow: pairs of a member and what is marked
    grabs,    \* release_grab, without its counts
    wish,     \* wishlist_items
    tab,      \* what each tab's request does next
    unread    \* history: members whose cart was added to without its count

listVars == <<cart, marks, grabs, wish, tab, unread>>

NoWish == [state |-> "none", of |-> NoKeeper]
Quiet == [op |-> "idle", of |-> NoKeeper, ids |-> {}]
Batches == {S \in SUBSET Releases : S # {} /\ Cardinality(S) <= CartMax}

ListTypeOK ==
    /\ cart \in [Keepers -> Seq(Releases)] /\ \A m \in Keepers : IsInjective(cart[m])
    /\ marks \subseteq Keepers \X Releases /\ grabs \subseteq Keepers \X Releases
    /\ wish \in [Wishes -> [state : {"none", "open", "filled"}, of : Keepers \cup {NoKeeper}]]
    /\ tab \in [Browsing -> [op : {"idle", "put", "mark", "wish"}, of : Keepers \cup {NoKeeper}, ids : SUBSET Releases]]
    /\ unread \subseteq Keepers

ListInit ==
    /\ cart = [m \in Keepers |-> <<>>] /\ marks = {} /\ grabs = {}
    /\ wish = [x \in Wishes |-> NoWish]
    /\ tab = [b \in Browsing |-> Quiet] /\ unread = {}

(***************************************************************************)
(* The cart.                                                               *)
(***************************************************************************)
InCart(m) == Range(cart[m])
SubmissionFits(m, ids) == Cardinality(ids) <= CartCap
Fits(m, ids) == Len(cart[m]) + Cardinality(ids) <= CartCap

\* cartAdd: refused whole when it does not fit; a count that cannot be read
\* refuses nothing.
CartCount(b, m, ids, readable) ==
    /\ tab[b].op = "idle" /\ (readable => Fits(m, ids))
    /\ tab' = [tab EXCEPT ![b] = [op |-> "put", of |-> m, ids |-> ids]]
    /\ unread' = IF readable THEN unread ELSE unread \cup {m}
    /\ UNCHANGED <<cart, marks, grabs, wish>>

\* ON CONFLICT DO NOTHING: a release is in a cart once.  Rows of one statement
\* share created_at, and are then in the order of their ids.
AddedTo(m, ids) == [cart EXCEPT ![m] = @ \o SetToSeq(ids \ InCart(m))]

AddToCart(b, fails) ==
    /\ tab[b].op = "put"
    /\ cart' = IF fails THEN cart ELSE AddedTo(tab[b].of, tab[b].ids)
    /\ tab' = [tab EXCEPT ![b] = Quiet]
    /\ UNCHANGED <<marks, grabs, wish, unread>>

\* The rows that are left, in the order they came.
InOrderOf(s, t) == \A i, j \in DOMAIN t : i < j => \E k, l \in DOMAIN s : k < l /\ s[k] = t[i] /\ s[l] = t[j]
LeftOf(s, ids) == {t \in SeqOf(Range(s) \ ids, Len(s)) : Range(t) = Range(s) \ ids /\ InOrderOf(s, t)}

\* cartRemove, and cartClear, which is all of them.
RemoveFromCart(m, ids) ==
    /\ ids \cap InCart(m) # {}
    /\ \E left \in LeftOf(cart[m], ids) : cart' = [cart EXCEPT ![m] = left]
    /\ UNCHANGED <<marks, grabs, wish, tab, unread>>

\* cartBookmark saves, and unsaves nothing.
BookmarkMany(m) ==
    /\ marks' = marks \cup ({m} \X InCart(m)) /\ marks' # marks
    /\ UNCHANGED <<cart, grabs, wish, tab, unread>>

(***************************************************************************)
(* cartZip: one entry for each release whose file can be had, and a grab.  *)
(* A name that was used before is given the count of its uses; the count   *)
(* is then kept for the name it became.                                    *)
(***************************************************************************)
NoZip == [used |-> <<>>, names |-> <<>>]
Uses(z, name) == Len(SelectSeq(z.used, LAMBDA u : u = name))
EntryName(z, title) == IF Uses(z, <<title, 1>>) = 0 THEN <<title, 1>> ELSE <<title, Uses(z, <<title, 1>>) + 1>>
Entry(z, r) == LET name == EntryName(z, Titles[r]) IN
    [used |-> Append(z.used, name), names |-> Append(z.names, name)]
Archive(ids) == FoldLeft(Entry, NoZip, ids).names

CartZip(m, had) ==
    /\ had # {} /\ had \subseteq InCart(m)
    /\ grabs' = grabs \cup ({m} \X had) /\ grabs' # grabs
    /\ UNCHANGED <<cart, marks, wish, tab, unread>>

(***************************************************************************)
(* ToggleBookmark and ToggleFollow: what was there is deleted, and when    *)
(* nothing was, a second statement inserts it.                             *)
(***************************************************************************)
ToggleDeletes(b, m, r) ==
    /\ tab[b].op = "idle"
    /\ marks' = marks \ {<<m, r>>}
    /\ tab' = IF <<m, r>> \in marks THEN tab
              ELSE [tab EXCEPT ![b] = [op |-> "mark", of |-> m, ids |-> {r}]]
    /\ UNCHANGED <<cart, grabs, wish, unread>>

ToggleInserts(b, fails) ==
    /\ tab[b].op = "mark"
    /\ marks' = IF fails THEN marks ELSE marks \cup ({tab[b].of} \X tab[b].ids)
    /\ tab' = [tab EXCEPT ![b] = Quiet]
    /\ UNCHANGED <<cart, grabs, wish, unread>>

(***************************************************************************)
(* Wishes.  A count that cannot be read refuses.                           *)
(***************************************************************************)
OpenWishes(m) == {x \in Wishes : wish[x].state = "open" /\ wish[x].of = m}

CountOpenWishes(b, m) ==
    /\ tab[b].op = "idle" /\ Cardinality(OpenWishes(m)) < WishCap
    /\ tab' = [tab EXCEPT ![b] = [op |-> "wish", of |-> m, ids |-> {}]]
    /\ UNCHANGED <<cart, marks, grabs, wish, unread>>

AddWish(b, x) ==
    /\ tab[b].op = "wish" /\ wish[x].state = "none"
    /\ wish' = [wish EXCEPT ![x] = [state |-> "open", of |-> tab[b].of]]
    /\ tab' = [tab EXCEPT ![b] = Quiet]
    /\ UNCHANGED <<cart, marks, grabs, unread>>

\* wishlistUpdate: the row has to be the member's own; nothing else is asked.
UpdateWish(m, x, state) ==
    /\ wish[x].of = m /\ wish[x].state # state
    /\ wish' = [wish EXCEPT ![x] = IF state = "none" THEN NoWish ELSE [@ EXCEPT !.state = state]]
    /\ UNCHANGED <<cart, marks, grabs, tab, unread>>

ListNext ==
    \/ \E m \in Keepers : \/ BookmarkMany(m)
                          \/ \E ids \in SUBSET Releases : RemoveFromCart(m, ids) \/ CartZip(m, ids)
                          \/ \E x \in Wishes, state \in {"none", "open", "filled"} : UpdateWish(m, x, state)
    \/ \E b \in Browsing :
        \/ \E m \in Keepers : \/ CountOpenWishes(b, m)
                              \/ \E r \in Releases : ToggleDeletes(b, m, r)
                              \/ \E ids \in Batches, readable \in BOOLEAN : CartCount(b, m, ids, readable)
        \/ \E fails \in BOOLEAN : AddToCart(b, fails) \/ ToggleInserts(b, fails)
        \/ \E x \in Wishes : AddWish(b, x)

ListSpec == ListInit /\ [][ListNext]_listVars

(***************************************************************************)
(* Properties.                                                             *)
(***************************************************************************)
\* "cartCap bounds the whole cart, not just one submission": while its count could
\* be read, a cart passes the bound only by what other tabs were adding at once.
CartBounded ==
    \A m \in Keepers \ unread :
        Len(cart[m]) <= CartCap + (Cardinality(Browsing) - 1) * CartMax

\* No two entries of an archive have the same name, whatever is skipped, if no
\* more than two of its releases share a title.
Sharing(m, r) == {s \in InCart(m) : Titles[s] = Titles[r]}
AtMostTwoNamesakes ==
    \A m \in Keepers : (\A r \in InCart(m) : Cardinality(Sharing(m, r)) <= 2) => IsInjective(Archive(cart[m]))

\* "a zip with two identical entry names is one most clients extract as a single
\* file" (cartZip): the names are distinct in every archive.
ArchiveNamesDistinct == \A m \in Keepers : IsInjective(Archive(cart[m]))

\* "wishPerUser caps how many open entries one member may hold" (wishlist_web.go).
WishesWithinCap == \A m \in Keepers : Cardinality(OpenWishes(m)) <= WishCap
===============================================================================
