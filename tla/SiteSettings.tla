----------------------------- MODULE SiteSettings -----------------------------
(***************************************************************************)
(* The operator's settings: rows of site_settings, each copied into the    *)
(* memory of every process that goes by it.  A form is saved statement by  *)
(* statement and then copied to the memory of the process that served it;  *)
(* a process reads the rows when it boots, group by group, and logs what   *)
(* it could not read (access_web.go, inviteoptions_web.go, flavour_web.go, *)
(* features_web.go, covermode_web.go, donations_web.go, boot_wiring.go).   *)
(***************************************************************************)
EXTENDS Integers, FiniteSets, Sequences, TLC

CONSTANTS
    Processes,
    Forms,         \* the forms in use
    Saves,         \* requests that save a form at once
    Unset,
    MaxSaves, MaxBoots, MaxMishaps   \* bounds

ASSUME SettingsAssumption ==
    /\ Forms \subseteq {"access", "invite", "search", "shop", "cover", "donate"}
    /\ Unset \notin {"default", "chosen"}

\* What each group's rows are, in the order in which a boot reads them.  The eight
\* rows of the invite options are two here.
Groups == << <<"registration", "browsing">>, <<"ttl", "email">>, <<"flavour">>,
             <<"search", "shop">>, <<"cover">>, <<"donate">> >>
Features == {"search", "shop"}
FormOf == [access |-> <<1, 3>>, invite |-> <<2>>, search |-> <<4>>, shop |-> <<4>>,
           cover |-> <<5>>, donate |-> <<6>>]
GroupsInUse == UNION {{FormOf[f][i] : i \in DOMAIN FormOf[f]} : f \in Forms}
KeysOf(g) == {Groups[g][i] : i \in DOMAIN Groups[g]}
GroupsOf(form) == {FormOf[form][i] : i \in DOMAIN FormOf[form]}
Keys == UNION {KeysOf(g) : g \in GroupsInUse}
Values == {"default", "chosen"}

\* Statements first, memory after; donate's memory is set first.
Op(op, key) == [op |-> op, key |-> key]
Each(op, g) == [i \in 1..Len(Groups[g]) |-> Op(op, Groups[g][i])]
SaveGroupAdoptingFirst(g) == Each("adopt", g) \o Each("store", g)
SaveGroup(g) == Each("store", g) \o Each("adopt", g)
SaveProgram(form) ==
    CASE form \in Features -> <<Op("store", form), Op("copy", form), Op("swap", form)>>
      [] form = "donate" -> <<Op("adopt", "donate"), Op("store", "donate")>>
      [] form = "access" -> SaveGroup(1) \o SaveGroup(3)
      [] OTHER -> SaveGroup(FormOf[form][1])

VARIABLES
    stored,    \* site_settings
    memory,    \* the copies each process goes by
    booting,   \* the groups a process still has to read, in order; {} when it serves
    save,      \* the forms being saved
    ever,      \* values a row has had (history)
    moved,     \* keys written or copied since the process began to boot (history)
    unread,    \* groups the boot could not read (history)
    torn,      \* groups whose last save failed, was cut or met another (history)
    saves, boots, mishaps

settingVars == <<stored, memory, booting, save, ever, moved, unread, torn, saves, boots, mishaps>>

NoSave == [form |-> "none"]
SettingsTypeOK ==
    /\ stored \in [Keys -> Values \cup {Unset}] /\ memory \in [Processes -> [Keys -> Values]]
    /\ booting \in [Processes -> SUBSET GroupsInUse]
    /\ \A s \in Saves : save[s] # NoSave =>
          save[s] \in [form : Forms, at : Processes, value : Values, pc : 1..12, old : [Keys -> Values]]
    /\ ever \in [Keys -> SUBSET Values] /\ moved \in [Processes -> SUBSET Keys]
    /\ unread \in [Processes -> SUBSET GroupsInUse] /\ torn \subseteq GroupsInUse

Defaults == [k \in Keys |-> "default"]
SettingsInit ==
    /\ stored = [k \in Keys |-> Unset] /\ memory = [p \in Processes |-> Defaults]
    /\ booting = [p \in Processes |-> {}] /\ save = [s \in Saves |-> NoSave]
    /\ ever = [k \in Keys |-> {"default"}] /\ moved = [p \in Processes |-> {}]
    /\ unread = [p \in Processes |-> {}] /\ torn = {} /\ saves = 0 /\ boots = 0 /\ mishaps = 0

Put(k, v) ==
    /\ stored' = [stored EXCEPT ![k] = v]
    /\ ever' = [ever EXCEPT ![k] = IF v = Unset THEN @ ELSE @ \cup {v}]
    /\ moved' = [p \in Processes |-> moved[p] \cup {k}]

(***************************************************************************)
(* The admin pages.                                                        *)
(***************************************************************************)
Saving(g) == \E s \in Saves : save[s] # NoSave /\ g \in GroupsOf(save[s].form)

BeginSave(s, form, p, v) ==
    /\ save[s] = NoSave /\ booting[p] = {} /\ saves < MaxSaves /\ saves' = saves + 1
    /\ save' = [save EXCEPT ![s] = [form |-> form, at |-> p, value |-> v, pc |-> 1, old |-> Defaults]]
    /\ torn' = (torn \ GroupsOf(form)) \cup {g \in GroupsOf(form) : Saving(g)}
    /\ UNCHANGED <<stored, memory, booting, ever, moved, unread, boots, mishaps>>

NextOp(s) == SaveProgram(save[s].form)[save[s].pc]
Stepped(s) == IF save[s].pc = Len(SaveProgram(save[s].form)) THEN NoSave
              ELSE [save[s] EXCEPT !.pc = @ + 1]

\* setFeature and clearFeature, and the settings of the other forms.
StoreOne(s) ==
    /\ save[s] # NoSave /\ NextOp(s).op = "store"
    /\ \/ Put(NextOp(s).key, save[s].value)
       \/ save[s].form \in Features /\ save[s].value = "default" /\ Put(NextOp(s).key, Unset)
    /\ save' = [save EXCEPT ![s] = Stepped(s)]
    /\ UNCHANGED <<memory, booting, unread, torn, saves, boots, mishaps>>

\* A statement that fails ends the save where it is.
StoreFails(s) ==
    /\ save[s] # NoSave /\ NextOp(s).op = "store" /\ mishaps < MaxMishaps
    /\ mishaps' = mishaps + 1 /\ save' = [save EXCEPT ![s] = NoSave]
    /\ torn' = torn \cup GroupsOf(save[s].form)
    /\ UNCHANGED <<stored, memory, booting, ever, moved, unread, saves, boots>>

Adopted(s, k) == memory' = [memory EXCEPT ![save[s].at][k] = save[s].value]
Adopt(s) ==
    /\ save[s] # NoSave /\ NextOp(s).op = "adopt" /\ Adopted(s, NextOp(s).key)
    /\ moved' = [moved EXCEPT ![save[s].at] = @ \cup {NextOp(s).key}]
    /\ save' = [save EXCEPT ![s] = Stepped(s)]
    /\ UNCHANGED <<stored, booting, ever, unread, torn, saves, boots, mishaps>>

\* The map of the features is copied, changed and swapped in whole.
CopyFeatures(s) ==
    /\ save[s] # NoSave /\ NextOp(s).op = "copy"
    /\ save' = [save EXCEPT ![s] = [Stepped(s) EXCEPT !.old = memory[save[s].at]]]
    /\ UNCHANGED <<stored, memory, booting, ever, moved, unread, torn, saves, boots, mishaps>>

SwapFeatures(s) ==
    /\ save[s] # NoSave /\ NextOp(s).op = "swap"
    /\ memory' = [memory EXCEPT ![save[s].at] =
                     [k \in Keys |-> IF k = save[s].form THEN save[s].value
                                     ELSE IF k \in Features THEN save[s].old[k] ELSE @[k]]]
    /\ moved' = [moved EXCEPT ![save[s].at] = @ \cup (Features \cap Keys)]
    /\ save' = [save EXCEPT ![s] = Stepped(s)]
    /\ UNCHANGED <<stored, booting, ever, unread, torn, saves, boots, mishaps>>

(***************************************************************************)
(* Boot: the process that was there, and what it was doing, is gone.       *)
(***************************************************************************)
Boot(p) ==
    /\ boots < MaxBoots /\ boots' = boots + 1
    /\ memory' = [memory EXCEPT ![p] = Defaults] /\ booting' = [booting EXCEPT ![p] = GroupsInUse]
    /\ save' = [s \in Saves |-> IF save[s] # NoSave /\ save[s].at = p THEN NoSave ELSE save[s]]
    /\ torn' = torn \cup UNION {GroupsOf(save[s].form) : s \in {t \in Saves : save[t] # NoSave /\ save[t].at = p}}
    /\ moved' = [moved EXCEPT ![p] = {}] /\ unread' = [unread EXCEPT ![p] = {}]
    /\ UNCHANGED <<stored, ever, saves, mishaps>>

NextGroup(p) == CHOOSE g \in booting[p] : \A h \in booting[p] : g <= h
AfterFailure(p) == booting[p] \ {NextGroup(p)}

Read(p, ks) ==
    memory' = [memory EXCEPT ![p] = [k \in Keys |->
                  IF k \in ks /\ stored[k] # Unset THEN stored[k] ELSE @[k]]]

\* A group is read row by row, and the flavour of a first boot is stored.
LoadGroup(p) ==
    /\ booting[p] # {}
    /\ booting' = [booting EXCEPT ![p] = @ \ {NextGroup(p)}]
    /\ Read(p, KeysOf(NextGroup(p)))
    /\ IF NextGroup(p) = 3 /\ stored["flavour"] = Unset THEN Put("flavour", "default")
                                                        ELSE UNCHANGED <<stored, ever, moved>>
    /\ UNCHANGED <<save, unread, torn, saves, boots, mishaps>>

\* A row that cannot be read ends its group; the features are read as one.
LoadFails(p) ==
    /\ booting[p] # {} /\ mishaps < MaxMishaps /\ mishaps' = mishaps + 1
    /\ \E n \in 0..Len(Groups[NextGroup(p)]) - 1 :
           Read(p, IF NextGroup(p) = 4 THEN {} ELSE {Groups[NextGroup(p)][i] : i \in 1..n})
    /\ booting' = [booting EXCEPT ![p] = AfterFailure(p)]
    /\ unread' = [unread EXCEPT ![p] = @ \cup {NextGroup(p)}]
    /\ UNCHANGED <<stored, save, ever, moved, torn, saves, boots>>

SettingsNext ==
    \/ \E s \in Saves : \/ \E f \in Forms, p \in Processes, v \in Values : BeginSave(s, f, p, v)
                        \/ StoreOne(s) \/ StoreFails(s) \/ Adopt(s) \/ CopyFeatures(s) \/ SwapFeatures(s)
    \/ \E p \in Processes : Boot(p) \/ LoadGroup(p) \/ LoadFails(p)

SettingsSpec == SettingsInit /\ [][SettingsNext]_settingVars

(***************************************************************************)
(* Properties.                                                             *)
(***************************************************************************)
\* No process goes by an answer that never reached the database, so that no
\* restart takes back what the page reported as saved.  Donations are the one
\* setting whose memory is set before its row.
AdoptedWasStored ==
    \A p \in Processes, k \in Keys \ {"donate"} : memory[p][k] \in ever[k]

\* A process that boots goes by the rows, except those of a group it could not
\* read: one unreadable row costs the groups behind it nothing.
Answer(k) == IF stored[k] = Unset THEN "default" ELSE stored[k]
BootAdoptsWhatIsStored ==
    \A p \in Processes : booting[p] = {} =>
        \A g \in GroupsInUse \ unread[p] : \A k \in KeysOf(g) \ moved[p] : memory[p][k] = Answer(k)

\* The rows that one form writes together are one answer of its, and no mixture
\* that a restart would adopt ("A half-written set is how a restart adopts a
\* mixture"): except after a save that failed midway, that a restart cut, or that
\* met another of the form, until the next one goes through alone.  The features
\* (4) are a form each.
RowsAreOneAnswer ==
    \A g \in GroupsInUse \ (torn \cup {4}) :
        ~Saving(g) => \A k, l \in KeysOf(g) : Answer(k) = Answer(l)

\* What a process goes by has always been a row, after a boot is the row, and the
\* rows are what somebody chose.
MemoryFollowsRows == AdoptedWasStored /\ BootAdoptsWhatIsStored /\ RowsAreOneAnswer

\* "A restart must not silently reopen a closed site": a process that serves does
\* not stand at the default while the row says otherwise.
RestartKeepsTheSiteClosed ==
    \A p \in Processes : booting[p] = {} /\ "registration" \notin moved[p] /\ stored["registration"] = "chosen"
        => memory[p]["registration"] = "chosen"

\* Nothing being saved, the features a process goes by are the decided ones.
FeaturesAgree ==
    (\A s \in Saves : save[s] = NoSave) => \A p \in Processes, k \in Features \cap Keys :
        booting[p] = {} /\ unread[p] = {} =>
            memory[p][k] = Answer(k)
===============================================================================
