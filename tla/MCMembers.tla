------------------------------- MODULE MCMembers -------------------------------
(***************************************************************************)
(* What a member keeps on the site: the avatar, its undo and the sweep of  *)
(* the directory (Avatars), the cart, marks and wishes (MemberLists), the  *)
(* points the time spent seeding is worth (SeedPoints) and the machines of *)
(* the fleet (AgentRegistry).  And what every page is drawn from: two      *)
(* processes that boot at once on one database (Boot), the menus (SiteNav),*)
(* the widgets (Widgets) and what a new site is planted with (DemoSeeds,   *)
(* DemoSwarm).  They share no state, so that one moves in each behaviour.  *)
(***************************************************************************)
EXTENDS
    Avatars, MemberLists, SeedPoints, AgentRegistry, Boot, SiteNav, Widgets, DemoSeeds, DemoSwarm, TLC

CONSTANTS p1, p2, q1, q2, r1, r2, r3, s1, s2

VARIABLE part

MembersInit ==
    /\ part \in {"avatars", "lists", "seed", "fleet", "boot", "nav", "widgets", "demo", "swarm"}
    /\ AvatarInit /\ ListInit /\ SeedInit /\ RegistryInit /\ BootInit /\ NavInit /\ WidgetsInit /\ PlantInit /\ SwarmInit
    /\ part # "fleet" => key = CHOOSE k \in Keys : TRUE
    /\ part # "boot" => objects = {}
    /\ part # "nav" => links = {}
    /\ part # "widgets" => \A r \in Regions : placements[r] = << >>

MemberVars == <<avatarVars, listVars, seedVars, registryVars>>
SiteVars == <<bootVars, navVars, widgetVars>>
DemoVars == <<plantVars, swarmVars>>

MembersNext ==
    /\ UNCHANGED part
    /\ \/ /\ UNCHANGED <<SiteVars, DemoVars>>
          /\ \/ part = "avatars" /\ AvatarNext /\ UNCHANGED <<listVars, seedVars, registryVars>>
             \/ part = "lists" /\ ListNext /\ UNCHANGED <<avatarVars, seedVars, registryVars>>
             \/ part = "seed" /\ SeedNext /\ UNCHANGED <<avatarVars, listVars, registryVars>>
             \/ part = "fleet" /\ RegistryNext /\ UNCHANGED <<avatarVars, listVars, seedVars>>
       \/ /\ UNCHANGED <<MemberVars, DemoVars>>
          /\ \/ part = "boot" /\ BootNext /\ UNCHANGED <<navVars, widgetVars>>
             \/ part = "nav" /\ NavNext /\ UNCHANGED <<bootVars, widgetVars>>
             \/ part = "widgets" /\ WidgetsNext /\ UNCHANGED <<bootVars, navVars>>
       \/ /\ UNCHANGED <<MemberVars, SiteVars>>
          /\ \/ part = "demo" /\ PlantNext /\ UNCHANGED swarmVars
             \/ part = "swarm" /\ SwarmNext /\ UNCHANGED plantVars

MembersSpec == MembersInit /\ [][MembersNext]_<<part, MemberVars, SiteVars, DemoVars>>

MembersTypeOK ==
    /\ AvatarTypeOK /\ ListTypeOK /\ SeedTypeOK /\ RegistryTypeOK
    /\ BootTypeOK /\ NavTypeOK /\ WidgetsTypeOK
    /\ PlantTypeOK /\ SwarmTypeOK
TwoNamesakes == [r \in Releases |-> IF r = r3 THEN "other" ELSE "same"]
ThreeNamesakes == [r \in Releases |-> "same"]
Rates == [classic |-> (s1 :> 1 @@ s2 :> 2), pool |-> (s1 :> 2 @@ s2 :> 0)]
OneLink == <<"top", "/browse">> :> "releases"
TwoWidgets == <<"mediainfo", "swarm">>
ThreePicks == <<"a", "b", "c">>
TwoShares == <<[from |-> 0, take |-> 2], [from |-> 1, take |-> 2]>>
OneClient == {<<0, 0>>}
NotForAdmins == {{[no |-> TRUE, paths |-> {"/admin"}]}}
MembersSymmetry == Permutations({p1, p2}) \cup Permutations({q1, q2})
===============================================================================
