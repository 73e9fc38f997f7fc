------------------------------- MODULE MCOperator ------------------------------
(***************************************************************************)
(* What an operator sets while the site is at work: the caps of the fleet  *)
(* (AgentQueue), the settings and their copies in memory (SiteSettings),   *)
(* neutral leech (Neutral), and the catalogue's sources and cover art      *)
(* (CatalogChain, CoverCache).  They share no state, so that one of them   *)
(* moves in each behaviour.                                                *)
(***************************************************************************)
EXTENDS MCAgentQueue, CatalogChain, CoverCache, SiteSettings, Neutral

CONSTANTS p1, p2, j1, j2

VARIABLE part

OperatorInit ==
    /\ part \in {"queue", "chain", "cover", "settings", "neutral"}
    /\ Init /\ ChainInit /\ CoverInit /\ SettingsInit /\ NeutralInit
    /\ part # "chain" => live = Order

OperatorNext ==
    /\ UNCHANGED part
    /\ \/ /\ part = "queue" /\ Next
          /\ UNCHANGED <<chainVars, coverVars, settingVars, neutralVars>>
       \/ /\ part = "chain" /\ ChainNext
          /\ UNCHANGED <<vars, coverVars, settingVars, neutralVars>>
       \/ /\ part = "cover" /\ CoverNext
          /\ UNCHANGED <<vars, chainVars, settingVars, neutralVars>>
       \/ /\ part = "settings" /\ SettingsNext
          /\ UNCHANGED <<vars, chainVars, coverVars, neutralVars>>
       \/ /\ part = "neutral" /\ NeutralNext
          /\ UNCHANGED <<vars, chainVars, coverVars, settingVars>>

OperatorSpec ==
    OperatorInit /\ [][OperatorNext]_<<part, vars, chainVars, coverVars, settingVars, neutralVars>>

OperatorTypeOK == TypeOK /\ ChainTypeOK /\ CoverTypeOK /\ SettingsTypeOK /\ NeutralTypeOK

Providers == <<"anidb", "tmdb", "wikipedia">>
Matchers == [anidb |-> "index", tmdb |-> "finder", wikipedia |-> "searcher"]
EncodingNoise == [anidb |-> {"2160p"}, tmdb |-> {}, wikipedia |-> {}]
OnePoster == [r \in Releases |-> "poster"]
OperatorSymmetry == Permutations({p1, p2}) \cup Permutations({j1, j2})
===============================================================================
