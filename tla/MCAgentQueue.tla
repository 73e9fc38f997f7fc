---------------------------- MODULE MCAgentQueue ----------------------------
(***************************************************************************)
(* Small instances of AgentQueue: two workers, torrents offered in two     *)
(* spellings, a lease that is stale two ticks after its last renewal.      *)
(***************************************************************************)
EXTENDS AgentQueue, TLC

CONSTANTS a1, a2

\* One torrent in two spellings, and two or three torrents in one each.
OneTorrent == {"ab12", "AB12"}
OneTorrentHash == [o \in OneTorrent |-> "ab12"]
TwoTorrents == {"ab12", "cd34"}
TwoTorrentsHash == [o \in TwoTorrents |-> o]
ThreeTorrents == {"ab12", "cd34", "ef56"}
ThreeTorrentsHash == [o \in ThreeTorrents |-> o]

Symmetry == Permutations({a1, a2})
=============================================================================
