--------------------------------- MODULE MCJobs --------------------------------
(***************************************************************************)
(* What has to come to an end: gifts that wait for each other (Points),    *)
(* the jobs that walk over the index and the TV schedule (CatalogSweep,    *)
(* TvSchedule), and the boots of the processes themselves (Boot).  They    *)
(* share no state, so that one of them moves in each behaviour, under its  *)
(* fairness.                                                               *)
(***************************************************************************)
EXTENDS Points, CatalogSweep, TvSchedule, Boot

VARIABLE part

jobVars == <<part, pointsVars, sweepVars, tvVars, bootVars>>

JobsInit ==
    /\ part \in {"points", "sweep", "tv", "boot"}
    /\ PointsInit /\ SweepInit /\ TvInit /\ BootInit
    /\ part # "sweep" => arrived = {}
    /\ part # "boot" => objects = {}

PointsMove == part = "points" /\ UNCHANGED <<part, sweepVars, tvVars, bootVars>>
SweepMoves == part = "sweep" /\ UNCHANGED <<part, pointsVars, tvVars, bootVars>>
TvMoves == part = "tv" /\ UNCHANGED <<part, pointsVars, sweepVars, bootVars>>
BootMoves == part = "boot" /\ UNCHANGED <<part, pointsVars, sweepVars, tvVars>>

JobsNext ==
    \/ PointsMove /\ PointsNext
    \/ SweepMoves /\ SweepNext
    \/ TvMoves /\ TvNext
    \/ BootMoves /\ BootNext

\* The fairness of each part, where it is the one that moves.
JobsFairness ==
    /\ \A g \in Gifts : SF_jobVars(PointsMove /\ GiftProgress(g))
    /\ WF_jobVars(SweepMoves /\ MatchStep) /\ WF_jobVars(SweepMoves /\ LinkStep)
    /\ \A r \in Runners : WF_jobVars(TvMoves /\ PassStep(r))
    /\ \A p \in Processes :
        WF_jobVars(BootMoves /\ BootStart(p)) /\ WF_jobVars(BootMoves /\ BootAdvance(p))

JobsSpec == JobsInit /\ [][JobsNext]_jobVars /\ JobsFairness

JobsTypeOK == SweepTypeOK /\ TvTypeOK /\ BootTypeOK

Movies == <<"tv", "movie">>
MoviesAndTv == <<"movie", "tv", "movie">>
TwoTitles == <<"a", "b", "a">>
OneShow == <<"s", "s", "s">>
MondayTuesday == <<"mon", "tue", "tue">>
===============================================================================
