------------------------------ MODULE BatchJobs ------------------------------
(****************************************************************************)
(* The jobs beside the sync of KTO's catalogue: every day the forecast of    *)
(* crowds, every week the signals, every month the overseas posts.  They     *)
(* share no row that one of them writes and another reads; a behaviour runs  *)
(* the jobs of one of the three schedules, so that TLC does not interleave   *)
(* what cannot interact.                                                     *)
(****************************************************************************)
EXTENDS ConcentrationSync, WeeklySignals, OverseasPosts

VARIABLE schedule   \* the schedule this behaviour is about

jobsVars == <<concentrationVars, weeklyVars, monthlyVars, schedule>>

\* Nothing has been synced, scored or brought.
JobsInit ==
    /\ schedule \in {"daily", "weekly", "monthly"}
    /\ ConcentrationInit
    /\ WeeklyInit /\ (schedule # "weekly" => photo = [s \in Rated |-> 0])
    /\ OverseasInit /\ (schedule # "monthly" => item = CHOOSE i \in [Items -> [file : Files, desc : Lengths]] : TRUE)

Daily == schedule = "daily" /\ ConcentrationNext /\ UNCHANGED <<weeklyVars, monthlyVars, schedule>>
Weekly == schedule = "weekly" /\ WeeklyNext /\ UNCHANGED <<concentrationVars, monthlyVars, schedule>>
Monthly == schedule = "monthly" /\ OverseasNext /\ UNCHANGED <<concentrationVars, weeklyVars, schedule>>

JobsNext == Daily \/ Weekly \/ Monthly

JobsSpec ==
    /\ JobsInit /\ [][JobsNext]_jobsVars
    /\ schedule = "weekly" => WeeklyFairness
    /\ schedule = "monthly" => OverseasFairness

---------------------------------------------------------------------------
\* Properties: those of the modules, and what the schedules promise together.

\* What one run leaves out a later one makes up for: the photos a week's pages or
\* a failed step skipped are scored in the end, and what a failed month left out
\* of the overseas posts a later month brings, embeds and matches.
JobsCatchUp ==
    /\ schedule = "weekly" => VisualCatchesUp
    /\ schedule = "monthly" => PostsComeBack
=============================================================================
