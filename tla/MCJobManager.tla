---------------------------- MODULE MCJobManager ----------------------------
(* Instances of JobManager for TLC: a write job and a read-only job of one  *)
(* project, so that they compete for the project lock; or the write job     *)
(* alone, where more stops, crashes and interleavings are affordable.       *)
EXTENDS JobManager

CONSTANTS j1, j2, p1

MCJobs == {j1, j2}
MCOneJob == {j1}
MCProjects == {p1}
MCProjectOf == [j \in MCJobs |-> p1]
MCOneProjectOf == [j \in MCOneJob |-> p1]
MCReadOnly == {j2}
MCNoReadOnly == {}

(* Either the second job is submitted or /stop is sent: both together make  *)
(* too many states, and a stop keys everything by its job.                  *)
Affordable ==
  \/ row[j2].status = "none"
  \/ stopped = {} /\ \A s \in Stoppers : spc[s] = "idle" /\ sjob[s] = None
=============================================================================
