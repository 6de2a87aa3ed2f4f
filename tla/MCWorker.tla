------------------------------- MODULE MCWorker -------------------------------
(***************************************************************************)
(* The worker's episodes on warm plugin instances, its SWE sessions, the   *)
(* model turns of an episode and the grading of a session, checked in one  *)
(* run: focus says which of them a behaviour is about; the variables of    *)
(* the others stay as they are.                                            *)
(***************************************************************************)
EXTENDS WorkerEpisode, SweSessions, ModelTurn, SweGrading, TLC

VARIABLE focus

vars == <<focus, wvars, svars, mvars, gvars>>

\* What the theorems assume of the constants.
ASSUME WorkerInstances == WorkerConstants /\ SessionConstants /\ TurnConstants /\ GradingConstants

\* A session of a worker without packages that two users share; and one whose
\* row comes from one of two packages, the Hub or a file.
C == INSTANCE SweGrading WITH MaxDirs <- 2, PullByDefault <- FALSE, MaxEdits <- 0, MaxRecycles <- 0

NoEpisode == WInit /\ queue = <<>>
NoTurn == req = Typical /\ MInit
NoGrade == GInit /\ images = [s \in Graded |-> {}]

Init ==
    /\ SInit
    /\ \/ focus = "episode" /\ WInit /\ NoTurn /\ NoGrade
       \/ focus = "session" /\ NoEpisode /\ NoTurn /\ NoGrade
       \/ focus = "turn" /\ NoEpisode /\ MInit /\ NoGrade
       \/ focus = "catalog" /\ NoEpisode /\ NoTurn /\ C!GInit
       \/ focus = "grade" /\ NoEpisode /\ NoTurn /\ GInit

Next ==
    \/ focus = "episode" /\ WNext /\ UNCHANGED <<focus, svars, mvars, gvars>>
    \/ focus = "session" /\ SNext /\ UNCHANGED <<focus, wvars, mvars, gvars>>
    \/ focus = "turn" /\ MNext /\ UNCHANGED <<focus, wvars, svars, gvars>>
    \/ focus = "catalog" /\ C!GNext /\ UNCHANGED <<focus, wvars, svars, mvars>>
    \/ focus = "grade" /\ GNext /\ UNCHANGED <<focus, wvars, svars, mvars>>

Spec == Init /\ [][Next]_vars

\* Executions, instances and sessions are interchangeable.
Symmetry == Permutations(Tasks) \cup Permutations(Instances)

-----------------------------------------------------------------------------
\* The properties are those of the components' modules.

=============================================================================
