--------------------------- MODULE NetworkScripts ---------------------------
(* The scripts that run an emulated network, one at a time: run_exercise.py    *)
(* and the packages of p4apprunner.py.                                          *)
EXTENDS ExerciseRunner, P4App

vars == <<netVars, exerciseVars, appVars>>

Init ==
    \/ ExerciseInit /\ AppIdle("none")
    \/ AppInit /\ ExerciseIdle

Main ==
    \/ script.kind = "exercise" /\ ExerciseMain /\ UNCHANGED appVars
    \/ script.kind # "exercise" /\ AppMain /\ UNCHANGED exerciseVars

Next ==
    \/ script.kind = "exercise" /\ ExerciseNext /\ UNCHANGED appVars
    \/ script.kind # "exercise" /\ AppNext /\ UNCHANGED exerciseVars

Spec == Init /\ [][Next]_vars

\* The script takes its next step unless it waits; a switch process that does not
\* hang opens its ports, and a command that ends of itself or by its signal does.
FairSpec ==
    /\ Spec
    /\ WF_vars(Main)
    /\ \A i \in Ids : WF_vars(Bind(i) /\ UNCHANGED <<exerciseVars, appVars>>)
    /\ \A h \in CommandIds : WF_vars(CommandEnds(h) /\ UNCHANGED exerciseVars)

TypeOK == NetTypeOK /\ ExerciseTypeOK /\ AppTypeOK

=============================================================================
