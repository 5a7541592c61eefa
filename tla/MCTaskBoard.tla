---------------------------- MODULE MCTaskBoard -----------------------------
(***************************************************************************)
(* TaskBoard with two processes, a task that everything is done to and one *)
(* that depends on it, is looked at and stands in a column it is moved to. *)
(***************************************************************************)
EXTENDS TaskBoard, TLC

CONSTANTS t1, a1

TasksOfAttempts == [a \in Attempts |-> t1]

NewTasks ==
    [t \in Tasks |->
        [status : {IF t = t1 THEN "draft" ELSE "execute"}, title : Titles, place : Slots,
         tags : {NoTags}, deps : {{t1}}]]

ProcessSymmetry == Permutations(Processes)
=============================================================================
