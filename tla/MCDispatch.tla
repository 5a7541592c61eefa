----------------------------- MODULE MCDispatch -----------------------------
(***************************************************************************)
(* An instance of Dispatch for TLC: two users with one task each, the      *)
(* second task waiting for the first, and two shared servers.              *)
(***************************************************************************)
EXTENDS Dispatch

CONSTANTS t1, t2, s1, s2, a1, a2

OwnersOfTasks     == [t \in Tasks |-> IF t = t1 THEN 1 ELSE 2]
SecondAfterFirst  == {[task |-> t2, on |-> t1, state |-> "verify"]}
SecondPrefersS2   == [t \in Tasks |-> IF t = t1 THEN NoServer ELSE s2]
AllUsable         == [u \in Users |-> Servers]
SharedDefault     == [u \in Users |-> s1]
TasksOfAttempts   == [a \in Attempts |-> IF a = a1 THEN t1 ELSE t2]
ServersOfAttempts == [a \in Attempts |-> IF a = a1 THEN s1 ELSE s2]
CapOfServers      == [s \in Servers |-> IF s = s1 THEN 1 ELSE 2]
=============================================================================
