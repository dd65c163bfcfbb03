---------------------------- MODULE Application ----------------------------
(***************************************************************************)
(* The life of the process around the indexing: main and app.Run take the    *)
(* settings from the environment (Configuration) and then hand the services  *)
(* to lifecycle.Run (Lifecycle), whose error decides the exit status.        *)
(***************************************************************************)
EXTENDS Configuration, Lifecycle

applicationVars == <<configVars, vars>>

ApplicationInit == ConfigInit /\ Init

\* Bound: the supervisor is explored for one environment only.  Of all the
\* settings it sees the shutdown timeout, and of that only that it passes.
MinimalEnvironment == \A n \in Variables \ RequiredVars : env[n] = Absent

Supervised == stage = "running" /\ MinimalEnvironment

\* LoadConfig or a component refused the settings and the process has ended, or
\* nothing more of it is explored.
Over ==
    /\ \/ endedBy # Nobody
       \/ stage = "running" /\ ~MinimalEnvironment
    /\ UNCHANGED applicationVars

ApplicationNext ==
    \/ ConfigNext /\ UNCHANGED vars
    \/ Supervised /\ Next /\ UNCHANGED configVars
    \/ Over

\* Before lifecycle.Run neither the supervisor nor its timer has a step to take.
ApplicationSpec ==
    /\ ApplicationInit /\ [][ApplicationNext]_applicationVars
    /\ WF_vars(Supervisor) /\ WF_vars(Expire)
=============================================================================
