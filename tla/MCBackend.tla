----------------------------- MODULE MCBackend ------------------------------
(***************************************************************************)
(* The request handlers of the API that share no state but the accounts    *)
(* and workspaces they refer to, side by side: one of them moves in a      *)
(* behaviour.                                                              *)
(***************************************************************************)
EXTENDS Access, Accounts, LoginLimiter, Library, GuardedFetch, TLC

CONSTANTS adm, usr, team, admHome, usrHome, c1, c2

MCPersonal == adm :> admHome @@ usr :> usrHome
MCRuns == [ws : {team}, by : {{}, {adm}, {usr}}]
MCBundles == {<<c1>>, <<c1, c2, c1>>}
MCSymmetry == Permutations(AccessTasks)

VARIABLE focus

Init ==
  /\ focus \in {"access", "accounts", "limiter", "library", "fetch"}
  /\ AccessInit /\ AccountsInit /\ LimiterInit /\ LibraryInit
  /\ IF focus = "fetch" THEN FetchInit
     ELSE /\ policy = [private |-> FALSE, redirects |-> FALSE] /\ caller = "api"
          /\ url = CHOOSE u \in Urls : TRUE
          /\ pc = "validate" /\ pin = {} /\ peer = {} /\ hops = 0 /\ read = 0 /\ heard = {}

Next ==
  /\ UNCHANGED focus
  /\ \/ /\ focus = "access" /\ AccessNext
        /\ UNCHANGED <<accountVars, limiterVars, libraryVars, fetchVars>>
     \/ /\ focus = "accounts" /\ AccountsNext
        /\ UNCHANGED <<accessVars, limiterVars, libraryVars, fetchVars>>
     \/ /\ focus = "limiter" /\ LimiterNext
        /\ UNCHANGED <<accessVars, accountVars, libraryVars, fetchVars>>
     \/ /\ focus = "library" /\ LibraryNext
        /\ UNCHANGED <<accessVars, accountVars, limiterVars, fetchVars>>
     \/ /\ focus = "fetch" /\ FetchNext
        /\ UNCHANGED <<accessVars, accountVars, limiterVars, libraryVars>>

Spec == Init /\ [][Next]_<<focus, accessVars, accountVars, limiterVars, libraryVars, fetchVars>>
=============================================================================
