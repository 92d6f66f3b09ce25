---------------------------- MODULE StreamSystem ----------------------------
(***************************************************************************)
(* JobManager writing a run's log while browsers follow it: the whole path *)
(* from the worker's stdout to the page.  The streams are served by the    *)
(* same API process, so they are cut when it stops.                        *)
(***************************************************************************)
EXTENDS JobManager, RunStream

sysVars == <<vars, streamVars>>

SysInit == Init /\ StreamInit

(* The process serving the streams is gone, and its notifier with it. *)
StreamsCut ==
  /\ phase' = [c \in Clients |-> "closed"]
  /\ wire' = [c \in Clients |-> <<>>]
  /\ bell' = "none" /\ woken' = {} /\ owed' = FALSE
  /\ UNCHANGED <<cursor, lastGot, shown, stopped, drops>>

Jobs == Next /\ IF api # "down" /\ api' = "down" THEN StreamsCut ELSE Written

Streams == /\ StreamNext
           /\ api = "down" => \A c \in Clients : phase'[c] = "closed"
           /\ UNCHANGED vars

SysNext == Jobs \/ Streams

(* JobManager's fairness and the readers'. *)
SysFairness ==
  /\ Fairness
  /\ \A c \in Clients : /\ WF_sysVars(Streams /\ ServerStep(c))
                        /\ WF_sysVars(Streams /\ ClientStep(c))

SysSpec == SysInit /\ [][SysNext]_sysVars /\ SysFairness
-----------------------------------------------------------------------------
(* A page that follows a run nobody touches comes to the terminal          *)
(* run_status event and stops there, whatever connections it loses and     *)
(* although the server may end a stream before that event.                 *)
PageSeesEnd ==
  \A c \in Clients :
    (phase[c] # "closed" /\ pc["start"] = "done") ~> (stopped[c] \/ ~Undisturbed)
=============================================================================
