-------------------------------- MODULE Cloud --------------------------------
(***************************************************************************)
(* The start of the process (main.go) and NewCloud (hcloud/cloud.go): the  *)
(* environment is read and validated, the network is looked up, the node   *)
(* the process runs on has to be attached to it, the token is tried, and   *)
(* then the controllers run with the clients that were built.  Whatever    *)
(* goes wrong ends the process, and Kubernetes starts it again.            *)
(***************************************************************************)
EXTENDS Config

CONSTANTS
    Environments,  \* the environments the process may be deployed with
    Controller,    \* the controllers of Kubernetes that call the cloud provider
    Idle,          \* a controller that is not in a call
    MaxRestarts,   \* bound on crashes and new deployments
    MaxFails       \* bound on calls that fail

ASSUME CloudAssumption ==
    /\ Environments \subseteq Environment /\ Environments # {}
    /\ \A e \in Environments : Read(e) # Unset
    /\ MaxRestarts \in Nat /\ MaxFails \in Nat

VARIABLES
    env,       \* the environment of the deployment
    stage,     \* how far the process is: down, or the next call, or up
    cfg,       \* the configuration of the running process
    robotClient, networkID,  \* fields of cloud: set or not
    job,       \* the call each controller is in
    restarts, fails

cloudVars == <<env, stage, cfg, robotClient, networkID, job, restarts, fails>>

-----------------------------------------------------------------------------
InitCloud ==
    /\ env \in Environments
    /\ stage = "down"
    /\ cfg = Unset /\ robotClient = FALSE /\ networkID = FALSE
    /\ job = [k \in Controller |-> Idle]
    /\ restarts = 0 /\ fails = 0

\* The process ends: nothing of it is left.
Exit ==
    /\ stage' = "down"
    /\ cfg' = Unset /\ robotClient' = FALSE /\ networkID' = FALSE
    /\ job' = [k \in Controller |-> Idle]

\* Read, Validate and the client of Robot, if there are credentials.
Boot ==
    /\ stage = "down"
    /\ Readable(env) /\ Validate(Read(env))
    /\ cfg' = Read(env)
    /\ robotClient' = (cfg'.robot /\ cfg'.user /\ cfg'.password)
    /\ stage' = IF cfg'.network THEN "network" ELSE "location"
    /\ UNCHANGED <<env, networkID, job, restarts, fails>>

\* The network is found.
GetNetwork ==
    /\ stage = "network"
    /\ networkID' = TRUE
    /\ stage' = IF cfg.attachedCheck THEN "attached" ELSE "location"
    /\ UNCHANGED <<env, cfg, robotClient, job, restarts, fails>>

\* serverIsAttachedToNetwork.
CheckAttached ==
    /\ stage = "attached"
    /\ stage' = "location"
    /\ UNCHANGED <<env, cfg, robotClient, networkID, job, restarts, fails>>

\* The token works: the controllers start.
ListLocations ==
    /\ stage = "location"
    /\ stage' = "up"
    /\ UNCHANGED <<env, cfg, robotClient, networkID, job, restarts, fails>>

\* A call of NewCloud fails, or finds no network, or no attachment to it.
StartFails ==
    /\ stage \in {"network", "attached", "location"}
    /\ fails < MaxFails /\ fails' = fails + 1
    /\ Exit
    /\ UNCHANGED <<env, restarts>>

\* The process is deployed with environment e, or dies and keeps its own.
Restart(e) ==
    /\ restarts < MaxRestarts /\ restarts' = restarts + 1
    /\ stage = "up" \/ e # env
    /\ env' = e
    /\ Exit
    /\ UNCHANGED fails

StartUp == Boot \/ GetNetwork \/ CheckAttached \/ ListLocations

NextCloud == StartUp \/ StartFails \/ \E e \in Environments : Restart(e)

\* The environment is one the process starts in.
Deployable(e) == Readable(e) /\ Validate(Read(e))
=============================================================================
