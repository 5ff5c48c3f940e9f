------------------------------- MODULE Startup -------------------------------
(***************************************************************************)
(* The two commands of cmd/service-provider-flux/main.go.  "init" is a job *)
(* that installs the CRDs and registers the kind at the ServiceProvider;   *)
(* "run" is the controller.  Both ask for access to the onboarding cluster *)
(* and wait for it up to a timeout.  The job is started again if it exits  *)
(* with an error, the controller whenever it exits.                        *)
(*                                                                         *)
(* Several failures are logged and nothing else: the process goes on with  *)
(* what it has, which may be no client for the onboarding cluster at all.  *)
(* What a library does with such a client is not known here: it panics or  *)
(* returns an error.                                                       *)
(***************************************************************************)
EXTENDS Naturals

CONSTANT MaxUpsets  \* bound on failing requests, timeouts and crashes

ASSUME UpsetsAssumption == MaxUpsets \in Nat

Commands == {"init", "run"}

\* The ProviderConfig CRD belongs to the platform, Flux to the onboarding cluster.
CRDs == {"platform", "onboarding"}

VARIABLES
    at,         \* where the process of a command is
    access,     \* state of its AccessRequest
    cluster,    \* it holds a client for the onboarding cluster
    crds,       \* the CRDs that are installed
    registered, \* the kind is registered at the ServiceProvider
    upsets      \* what is left of MaxUpsets

vars == <<at, access, cluster, crds, registered, upsets>>

InitPlaces == {"down", "request", "wait", "crds", "register", "done"}
RunPlaces == {"down", "request", "wait", "manager", "start", "running"}

TypeOK ==
    /\ at \in [Commands -> InitPlaces \cup RunPlaces]
    /\ at["init"] \in InitPlaces /\ at["run"] \in RunPlaces
    /\ access \in [Commands -> {"none", "requested", "granted"}]
    /\ cluster \in [Commands -> BOOLEAN]
    /\ crds \subseteq CRDs
    /\ registered \in BOOLEAN
    /\ upsets \in 0 .. MaxUpsets

Init ==
    /\ at = [c \in Commands |-> "down"]
    /\ access = [c \in Commands |-> "none"]
    /\ cluster = [c \in Commands |-> FALSE]
    /\ crds = {}
    /\ registered = FALSE
    /\ upsets = MaxUpsets

Upset == upsets > 0 /\ upsets' = upsets - 1
Calm == UNCHANGED upsets

-----------------------------------------------------------------------------
(* Both commands *)

Goto(c, place) == at' = [at EXCEPT ![c] = place]

\* The platform cluster and the pod namespace are known; without them the
\* process exits and is back where it was.
Start(c) ==
    /\ at[c] = "down"
    /\ Goto(c, "request")
    /\ Calm
    /\ UNCHANGED <<access, cluster, crds, registered>>

\* requestOnboardingClusterAccess creates the AccessRequest of this command,
\* if there is none from an earlier start ...
RequestAccess(c) ==
    /\ at[c] = "request"
    /\ access' = [access EXCEPT ![c] = IF @ = "none" THEN "requested" ELSE @]
    /\ Goto(c, "wait")
    /\ Calm
    /\ UNCHANGED <<cluster, crds, registered>>

\* Mutant: the commands are mixed up.
AfterAccessSwapped == [init |-> "manager", run |-> "crds"]

AfterAccess == [init |-> "crds", run |-> "manager"]

\* ... and waits until it is granted.
AccessGranted(c) ==
    /\ at[c] = "wait" /\ access[c] = "granted"
    /\ cluster' = [cluster EXCEPT ![c] = TRUE]
    /\ Goto(c, AfterAccess[c])
    /\ Calm
    /\ UNCHANGED <<access, crds, registered>>

\* An error or the timeout is logged, and the process goes on.
AccessFails(c) ==
    /\ at[c] \in {"request", "wait"}
    /\ Goto(c, AfterAccess[c])
    /\ Upset
    /\ UNCHANGED <<access, cluster, crds, registered>>

\* The platform grants what was requested.
Grant(c) ==
    /\ access[c] = "requested"
    /\ access' = [access EXCEPT ![c] = "granted"]
    /\ Calm
    /\ UNCHANGED <<at, cluster, crds, registered>>

\* A process that exits, panics or is killed leaves only what is in the
\* clusters.
Exit(c) ==
    /\ Goto(c, "down")
    /\ cluster' = [cluster EXCEPT ![c] = FALSE]
    /\ UNCHANGED <<access, crds, registered>>

Crash(c) ==
    /\ at[c] \notin {"down", "done"}
    /\ Exit(c)
    /\ Upset

-----------------------------------------------------------------------------
(* init *)

Reachable == IF cluster["init"] THEN CRDs ELSE {"platform"}

CreateOrUpdateCRDs ==
    /\ at["init"] = "crds" /\ cluster["init"]
    /\ crds' = CRDs
    /\ Goto("init", "register")
    /\ Calm
    /\ UNCHANGED <<access, cluster, registered>>

\* Some CRDs are not installed.  The error is logged; a panic ends the job.
CreateOrUpdateCRDsFails ==
    /\ at["init"] = "crds"
    /\ \/ cluster["init"] /\ Upset
       \/ ~cluster["init"] /\ Calm
    /\ \E new \in SUBSET Reachable :
        /\ new # CRDs
        /\ crds' = crds \cup new
    /\ \/ Goto("init", "register")
       \/ ~cluster["init"] /\ Goto("init", "down")
    /\ UNCHANGED <<access, cluster, registered>>

\* RegisterGVKsAtServiceProvider; either way the job ends without an error.
Register ==
    /\ at["init"] = "register"
    /\ \/ registered' = TRUE /\ Calm
       \/ UNCHANGED registered /\ Upset
    /\ Goto("init", "done")
    /\ UNCHANGED <<access, cluster, crds>>

-----------------------------------------------------------------------------
(* run *)

\* Mutant: the missing client goes unnoticed.
NewManagerUnchecked ==
    /\ at["run"] = "manager"
    /\ Goto("run", "start")
    /\ UNCHANGED <<access, cluster, crds, registered>>
    /\ Calm

\* Mutant: without a client it is tried again and again.
NewManagerRetrying ==
    /\ at["run"] = "manager" /\ cluster["run"]
    /\ Goto("run", "start")
    /\ UNCHANGED <<access, cluster, crds, registered>>
    /\ Calm

\* ctrl.NewManager needs the client's configuration: without it the process
\* ends, by a panic or by os.Exit(1).
NewManager ==
    /\ at["run"] = "manager"
    /\ IF cluster["run"]
       THEN Goto("run", "start") /\ UNCHANGED <<access, cluster, crds, registered>>
       ELSE Exit("run")
    /\ Calm

\* mgr.Start watches both kinds; it gives up on a kind that does not exist.
StartManager ==
    /\ at["run"] = "start"
    /\ IF crds = CRDs
       THEN Goto("run", "running") /\ UNCHANGED <<access, cluster, crds, registered>>
       ELSE Exit("run")
    /\ Calm

-----------------------------------------------------------------------------

Job ==
    \/ Start("init") \/ RequestAccess("init") \/ AccessGranted("init")
    \/ CreateOrUpdateCRDs \/ CreateOrUpdateCRDsFails \/ Register

Controller ==
    \/ Start("run") \/ RequestAccess("run") \/ AccessGranted("run")
    \/ NewManager \/ StartManager

Next ==
    \/ Job
    \/ Controller
    \/ \E c \in Commands : Grant(c) \/ AccessFails(c) \/ Crash(c)

Spec == Init /\ [][Next]_vars

\* Processes run on and are started again, and access is granted in the end.
Fairness ==
    /\ WF_vars(Job)
    /\ WF_vars(Controller)
    /\ \A c \in Commands : WF_vars(Grant(c))

FairSpec == Spec /\ Fairness

-----------------------------------------------------------------------------
(* Properties *)

Running == at["run"] = "running"

\* A controller that runs has its client and watches kinds that exist, however
\* many failures were merely logged on the way (main.go:300-304, 412-415).
RunningSound == Running => cluster["run"] /\ access["run"] = "granted" /\ crds = CRDs

\* Once the job is done and the CRDs are there, the controller gets to run and
\* stays: every failure of its start ends the process, none leaves it hanging.
EventuallyRunning == []((at["init"] = "done" /\ crds = CRDs) => <>[]Running)

\* main.go:247 says of the init command: "init (job that installs CRDs)".  So
\* when it is done, without an error that would start it again, they are
\* installed.
InitInstalls == at["init"] = "done" => crds = CRDs

=============================================================================
