---------------------------- MODULE StartupProofs ----------------------------
(***************************************************************************)
(* Theorems about Startup, for any number of failures and crashes.         *)
(***************************************************************************)
EXTENDS Startup, TLAPS

\* Where a process is tells whether it has a client, a client implies that
\* access was granted, and a controller only runs once there are the CRDs.
StartInv ==
    /\ TypeOK
    /\ at["run"] \in {"start", "running"} => cluster["run"]
    /\ \A c \in Commands : cluster[c] => access[c] = "granted"
    /\ at["run"] = "running" => crds = CRDs

LEMMA InitStartInv == Init => StartInv
<1> SUFFICES ASSUME Init PROVE StartInv
  OBVIOUS
<1>1. /\ at \in [Commands -> InitPlaces \cup RunPlaces]
      /\ at["init"] = "down" /\ at["run"] = "down"
  BY DEF Init, Commands, InitPlaces, RunPlaces
<1>2. /\ access \in [Commands -> {"none", "requested", "granted"}]
      /\ cluster \in [Commands -> BOOLEAN]
      /\ \A c \in Commands : ~cluster[c]
  BY DEF Init
<1>3. crds \subseteq CRDs /\ registered \in BOOLEAN
  BY DEF Init
<1>4. upsets \in 0 .. MaxUpsets
  BY UpsetsAssumption DEF Init
<1>5. QED
  BY <1>1, <1>2, <1>3, <1>4 DEF StartInv, TypeOK, InitPlaces, RunPlaces

LEMMA NextStartInv == StartInv /\ [Next]_vars => StartInv'
<1> SUFFICES ASSUME StartInv, [Next]_vars PROVE StartInv'
  OBVIOUS
<1> USE DEF StartInv, TypeOK, Commands, InitPlaces, RunPlaces, AfterAccess, CRDs, Calm,
           Upset, Goto
<1>1. ASSUME NEW c \in Commands, Start(c) PROVE StartInv'
  BY <1>1 DEF Start
<1>2. ASSUME NEW c \in Commands, RequestAccess(c) PROVE StartInv'
  BY <1>2 DEF RequestAccess
<1>3. ASSUME NEW c \in Commands, AccessGranted(c) PROVE StartInv'
  BY <1>3 DEF AccessGranted
<1>4. ASSUME NEW c \in Commands, AccessFails(c) PROVE StartInv'
  BY <1>4, UpsetsAssumption DEF AccessFails
<1>5. ASSUME NEW c \in Commands, Grant(c) PROVE StartInv'
  BY <1>5 DEF Grant
<1>6. ASSUME NEW c \in Commands, Crash(c) PROVE StartInv'
  BY <1>6, UpsetsAssumption DEF Crash, Exit
<1>7. CASE CreateOrUpdateCRDs
  <2>1. crds' = CRDs /\ UNCHANGED <<access, cluster, registered, upsets>>
    BY <1>7 DEF CreateOrUpdateCRDs
  <2>2. at' = [at EXCEPT !["init"] = "register"]
    BY <1>7 DEF CreateOrUpdateCRDs
  <2>3. QED
    BY <2>1, <2>2
<1>8. CASE CreateOrUpdateCRDsFails
  <2>1. PICK place \in {"register", "down"} : at' = [at EXCEPT !["init"] = place]
    BY <1>8 DEF CreateOrUpdateCRDsFails
  <2>2. crds' \subseteq CRDs /\ crds \subseteq crds'
    BY <1>8 DEF CreateOrUpdateCRDsFails, Reachable
  <2>3. upsets' \in 0 .. MaxUpsets
    BY <1>8, UpsetsAssumption DEF CreateOrUpdateCRDsFails
  <2>4. UNCHANGED <<access, cluster, registered>>
    BY <1>8 DEF CreateOrUpdateCRDsFails
  <2>5. /\ at' \in [Commands -> InitPlaces \cup RunPlaces]
        /\ at'["init"] \in InitPlaces /\ at'["run"] = at["run"]
    BY <2>1
  <2>6. TypeOK'
    BY <2>2, <2>3, <2>4, <2>5
  <2>7. at'["run"] = "running" => crds' = CRDs
    BY <2>2, <2>5
  <2>8. QED
    BY <2>4, <2>5, <2>6, <2>7
<1>9. CASE Register
  <2>1. at' = [at EXCEPT !["init"] = "done"] /\ UNCHANGED <<access, cluster, crds>>
    BY <1>9 DEF Register
  <2>2. registered' \in BOOLEAN
    BY <1>9 DEF Register
  <2>3. upsets' \in 0 .. MaxUpsets
    BY <1>9, UpsetsAssumption DEF Register
  <2>4. QED
    BY <2>1, <2>2, <2>3
<1>10. CASE NewManager
  BY <1>10 DEF NewManager, Exit
<1>11. CASE StartManager
  BY <1>11 DEF StartManager, Exit
<1>12. CASE UNCHANGED vars
  BY <1>12 DEF vars
<1>13. QED
  BY <1>1, <1>2, <1>3, <1>4, <1>5, <1>6, <1>7, <1>8, <1>9, <1>10, <1>11, <1>12
  DEF Next, Job, Controller

\* Whatever fails while they start, a process is always in a known place and
\* the clusters in a known state.
THEOREM StartupTypeCorrect == Spec => []TypeOK
<1>1. StartInv => TypeOK
  BY DEF StartInv
<1>2. QED
  BY <1>1, InitStartInv, NextStartInv, PTL DEF Spec

\* A controller that runs has its client and watches kinds that exist, however
\* many requests, timeouts and processes have failed on the way.
THEOREM RunsSoundly == Spec => []RunningSound
<1>1. StartInv => RunningSound
  BY DEF StartInv, RunningSound, Running, Commands
<1>2. QED
  BY <1>1, InitStartInv, NextStartInv, PTL DEF Spec

=============================================================================
