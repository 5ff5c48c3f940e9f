----------------------------- MODULE HelmValues ------------------------------
(***************************************************************************)
(* AddCAToHelmValues of pkg/flux/helm.go: it puts a volume, a volume mount *)
(* and an environment variable for the custom CA bundle into the section   *)
(* of every Flux controller of the user's helm values, and takes out what  *)
(* is in their way.  Controllers are treated one after the other; the      *)
(* first section that cannot be read ends it all with an error.            *)
(*                                                                         *)
(* Of the values only the three lists are modelled, and of an entry only   *)
(* what it is matched by and whom it is from.  Absent, null and empty all  *)
(* read as <<>>; everything else in a section is passed on as it is.  A    *)
(* section is not readable if it or one of its lists does not unmarshal.   *)
(***************************************************************************)
EXTENDS Naturals, Sequences

CONSTANTS
    fluxControllers,  \* the sequence of controllers of the chart
    Roots             \* the values users write: a section per controller

Elements(s) == {s[i] : i \in DOMAIN s}
Distinct(s, Name(_)) == \A i, j \in DOMAIN s : Name(s[i]) = Name(s[j]) => i = j

Section ==
    [readable: BOOLEAN,
     volumes: Seq([name: STRING, source: STRING]),
     volumeMounts: Seq([name: STRING, path: STRING]),
     extraEnv: Seq([name: STRING, value: STRING])]

ASSUME ControllersAssumption ==
    /\ fluxControllers \in Seq(STRING)
    /\ Distinct(fluxControllers, LAMBDA c : c)
ASSUME RootsAssumption == Roots \subseteq [Elements(fluxControllers) -> Section]

caVolume == [name |-> "custom-ca", source |-> "copied config map"]
caVolumeMount == [name |-> "custom-ca", path |-> "custom-ca path"]
caEnvVar == [name |-> "SSL_CERT_DIR", value |-> "custom-ca path and defaults"]

VARIABLES
    configMap,  \* the caBundleRef: "nil", "noName", "noKey" or "ok"
    given,      \* the values as they were given
    root,       \* the values as they are being changed
    next,       \* position in fluxControllers
    outcome     \* "running", "error", or "ok": root is returned

vars == <<configMap, given, root, next, outcome>>

Init ==
    /\ configMap \in {"nil", "noName", "noKey", "ok"}
    /\ given \in Roots
    /\ root = given
    /\ next = 1
    /\ outcome = "running"

-----------------------------------------------------------------------------

\* The loop that the three functions below have in common: what is in the way is
\* left out, the rest keeps its order.
Without(list, conflicting) ==
    LET updated[i \in 0 .. Len(list)] ==
            IF i = 0 THEN <<>>
            ELSE IF list[i] \in conflicting THEN updated[i - 1]
            ELSE Append(updated[i - 1], list[i])
    IN  updated[Len(list)]

removeConflictingVolumesAndAppend(volumes) ==
    Append(Without(volumes, {v \in Elements(volumes) : v.name = caVolume.name}),
           caVolume)

\* Mutant: a mount is in the way only if it has the same name.
removeMountsByName(volumeMounts) ==
    Append(Without(volumeMounts,
                   {m \in Elements(volumeMounts) : m.name = caVolumeMount.name}),
           caVolumeMount)

\* Mutant: a mount is in the way only if it has the same path.
removeMountsByPath(volumeMounts) ==
    Append(Without(volumeMounts,
                   {m \in Elements(volumeMounts) : m.path = caVolumeMount.path}),
           caVolumeMount)

removeConflictingVolumeMountsAndAppend(volumeMounts) ==
    Append(Without(volumeMounts,
                   {m \in Elements(volumeMounts) : \/ m.path = caVolumeMount.path
                                                  \/ m.name = caVolumeMount.name}),
           caVolumeMount)

removeConflictingEnvVarsAndAppend(envVars) ==
    Append(Without(envVars, {e \in Elements(envVars) : e.name = caEnvVar.name}),
           caEnvVar)

addCAToController(section) ==
    [readable |-> TRUE,
     volumes |-> removeConflictingVolumesAndAppend(section.volumes),
     volumeMounts |-> removeConflictingVolumeMountsAndAppend(section.volumeMounts),
     extraEnv |-> removeConflictingEnvVarsAndAppend(section.extraEnv)]

-----------------------------------------------------------------------------

Current == fluxControllers[next]
Running == outcome = "running"

Reject ==
    /\ Running /\ configMap # "ok"
    /\ outcome' = "error"
    /\ UNCHANGED <<configMap, given, root, next>>

AddCA ==
    /\ Running /\ configMap = "ok" /\ next \in DOMAIN fluxControllers
    /\ root[Current].readable
    /\ root' = [root EXCEPT ![Current] = addCAToController(@)]
    /\ next' = next + 1
    /\ UNCHANGED <<configMap, given, outcome>>

\* Mutant: a section that cannot be read is skipped.
Skip ==
    /\ Running /\ configMap = "ok" /\ next \in DOMAIN fluxControllers
    /\ ~root[Current].readable
    /\ next' = next + 1
    /\ UNCHANGED <<configMap, given, root, outcome>>

Fail ==
    /\ Running /\ configMap = "ok" /\ next \in DOMAIN fluxControllers
    /\ ~root[Current].readable
    /\ outcome' = "error"
    /\ UNCHANGED <<configMap, given, root, next>>

Return ==
    /\ Running /\ configMap = "ok" /\ next \notin DOMAIN fluxControllers
    /\ outcome' = "ok"
    /\ UNCHANGED <<configMap, given, root, next>>

Next == Reject \/ AddCA \/ Fail \/ Return

Spec == Init /\ [][Next]_vars

-----------------------------------------------------------------------------
(* Properties *)

Returned == outcome = "ok"
VolumeOf(section, m) == {v.source : v \in {w \in Elements(section.volumes) : w.name = m.name}}

\* The bundle and nothing else is found under the path that the only SSL_CERT_DIR
\* names.
FindsCA(section) ==
    /\ section.readable
    /\ \E m \in Elements(section.volumeMounts) : m.path = caVolumeMount.path
    /\ \A m \in Elements(section.volumeMounts) :
        m.path = caVolumeMount.path => VolumeOf(section, m) = {caVolume.source}
    /\ {e.value : e \in {x \in Elements(section.extraEnv) : x.name = caEnvVar.name}}
            = {caEnvVar.value}

\* Whatever the values were, every controller that is deployed finds the copied
\* config map, or the values are refused as a whole (helm.go:135-139, 213-244).
CAInstalled ==
    Returned => \A i \in DOMAIN fluxControllers : FindsCA(root[fluxControllers[i]])

\* A pod the API server accepts: volume names and mount paths are distinct and
\* every mount has its volume.
Valid(section) ==
    /\ Distinct(section.volumes, LAMBDA v : v.name)
    /\ Distinct(section.volumeMounts, LAMBDA m : m.path)
    /\ \A m \in Elements(section.volumeMounts) : VolumeOf(section, m) # {}

\* Values that were valid pods before still are: taking out a volume leaves no
\* mount dangling, adding one makes no name or path ambiguous (helm.go:213-233).
StaysValid ==
    Returned =>
        \A i \in DOMAIN fluxControllers :
            LET c == fluxControllers[i] IN
            Valid(given[c]) => Valid(root[c])

MountsKept(old, new) ==
    \A m \in Elements(old.volumeMounts) :
        \/ m.path = caVolumeMount.path
        \/ m \in Elements(new.volumeMounts) /\ VolumeOf(new, m) = VolumeOf(old, m)
        \/ m \notin Elements(new.volumeMounts) /\ m.name = caVolume.name

\* The user's mounts that remain show what they showed before, and those that
\* do not had to go: their path or their volume's name is taken by the bundle.
MountsKeepMeaning ==
    Returned =>
        \A i \in DOMAIN fluxControllers :
            LET c == fluxControllers[i] IN MountsKept(given[c], root[c])

=============================================================================
