---------------------------- MODULE MCHelmValues -----------------------------
(***************************************************************************)
(* Two controllers.  The first one has any lists of up to two entries, of  *)
(* the user's own or in conflict with the bundle; the second is one of     *)
(* empty, malformed or in conflict.                                        *)
(***************************************************************************)
EXTENDS HelmValues

UpTo(S, n) == UNION {[1 .. k -> S] : k \in 0 .. n}

Volumes == {[name |-> n, source |-> "user"] : n \in {"custom-ca", "own"}}
Mounts == [name : {"custom-ca", "own"}, path : {"custom-ca path", "own path"}]
EnvVars == {[name |-> n, value |-> "user"] : n \in {"SSL_CERT_DIR", "OWN"}}

Sections ==
    [readable : {TRUE}, volumes : UpTo(Volumes, 2),
     volumeMounts : UpTo(Mounts, 2), extraEnv : UpTo(EnvVars, 1)]
Empty == [readable |-> TRUE, volumes |-> <<>>, volumeMounts |-> <<>>, extraEnv |-> <<>>]
Malformed == [Empty EXCEPT !.readable = FALSE]
Conflict ==
    [readable |-> TRUE,
     volumes |-> <<[name |-> "custom-ca", source |-> "user"]>>,
     volumeMounts |-> <<[name |-> "custom-ca", path |-> "own path"]>>,
     extraEnv |-> <<[name |-> "SSL_CERT_DIR", value |-> "user"]>>]

MCControllers == <<"helmController", "sourceController">>
MCRoots == {[c \in {"helmController", "sourceController"} |->
                IF c = "helmController" THEN s ELSE t] :
            s \in Sections \cup {Malformed}, t \in {Empty, Conflict, Malformed}}

=============================================================================
