-------------------------- MODULE MCFluxReconciler --------------------------
(***************************************************************************)
(* ProviderConfigs for FluxReconciler.                                     *)
(***************************************************************************)
EXTENDS FluxReconciler

Image(chart, secret, ns, pull) ==
    [chart |-> chart, chartPullSecret |-> secret, values |-> "ok",
     namespace |-> ns, imagePullSecrets |-> pull]
Config(fv, ca) == [versions |-> [v \in Versions |-> fv], caBundleRef |-> ca]

MCForeign == {[kind |-> "Secret", ns |-> "flux-system", name |-> "users own"]}

\* A private chart and a private image ...
Private == Config(Image(1, <<"a">>, "flux-system", <<"a">>), "none")
\* ... become a public chart, and a CA bundle in place of the image secret.
Public == Config(Image(2, <<>>, "flux-system", <<>>), "ok")

SimpleConfigs == {Private, Public}

\* The same deployment in another namespace.
Moved == Config(Image(1, <<"a">>, "other", <<"a">>), "none")
MovedConfigs == {Private, Moved}
\* The same, and the other objects.
ReachConfigs == {Moved, Public}

\* A version is not offered (any more), or its configuration is broken.
Withdrawn == [versions |-> [v \in {} |-> {}], caBundleRef |-> "none"]
Malformed == Config([Image(1, <<>>, "flux-system", <<>>) EXCEPT !.values = "malformed"],
                    "none")
NoKey == Config(Image(1, <<>>, "flux-system", <<>>), "noKey")
Outdated == [versions |-> [v \in {"v1"} |-> Image(1, <<"a">>, "flux-system", <<"a">>)],
             caBundleRef |-> "none"]
BrokenConfigs == {Outdated, Malformed, NoKey}
WithdrawnConfigs == {Private, Withdrawn}
OneConfig == {Private}

=============================================================================
