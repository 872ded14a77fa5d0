----------------------------- MODULE MCRuntime ------------------------------
(* Instances of Runtime for TLC. *)
EXTENDS Runtime

On(provider, backend, room) == [provider |-> provider, backend |-> backend, room |-> room]

\* Room for the big spec matters to NapCat, whose restart replaces a running
\* pod; the other two always delete the workload first, with the same calls of
\* the adapter, so that one of them is enough on Kubernetes.
EverySetup ==
  {On(p, "docker", TRUE): p \in ProviderNames}
    \cup {On(p, "kubernetes", FALSE): p \in {"napcat", "snowluma"}}
    \cup {On("napcat", "kubernetes", TRUE)}

Adapters == {On(p, "kubernetes", FALSE): p \in {"snowluma", "llbot"}}

\* Reading the logs asks the runtime and changes nothing.
HostActions == AllActions \ {"read-container-logs", "refresh-login-qr"}
=============================================================================
