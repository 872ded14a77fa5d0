-------------------------- MODULE KubernetesDriver --------------------------
(***************************************************************************)
(* The steps of the Kubernetes driver, and of the StatefulSet controller    *)
(* and kubelet it waits for.  Every step is one request to the API server,  *)
(* or the end of one wait.                                                  *)
(***************************************************************************)
EXTENDS RuntimeState

StatefulSet == host.workload
CurrentPod == host.pod
Step(call) == Kubernetes /\ At(call)

Fits(spec) == spec.resources = "small" \/ setup.room
PodRuns(pod) == pod # None /\ pod.phase = "running"

\* No pod will run, however long the wait: the scheduler rejected it, nobody
\* serves its image, or the workload has no replica.
Hopeless ==
  \/ CurrentPod # None /\ CurrentPod.phase = "pending"
       /\ (Fits(CurrentPod.spec) => host.registry = "down")
  \/ CurrentPod = None /\ StatefulSet # None /\ ~StatefulSet.on

\* What inspect calls running.
IsRunning == StatefulSet # None /\ StatefulSet.on /\ PodRuns(CurrentPod)

Terminating(h) ==
  [h EXCEPT !.pod = IF @ = None THEN None ELSE [@ EXCEPT !.phase = "terminating"]]

-----------------------------------------------------------------------------
(* ensure: the Secret and the Services, the claim, the workload. *)

EnsureSupport == Step("support") /\ Returns(Set("support", TRUE))

\* A claim of another owner is refused; one of ours is kept as it is.
EnsureClaim == Step("claim") /\ Needs(host.data # "foreign", Set("data", "ours"))

EnsureWorkloadOnce ==
  /\ Step("workload")
  /\ Returns(IF StatefulSet = None
             THEN [host EXCEPT !.ids = @ + 1,
                               !.workload = [owner |-> "ours", spec |-> Cmd.spec,
                                             id |-> host.ids + 1, on |-> FALSE, marker |-> 0]]
             ELSE host)

\* A new StatefulSet starts with no replica; an existing one keeps its own.
EnsureWorkload ==
  /\ Step("workload")
  /\ Returns(IF StatefulSet = None
             THEN [host EXCEPT !.ids = @ + 1,
                               !.workload = [owner |-> "ours", spec |-> Cmd.spec,
                                             id |-> host.ids + 1, on |-> FALSE, marker |-> 0]]
             ELSE Set("workload", [StatefulSet EXCEPT !.spec = Cmd.spec]))

-----------------------------------------------------------------------------
(* start and stop *)

Scale(on) == Needs(StatefulSet # None, Set("workload", [StatefulSet EXCEPT !.on = on]))
ScaleUp == Step("scaleUp") /\ Scale(TRUE)
ScaleDown == Step("scaleDown") /\ Scale(FALSE)

AwaitRunning ==
  /\ Step("awaitRunning")
  /\ \/ IsRunning /\ Returns(host)
     \/ Hopeless /\ Throws

AwaitGone == Step("awaitGone") /\ CurrentPod = None /\ Returns(host)

-----------------------------------------------------------------------------
(* restart *)

\* The marker of an operation: NapCat passes the effect's id, the same for every
\* replay of a command; the Docker adapter makes a new one for each call.
Operation == IF setup.provider = "napcat" THEN proc.cur ELSE MaxCommands + host.ids + 1

\* restart reads the pod, then writes the marker into the template.  Without a
\* pod, or with one that already carries the marker, it only starts.
MarkRestart ==
  LET replay == CurrentPod = None \/ CurrentPod.marker = Operation
      calls == IF replay THEN <<"scaleUp", "awaitRunning">>
               ELSE <<"dropPod", "awaitDropped", "awaitReplaced">>
  IN
  /\ Step("mark") /\ StatefulSet # None
  /\ host' = [host EXCEPT !.workload = [StatefulSet EXCEPT !.marker = Operation],
                          !.ids = IF setup.provider = "napcat" THEN @ ELSE @ + 1]
  /\ proc' = [proc EXCEPT
       !.todo = calls \o Tail(@),
       !.seen = IF replay THEN None
                ELSE [id |-> CurrentPod.id, spec |-> CurrentPod.spec,
                      previous |-> StatefulSet.marker]]
  /\ acted' = proc.cur
  /\ UNCHANGED <<setup, commands, outcome, saved, faults>>

DropPodByName == Step("dropPod") /\ Returns(Terminating(host))

\* The uid precondition spares a pod that already replaced the one seen.
DropPod ==
  /\ Step("dropPod")
  /\ Returns(IF CurrentPod # None /\ CurrentPod.id = proc.seen.id
             THEN Terminating(host) ELSE host)

AwaitDropped ==
  /\ Step("awaitDropped")
  /\ CurrentPod # None => CurrentPod.id # proc.seen.id
  /\ Returns(host)

Restoring == <<"restoreTemplate", "dropStuck", "awaitRestored">>

\* The wait for the replacement ends when it runs, or gives up on it.
AwaitReplaced ==
  /\ Step("awaitReplaced")
  /\ CurrentPod # None => CurrentPod.id # proc.seen.id
  /\ \/ IsRunning /\ Returns(host)
     \/ Hopeless /\ Becomes(Restoring \o <<"throw">>)

RestoreMarkerOnly ==
  /\ Step("restoreTemplate") /\ StatefulSet # None
  /\ Returns(Set("workload", [StatefulSet EXCEPT !.marker = proc.seen.previous]))

\* The template goes back to the resources of the pod that was replaced, and to
\* the marker it had, so that a retry is not mistaken for a finished rollout.  It
\* keeps its new image and proxy.
RestoreTemplate ==
  /\ Step("restoreTemplate")
  /\ StatefulSet # None
  /\ Returns(Set("workload", [StatefulSet EXCEPT
       !.spec.resources = proc.seen.spec.resources,
       !.marker = proc.seen.previous]))

DropStuck == Step("dropStuck") /\ Returns(Terminating(host))

AwaitRestored ==
  /\ Step("awaitRestored")
  /\ IsRunning \/ Hopeless
  /\ Returns(host)

-----------------------------------------------------------------------------
(* delete and deleteData *)

DeleteWorkloadOrNothing ==
  /\ Step("drop")
  /\ IF StatefulSet # None
     THEN Becomes(<<"scaleDown", "awaitGone", "dropSupport", "dropWorkload">>)
     ELSE Returns(host)

DeleteWorkload ==
  /\ Step("drop")
  /\ IF StatefulSet # None
     THEN Becomes(<<"scaleDown", "awaitGone", "dropSupport", "dropWorkload">>)
     ELSE Needs(~host.support, host)

DropSupport == Step("dropSupport") /\ Returns(Set("support", FALSE))
DropWorkload == Step("dropWorkload") /\ Returns(Set("workload", None))

\* Only a claim whose labels are the command's own endpoint may go.
DeleteData ==
  /\ Step("dropData")
  /\ Needs(host.data # "foreign", Set("data", "none"))

-----------------------------------------------------------------------------
(* The Docker adapter: it tries an image with a throwaway pod, and resolves an
   id to the workload that owns it. *)

\* Only a definitive failure stops the caller; a check that cannot finish lets
\* it go on.
VerifyImage ==
  /\ Step("pull")
  /\ \/ Needs(host.registry # "down", Set("registry", "local"))
     \/ host.registry = "down" /\ Returns(host)

ResolveName ==
  /\ Step("resolve")
  /\ Needs(\/ StatefulSet # None /\ StatefulSet.id = proc.existing.id
           \/ CurrentPod # None /\ CurrentPod.id = proc.existing.id,
           host)

KubernetesCall ==
  \/ EnsureSupport \/ EnsureClaim \/ EnsureWorkload
  \/ ScaleUp \/ ScaleDown \/ AwaitRunning \/ AwaitGone
  \/ MarkRestart \/ DropPod \/ AwaitDropped \/ AwaitReplaced
  \/ RestoreTemplate \/ DropStuck \/ AwaitRestored
  \/ DeleteWorkload \/ DropSupport \/ DropWorkload \/ DeleteData
  \/ VerifyImage \/ ResolveName

-----------------------------------------------------------------------------
(* The StatefulSet controller, the scheduler and the kubelet. *)

Cluster(new) ==
  /\ Kubernetes /\ host' = new
  /\ UNCHANGED <<setup, commands, outcome, proc, saved, acted, faults>>

CreatePod ==
  /\ StatefulSet # None /\ StatefulSet.on /\ CurrentPod = None
  /\ Cluster([host EXCEPT !.ids = @ + 1,
                          !.pod = [id |-> host.ids + 1, spec |-> StatefulSet.spec,
                                   marker |-> StatefulSet.marker, phase |-> "pending"]])

StartPod ==
  /\ CurrentPod # None /\ CurrentPod.phase = "pending" /\ Fits(CurrentPod.spec)
  /\ host.registry # "down"
  /\ Cluster([host EXCEPT !.pod.phase = "running", !.registry = "local"])

\* The update strategy is OnDelete: a changed template alone replaces no pod.
RetirePod ==
  /\ CurrentPod # None /\ CurrentPod.phase # "terminating"
  /\ StatefulSet # None => ~StatefulSet.on
  /\ Cluster(Terminating(host))

PodEnds ==
  /\ CurrentPod # None /\ CurrentPod.phase = "terminating"
  /\ Cluster(Set("pod", None))

ClusterStep == CreatePod \/ StartPod \/ RetirePod \/ PodEnds

\* A wait takes longer than it may although the pod would come up, or go, later.
WaitTimesOut ==
  /\ Kubernetes /\ faults < MaxFaults /\ proc.todo # <<>>
  /\ faults' = faults + 1
  /\ \/ /\ Head(proc.todo) = "awaitReplaced"
        /\ proc' = [proc EXCEPT !.todo = Restoring \o <<"throw">>]
        /\ UNCHANGED outcome
     \/ /\ Head(proc.todo) \in {"awaitRunning", "awaitGone", "awaitDropped", "awaitRestored"}
        /\ proc' = Idle
        /\ outcome' = [outcome EXCEPT ![proc.cur] = IF @ = "leased" THEN "failed" ELSE @]
  /\ UNCHANGED <<setup, commands, saved, host, acted>>
=============================================================================
