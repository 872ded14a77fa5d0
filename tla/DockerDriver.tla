---------------------------- MODULE DockerDriver ----------------------------
(***************************************************************************)
(* The calls of the Docker client, one docker command each.                 *)
(***************************************************************************)
EXTENDS RuntimeState

Container == host.workload
Docker(call) == ~Kubernetes /\ At(call)

\* A container that exited by itself has done so until it is started again.
Running(on) == [host EXCEPT !.workload.on = on, !.exited = @ /\ ~on]

\* The id inspect returned names a container that still exists.
SameContainer == Container # None /\ Container.id = proc.existing.id

PullUnverified == Docker("pull") /\ Returns(host)

\* The image is looked for on the node first; only a miss needs the registry.
Pull == Docker("pull") /\ Needs(host.registry # "down", Set("registry", "local"))

RemoveWithData ==
  Docker("rm") /\ Returns([host EXCEPT !.workload = None, !.data = "none"])
Remove == Docker("rm") /\ Returns(Set("workload", None))

\* removeHostEndpoint runs the endpoint's image to delete its directories, for
\* two of the three images only.
RemoveHostEndpoint ==
  /\ Docker("rmHost")
  /\ Needs(setup.provider # "llbot" /\ host.registry # "down", Set("data", "none"))

PrepareDirectories == Docker("dirs") /\ Returns(Set("data", "ours"))

\* The container is created stopped; a missing image is pulled by docker create.
Create ==
  /\ Docker("create")
  /\ Needs(host.registry # "down",
           [host EXCEPT !.registry = "local", !.ids = @ + 1, !.exited = FALSE,
                        !.workload = [owner |-> "ours", spec |-> Cmd.spec,
                                      id |-> host.ids + 1, on |-> FALSE, marker |-> 0]])

Start == Docker("start") /\ Needs(Container # None, Running(TRUE))
StartById == Docker("startId") /\ Needs(SameContainer, Running(TRUE))
Kill == Docker("kill") /\ Needs(SameContainer /\ Container.on, Running(FALSE))
Restart == Docker("restart") /\ Needs(Container # None, Running(TRUE))
Stop == Docker("stop") /\ Needs(Container # None, Running(FALSE))

\* NapCat inspects the container again after a forced restart.
VerifyRestart == Docker("verify") /\ Needs(SameContainer /\ Container.on, host)

DockerCall ==
  \/ Pull \/ Remove \/ RemoveHostEndpoint \/ PrepareDirectories \/ Create
  \/ Start \/ StartById \/ Kill \/ Restart \/ Stop \/ VerifyRestart

-----------------------------------------------------------------------------
(* The environment of a container: nothing restarts one that exits. *)

ContainerExits ==
  /\ ~Kubernetes /\ Container # None /\ Container.on /\ faults < MaxFaults
  /\ host' = [Running(FALSE) EXCEPT !.exited = TRUE]
  /\ faults' = faults + 1
  /\ UNCHANGED <<setup, commands, outcome, proc, saved, acted>>
=============================================================================
