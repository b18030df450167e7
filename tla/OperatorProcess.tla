--------------------------- MODULE OperatorProcess ---------------------------
(***************************************************************************)
(* The state the reconciles of several CSMs share in one operator process: *)
(* the work queue, the one worker, the package variable deployAsSidecar    *)
(* (ReverseProxyMode) and the map ContentWatchChannels (ContentWatch).     *)
(* The CSMs are PowerMax CSMs with different names.                        *)
(*                                                                         *)
(* A reconcile goes through the two components in turn: the prechecks and  *)
(* SyncCSM of ReverseProxyMode, then the content watch; the deletion of a  *)
(* CR is the removal of ReverseProxyMode and then the end of the watch.    *)
(* ContentWatch knows a CSM from the moment it has the finalizer.          *)
(***************************************************************************)
EXTENDS ReverseProxyMode, Sequences

CONSTANTS
    NoChannel,   \* what the map of channels holds for a name without an entry
    MaxWatches,  \* bound: watches started
    MaxFaults    \* bound: failed reconciles and restarts

ASSUME ProcessAssumption == MaxFaults \in Nat /\ MaxWatches \in Nat

VARIABLES
    queue,    \* the CSMs whose key is in the work queue
    faults,
    deployed, watcher, channels, started, open  \* of ContentWatch

queueVars == <<queue, faults>>
watchVars == <<deployed, watcher, channels, started, open>>
processVars == <<vars, queueVars, watchVars>>

\* A CSM as ContentWatch knows it.
CSM(c) == [name |-> c, ns |-> c]

HasCR == {c \in CSMs : spec[c] # << >>}

Watch == INSTANCE ContentWatch WITH
    CSMs <- {CSM(c) : c \in CSMs}, exists <- {CSM(c) : c \in finalizer}, worker <- watcher

ProcessInit == Init /\ Watch!Init /\ queue = {} /\ faults = 0

\* Both components are between two reconciles.
Free == worker = << >> /\ watcher.at = "idle"

\* A reconcile that returns an error goes back to the queue.
Requeue(c) == faults < MaxFaults /\ faults' = faults + 1 /\ queue' = queue \cup {c}

\* The event of a change puts the key into the queue, whether or not the CSM
\* is being reconciled.
Change(c) == Edit(c) /\ queue' = queue \cup {c} /\ UNCHANGED <<faults, watchVars>>

\* So does the event of a deletion; the reconcile of a CR that is gone returns
\* at once, as if its key were not in the queue.
Delete(c) ==
    /\ AskDeletion(c)
    /\ queue' = IF c \in finalizer THEN queue \cup {c} ELSE queue \ {c}
    /\ UNCHANGED <<faults, watchVars>>

Take(c) ==
    /\ Free /\ c \in queue
    /\ Reconcile(c) /\ UNCHANGED watchVars
    /\ IF worker' = << >> THEN Requeue(c) ELSE queue' = queue \ {c} /\ UNCHANGED faults

\* The proxy Deployment on a sync; the driver and the proxy on a deletion.
Serve ==
    /\ SyncServer \/ RemoveDriver \/ RemoveModule
    /\ IF worker' = << >> THEN Requeue(worker[1]) ELSE UNCHANGED queueVars
    /\ UNCHANGED watchVars

\* After the driver comes the watch, unless SyncCSM or the status fails.
Deploy ==
    /\ SyncDriver
    /\ \/ /\ synced'[worker[1]] = <<worker[2]>>
          /\ Watch!StartWatch(CSM(worker[1])) /\ UNCHANGED queueVars
       \/ Requeue(worker[1]) /\ UNCHANGED watchVars

Register == UNCHANGED <<vars, queueVars>> /\ Watch!Register

\* After the finalizer comes the end of the watch.
Finish ==
    /\ RemoveFinalizer
    /\ \/ /\ Watch!Finalized(CSM(worker[1]))
          /\ queue' = queue \ {worker[1]} /\ UNCHANGED faults
       \/ UNCHANGED finalizer /\ Requeue(worker[1]) /\ UNCHANGED watchVars

Stop == UNCHANGED <<vars, queueVars>> /\ Watch!StopWatch

RestartProcess_mut == \* bug: only the CSMs that had failed are taken up again
    /\ faults < MaxFaults /\ faults' = faults + 1
    /\ Restart /\ Watch!Restart /\ UNCHANGED queue

\* The informer of the new process lists all CRs.
RestartProcess ==
    /\ faults < MaxFaults /\ faults' = faults + 1
    /\ Restart /\ Watch!Restart
    /\ queue' = HasCR

WorkerStep == Serve \/ Deploy \/ Register \/ Finish \/ Stop

ProcessNext ==
    \/ \E c \in CSMs : Change(c) \/ Take(c) \/ Delete(c)
    \/ WorkerStep \/ RestartProcess

\* The worker goes on, and takes every key of the queue some time: the queue
\* is first in, first out, and a delay of a failed key ends.
Fairness == WF_processVars(WorkerStep) /\ \A c \in CSMs : SF_processVars(Take(c))

ProcessSpec == ProcessInit /\ [][ProcessNext]_processVars /\ Fairness

(***************************************************************************)
(* Properties.  DeployedAsAsked and ProxyPresent are those of              *)
(* ReverseProxyMode.                                                       *)
(***************************************************************************)
\* The variables of both components and of the queue have their types; only
\* CSMs that exist are queued.
ProcessTypeOK ==
    /\ TypeOK /\ Watch!TypeOK
    /\ queue \subseteq HasCR /\ faults \in 0..MaxFaults

\* Informers do not pile up over the reconciles of all CSMs (see ContentWatch).
NoLeakedWatch == Watch!NoLeakedWatch

\* No channel in the map is closed (see ContentWatch).
NoClosedChannelKept == Watch!NoClosedChannelKept

\* The events of every deployed CSM are handled, whatever happens to the other
\* CSMs, and what is deployed is a driver that was synced from a CR, until that
\* CR is deleted.
DeployedAreServed ==
    /\ Watch!DeployedAreServed
    /\ \A c \in CSMs \ deleting : CSM(c) \in deployed => synced[c] # << >>

\* In the end every CR that was to be deleted is gone, and every other CSM is
\* deployed in the mode its latest spec asks for and its events are handled,
\* though the worker is shared, reconciles and removals fail half way, and
\* restarts of the operator forget the mode and all watches.
AllServed ==
    <>[](deleting = {} /\ \A c \in HasCR : synced[c] = spec[c] /\ CSM(c) \in deployed)
=============================================================================
