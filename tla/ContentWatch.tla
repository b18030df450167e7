---------------------------- MODULE ContentWatch ----------------------------
(***************************************************************************)
(* The informers Reconcile starts for a CSM that was deployed, and the map *)
(* ContentWatchChannels in which it keeps the channel that stops them.     *)
(*                                                                         *)
(* A watch is a set of informers with one stop channel.  It looks at all   *)
(* namespaces, and informerUpdate hands an event to the handlers when the  *)
(* event's csm label is the NAME of the CSM the watch was started for; the *)
(* handlers take the namespace from the event.  The map is keyed by the    *)
(* name as well.                                                           *)
(***************************************************************************)
EXTENDS Naturals, Sequences

CONSTANTS
    CSMs,        \* records [name, ns]: the ContainerStorageModules
    NoChannel,   \* what the map holds for a name without an entry
    MaxWatches   \* bound: watches started

Names == {c.name : c \in CSMs}

VARIABLES
    exists,   \* the CSMs with a CR
    deployed, \* those of them deployed since the operator started
    worker,   \* what the worker is doing: a record [at, csm, ch]
    channels, \* ContentWatchChannels: name -> stop channel
    started,  \* history: the name each watch was started for; channels are its indices
    open      \* channels that are not closed: their informers run

vars == <<exists, deployed, worker, channels, started, open>>

Channels == 1..MaxWatches

Idle == [at |-> "idle", csm |-> CHOOSE c \in CSMs : TRUE, ch |-> 0]

Init ==
    /\ exists = {} /\ deployed = {}
    /\ worker = Idle
    /\ channels = [n \in Names |-> NoChannel]
    /\ started = << >>
    /\ open = {}

Create(c) ==
    /\ c \notin exists
    /\ exists' = exists \cup {c}
    /\ UNCHANGED <<deployed, worker, channels, started, open>>

NextChannel == Len(started) + 1

\* A reconcile that deployed the CSM calls ContentWatch: the informers run
\* before the channel is in the map.  The watch of an earlier reconcile keeps
\* running meanwhile.  A reconcile that fails does not get here and leaves
\* the map alone.
StartWatch(c) ==
    /\ worker.at = "idle" /\ c \in exists
    /\ NextChannel \in Channels
    /\ started' = Append(started, c.name)
    /\ open' = open \cup {NextChannel}
    /\ worker' = [at |-> "register", csm |-> c, ch |-> NextChannel]
    /\ UNCHANGED <<exists, deployed, channels>>

Register_mut == \* bug: the earlier watch is not stopped
    /\ worker.at = "register"
    /\ channels' = [channels EXCEPT ![worker.csm.name] = worker.ch]
    /\ deployed' = deployed \cup {worker.csm}
    /\ worker' = Idle
    /\ UNCHANGED <<exists, started, open>>

\* Under ContentWatchLock: close the channel the name has, then store the
\* new one.
Register ==
    /\ worker.at = "register"
    /\ open' = open \ {channels[worker.csm.name]}
    /\ channels' = [channels EXCEPT ![worker.csm.name] = worker.ch]
    /\ deployed' = deployed \cup {worker.csm}
    /\ worker' = Idle
    /\ UNCHANGED <<exists, started>>

\* The deletion branch has removed the finalizer; the CR is gone.
Finalized(c) ==
    /\ worker.at = "idle" /\ c \in exists
    /\ exists' = exists \ {c} /\ deployed' = deployed \ {c}
    /\ worker' = [at |-> "stop", csm |-> c, ch |-> 0]
    /\ UNCHANGED <<channels, started, open>>

StopWatch_mut == \* bug: the closed channel stays in the map
    /\ worker.at = "stop"
    /\ open' = open \ {channels[worker.csm.name]}
    /\ worker' = Idle
    /\ UNCHANGED <<exists, deployed, channels, started>>

StopWatch_nil == \* bug: the entry is set to a nil channel
    /\ worker.at = "stop"
    /\ open' = open \ {channels[worker.csm.name]}
    /\ channels' = [channels EXCEPT ![worker.csm.name] = 0]
    /\ worker' = Idle
    /\ UNCHANGED <<exists, deployed, started>>

StopWatch_all == \* bug: the informers of every CSM are stopped
    /\ worker.at = "stop"
    /\ open' = {}
    /\ channels' = [n \in Names |-> NoChannel]
    /\ worker' = Idle
    /\ UNCHANGED <<exists, deployed, started>>

\* Under ContentWatchLock: close the channel and delete the entry.
StopWatch ==
    /\ worker.at = "stop"
    /\ open' = open \ {channels[worker.csm.name]}
    /\ channels' = [channels EXCEPT ![worker.csm.name] = NoChannel]
    /\ worker' = Idle
    /\ UNCHANGED <<exists, deployed, started>>

\* The operator restarts: the map and the informers are gone, and every CR
\* is reconciled anew.
Restart ==
    /\ worker' = Idle
    /\ channels' = [n \in Names |-> NoChannel]
    /\ open' = {} /\ deployed' = {}
    /\ UNCHANGED <<exists, started>>

Next ==
    \/ \E c \in CSMs : Create(c) \/ StartWatch(c) \/ Finalized(c)
    \/ Register \/ StopWatch \/ Restart

Spec == Init /\ [][Next]_vars

TypeOK ==
    /\ exists \subseteq CSMs /\ deployed \subseteq exists
    /\ worker \in [at : {"idle", "register", "stop"}, csm : CSMs, ch : Channels \cup {0}]
    /\ channels \in [Names -> Channels \cup {NoChannel}]
    /\ started \in Seq(Names) /\ Len(started) <= MaxWatches
    /\ open \subseteq DOMAIN started

(***************************************************************************)
(* Properties.                                                             *)
(***************************************************************************)
\* The CSMs whose events the open watches hand to the handlers: informerUpdate
\* compares names only.
Served(c) == \E ch \in open : started[ch] = c.name

\* No watch outlives its registration: the open channels are those in the
\* map, and the one the worker is about to store.  Otherwise informers of the
\* whole cluster leak with every reconcile.
NoLeakedWatch ==
    open \subseteq {channels[n] : n \in Names}
                   \cup (IF worker.at = "register" THEN {worker.ch} ELSE {})

\* A channel in the map is open: closing it again would panic.
NoClosedChannelKept ==
    \A n \in Names : channels[n] # NoChannel => channels[n] \in open

\* "stop this CSM's informers" (deletion branch of Reconcile): the events of
\* every other CSM that is deployed are still handled.
DeployedAreServed ==
    \A c \in deployed : Served(c)
=============================================================================
