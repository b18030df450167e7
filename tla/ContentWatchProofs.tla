------------------------- MODULE ContentWatchProofs -------------------------
(***************************************************************************)
(* The invariants of ContentWatch, for any set of CSMs and any number of   *)
(* watches.                                                                *)
(***************************************************************************)
EXTENDS ContentWatch, TLAPS

\* What the constants are: at least one CSM, and a value that is no channel.
Constants ==
    /\ MaxWatches \in Nat /\ CSMs # {}
    /\ NoChannel \notin Nat

\* No two CSMs have the same name.
DistinctNames == \A c, d \in CSMs : c.name = d.name => c = d

\* The map and the worker name open channels, each for the CSM it was started
\* for: so no channel is named twice.
ChannelsInv ==
    /\ \A n \in Names : channels[n] # NoChannel =>
           channels[n] \in open /\ started[channels[n]] = n
    /\ worker.at = "register" =>
           /\ worker.csm \in exists
           /\ worker.ch \in open /\ started[worker.ch] = worker.csm.name
           /\ \A n \in Names : channels[n] # worker.ch

\* The inductive invariant.
WatchInv == TypeOK /\ NoLeakedWatch /\ ChannelsInv

\* A deployed CSM has its channel in the map, and a CSM whose watch is about to
\* be stopped is not deployed.
DeployedInv ==
    /\ \A c \in deployed : channels[c.name] # NoChannel
    /\ worker.at = "stop" => worker.csm \notin deployed

\* The worker between two reconciles names some CSM.
LEMMA IdleType == CSMs # {} => Idle.csm \in CSMs /\ Idle.at = "idle" /\ Idle.ch = 0
  BY DEF Idle

\* The initial state.
LEMMA WatchInit == ASSUME Constants PROVE Init => WatchInv
  <1> SUFFICES ASSUME Init PROVE WatchInv
    OBVIOUS
  <1> USE DEF Init
  <1>1. TypeOK
    BY IdleType DEF TypeOK, Constants, Channels, Names, Idle
  <1>2. NoLeakedWatch /\ ChannelsInv
    BY IdleType DEF NoLeakedWatch, ChannelsInv, Idle, Names
  <1> QED
    BY <1>1, <1>2 DEF WatchInv

\* What a new watch adds to the history of names.
LEMMA AppendStarted ==
    ASSUME started \in Seq(Names), NEW n \in Names
    PROVE  /\ Append(started, n) \in Seq(Names)
           /\ Len(Append(started, n)) = Len(started) + 1
           /\ DOMAIN Append(started, n) = DOMAIN started \cup {Len(started) + 1}
           /\ Append(started, n)[Len(started) + 1] = n
           /\ \A i \in DOMAIN started : Append(started, n)[i] = started[i]
           /\ Len(started) + 1 \notin DOMAIN started /\ Len(started) \in Nat
  OBVIOUS

\* Every action preserves the invariant.
LEMMA WatchStep == ASSUME Constants PROVE WatchInv /\ [Next]_vars => WatchInv'
  <1> SUFFICES ASSUME WatchInv, [Next]_vars PROVE WatchInv'
    OBVIOUS
  <1> USE IdleType DEF Constants, WatchInv, TypeOK, Names, Channels
  <1>1. ASSUME NEW c \in CSMs, Create(c) PROVE WatchInv'
    BY <1>1 DEF Create, NoLeakedWatch, ChannelsInv
  <1>2. ASSUME NEW c \in CSMs, StartWatch(c) PROVE WatchInv'
    <2> USE <1>2 DEF StartWatch, NextChannel
    <2>1. c.name \in Names
      OBVIOUS
    <2>2. TypeOK'
      BY <2>1, AppendStarted
    <2>3. NoLeakedWatch'
      <3>1. open \subseteq {channels[n] : n \in Names}
        BY DEF NoLeakedWatch
      <3>2. open' = open \cup {worker'.ch} /\ worker'.at = "register" /\ channels' = channels
        OBVIOUS
      <3>3. ASSUME NEW x \in open', x # worker'.ch PROVE x \in {channels'[n] : n \in Names}
        <4>1. PICK n \in Names : x = channels[n]
          BY <3>1, <3>2, <3>3
        <4> QED
          BY <4>1, <3>2
      <3> QED
        BY <3>2, <3>3 DEF NoLeakedWatch
    <2>4. ChannelsInv'
      BY <2>1, AppendStarted DEF ChannelsInv
    <2> QED
      BY <2>2, <2>3, <2>4
  <1>3. ASSUME NEW c \in CSMs, Finalized(c) PROVE WatchInv'
    BY <1>3 DEF Finalized, NoLeakedWatch, ChannelsInv
  <1>4. CASE Register
    <2> USE <1>4 DEF Register
    <2>1. worker' = Idle /\ worker'.at = "idle" /\ worker.csm.name \in Names
      OBVIOUS
    <2>2. TypeOK'
      BY <2>1 DEF ChannelsInv, Idle
    <2>3. NoLeakedWatch'
      BY <2>1 DEF NoLeakedWatch, ChannelsInv
    <2>4. ChannelsInv'
      BY <2>1 DEF ChannelsInv
    <2> QED
      BY <2>2, <2>3, <2>4
  <1>5. CASE StopWatch
    <2> USE <1>5 DEF StopWatch
    <2>1. worker' = Idle /\ worker'.at = "idle" /\ worker.csm.name \in Names
      OBVIOUS
    <2>2. TypeOK'
      BY <2>1 DEF Idle
    <2>3. NoLeakedWatch'
      BY <2>1 DEF NoLeakedWatch
    <2>4. ChannelsInv'
      BY <2>1 DEF ChannelsInv
    <2> QED
      BY <2>2, <2>3, <2>4
  <1>6. CASE Restart
    <2>1. TypeOK'
      BY <1>6 DEF Restart, Idle
    <2>2. NoLeakedWatch' /\ ChannelsInv'
      BY <1>6 DEF Restart, NoLeakedWatch, ChannelsInv
    <2> QED
      BY <2>1, <2>2
  <1>7. CASE UNCHANGED vars
    BY <1>7 DEF vars, NoLeakedWatch, ChannelsInv
  <1> QED
    BY <1>1, <1>2, <1>3, <1>4, <1>5, <1>6, <1>7 DEF Next

\* Every action preserves what is said of deployed CSMs, if names differ.
LEMMA DeployedStep ==
    ASSUME Constants, DistinctNames
    PROVE  WatchInv /\ DeployedInv /\ [Next]_vars => DeployedInv'
  <1> SUFFICES ASSUME WatchInv, DeployedInv, [Next]_vars PROVE DeployedInv'
    OBVIOUS
  <1> USE IdleType DEF Constants, WatchInv, TypeOK, Names, Channels, DeployedInv
  <1>1. ASSUME NEW c \in CSMs, Create(c) \/ StartWatch(c) \/ Finalized(c) PROVE DeployedInv'
    BY <1>1 DEF Create, StartWatch, Finalized
  <1>2. CASE Register
    BY <1>2 DEF Register
  <1>3. CASE StopWatch
    BY <1>3 DEF StopWatch, DistinctNames
  <1>4. CASE Restart
    BY <1>4 DEF Restart
  <1>5. CASE UNCHANGED vars
    BY <1>5 DEF vars
  <1> QED
    BY <1>1, <1>2, <1>3, <1>4, <1>5 DEF Next

\* No informers leak, and no channel in the map is closed: over any number of
\* reconciles, deletions, re-creations and restarts, and whatever the names
\* (Reconcile, ContentWatchChannels).
THEOREM WatchesBounded ==
    ASSUME Constants PROVE Spec => [](TypeOK /\ NoLeakedWatch /\ NoClosedChannelKept)
  <1>1. WatchInv => TypeOK /\ NoLeakedWatch /\ NoClosedChannelKept
    BY DEF WatchInv, ChannelsInv, NoClosedChannelKept
  <1> QED
    BY <1>1, WatchInit, WatchStep, PTL DEF Spec

\* With different names the events of every deployed CSM are handled: the end
\* of one CSM's watch leaves the others alone.
THEOREM DeployedServed ==
    ASSUME Constants, DistinctNames PROVE Spec => []DeployedAreServed
  <1>1. Init => DeployedInv
    BY IdleType DEF Init, DeployedInv, Idle
  <1>2. WatchInv /\ DeployedInv => DeployedAreServed
    BY DEF WatchInv, TypeOK, ChannelsInv, DeployedInv, DeployedAreServed, Served, Names
  <1> QED
    BY <1>1, <1>2, WatchInit, WatchStep, DeployedStep, PTL DEF Spec
=============================================================================
