----------------------------- MODULE WatchStream -----------------------------
(***************************************************************************)
(* The event fan-out of pkg/safeguards (Subscribe, Broadcast,              *)
(* RemoveWatcher) and the WatchSandboxes handler both drivers run for each *)
(* subscriber.                                                             *)
(*                                                                         *)
(* A sandbox is abstracted to a version number, 0 when it is not tracked.  *)
(* A writer is a handler or the reconciler: it changes the registry in one *)
(* critical section and broadcasts what it wrote in a later one.  The      *)
(* reconciler and the handlers run side by side, so that the events of two *)
(* changes can be broadcast in the other order.                            *)
(***************************************************************************)
EXTENDS Integers, Sequences, SequencesExt

CONSTANTS Sandboxes,
          Writers,
          Watchers,      \* clients that subscribe, and subscribe again
          BufferSize,    \* watchBufferSize
          MaxChanges     \* bound of the registry changes

ASSUME BufferIsPositive == BufferSize \in Nat \ {0} /\ MaxChanges \in Nat

VARIABLES world,     \* the registry: the version of every sandbox
          changes,   \* registry changes so far
          pending,   \* the event a writer has still to broadcast
          watchers,  \* Registry.watchers: clients whose channel is registered
          closed,    \* clients whose channel is closed
          channel,   \* the buffered events of a client's channel
          handler,   \* what the WatchSandboxes call of a client is doing
          snapshot,  \* snapshot records the call has still to send
          view,      \* what the client knows
          panicked,  \* a closed channel was closed again or sent on
          owed,      \* history: events broadcast since the client subscribed
                     \* that it has not seen
          overtaken  \* history: sandboxes whose last event in a client's channel
                     \* was out of date when it was broadcast

vars == <<world, changes, pending, watchers, closed, channel, handler, snapshot, view, panicked, owed, overtaken>>

Event == [sandbox : Sandboxes, version : 0 .. MaxChanges]
Nothing == {}

Init ==
    /\ world = [s \in Sandboxes |-> 0]
    /\ changes = 0
    /\ pending = [x \in Writers |-> Nothing]
    /\ watchers = {}
    /\ closed = {}
    /\ channel = [w \in Watchers |-> <<>>]
    /\ handler = [w \in Watchers |-> "none"]
    /\ snapshot = [w \in Watchers |-> {}]
    /\ view = [w \in Watchers |-> world]
    /\ panicked = FALSE
    /\ owed = [w \in Watchers |-> <<>>]
    /\ overtaken = [w \in Watchers |-> {}]

\* Update, Add or Delete: the caller keeps the record it got back.
Change(x, s) ==
    /\ pending[x] = Nothing
    /\ changes < MaxChanges
    /\ changes' = changes + 1
    /\ \E version \in {changes'} \cup (IF world[s] = 0 THEN {} ELSE {0}) :
          /\ world' = [world EXCEPT ![s] = version]
          /\ pending' = [pending EXCEPT ![x] = {[sandbox |-> s, version |-> version]}]
    /\ UNCHANGED <<watchers, closed, channel, handler, snapshot, view, panicked, owed, overtaken>>

Overflows_Late(w) == Len(channel[w]) > BufferSize
\* A full channel disconnects its client.
Overflows(w) == Len(channel[w]) >= BufferSize

\* Channels Broadcast closes and forgets.
Disconnected_None == {}
Disconnected == {w \in watchers : Overflows(w)}

Broadcast(x) ==
    /\ pending[x] # Nothing
    /\ \E e \in pending[x] :
          /\ channel' = [w \in Watchers |-> IF w \in watchers /\ ~Overflows(w)
                                              THEN Append(channel[w], e) ELSE channel[w]]
          /\ owed' = [w \in Watchers |-> IF handler[w] \in {"snapshot", "stream"}
                                           THEN Append(owed[w], e) ELSE owed[w]]
          /\ overtaken' = [w \in Watchers |->
                             IF w \notin watchers THEN overtaken[w]
                             ELSE IF e.version = world[e.sandbox] THEN overtaken[w] \ {e.sandbox}
                             ELSE overtaken[w] \cup {e.sandbox}]
    /\ panicked' = (panicked \/ watchers \cap closed # {})
    /\ closed' = closed \cup Disconnected
    /\ watchers' = watchers \ Disconnected
    /\ pending' = [pending EXCEPT ![x] = Nothing]
    /\ UNCHANGED <<world, changes, handler, snapshot, view>>

\* The records of the registry.
Snapshot_Discarded == {}
Snapshot == {[sandbox |-> s, version |-> world[s]] : s \in {t \in Sandboxes : world[t] # 0}}

\* The channel is registered and the snapshot taken in one critical section.
Subscribe(w) ==
    /\ handler[w] = "none"
    /\ handler' = [handler EXCEPT ![w] = "snapshot"]
    /\ watchers' = watchers \cup {w}
    /\ closed' = closed \ {w}
    /\ channel' = [channel EXCEPT ![w] = <<>>]
    /\ owed' = [owed EXCEPT ![w] = <<>>]
    /\ overtaken' = [overtaken EXCEPT ![w] = {}]
    /\ snapshot' = [snapshot EXCEPT ![w] = Snapshot]
    /\ view' = [view EXCEPT ![w] = [s \in Sandboxes |-> 0]]
    /\ UNCHANGED <<world, changes, pending, panicked>>

Learn(w, e) == view' = [view EXCEPT ![w][e.sandbox] = e.version]

SendSnapshot(w) ==
    /\ handler[w] = "snapshot"
    /\ \/ \E e \in snapshot[w] : /\ Learn(w, e)
                                 /\ snapshot' = [snapshot EXCEPT ![w] = @ \ {e}]
                                 /\ UNCHANGED handler
       \/ /\ snapshot[w] = {}
          /\ handler' = [handler EXCEPT ![w] = "stream"]
          /\ UNCHANGED <<snapshot, view>>
    /\ UNCHANGED <<world, changes, pending, watchers, closed, channel, panicked, owed, overtaken>>

\* A closed channel still delivers what was buffered.
Forward(w) ==
    /\ handler[w] = "stream"
    /\ channel[w] # <<>>
    /\ Learn(w, Head(channel[w]))
    /\ channel' = [channel EXCEPT ![w] = Tail(@)]
    /\ owed' = [owed EXCEPT ![w] = Tail(@)]
    /\ UNCHANGED <<world, changes, pending, watchers, closed, handler, snapshot, panicked, overtaken>>

FellBehind_Ignored(w) == handler[w] = "stream" /\ w \in closed /\ UNCHANGED vars
\* The channel is closed and drained: "watcher fell behind".
FellBehind(w) ==
    /\ handler[w] = "stream"
    /\ channel[w] = <<>>
    /\ w \in closed
    /\ handler' = [handler EXCEPT ![w] = "leaving"]
    /\ UNCHANGED <<world, changes, pending, watchers, closed, channel, snapshot, view, panicked, owed, overtaken>>

\* The client went away: its context is done or a Send failed.
ClientGone(w) ==
    /\ handler[w] \in {"snapshot", "stream"}
    /\ handler' = [handler EXCEPT ![w] = "leaving"]
    /\ snapshot' = [snapshot EXCEPT ![w] = {}]
    /\ UNCHANGED <<world, changes, pending, watchers, closed, channel, view, panicked, owed, overtaken>>

\* Whether RemoveWatcher closes the channel: only while it is registered.
Removable_Always(w) == TRUE
Removable(w) == w \in watchers

\* The deferred RemoveWatcher ends the call, and with it what was buffered
\* and its history.
RemoveWatcher(w) ==
    /\ handler[w] = "leaving"
    /\ handler' = [handler EXCEPT ![w] = "none"]
    /\ watchers' = IF Removable(w) THEN watchers \ {w} ELSE watchers
    /\ closed' = IF Removable(w) THEN closed \cup {w} ELSE closed
    /\ panicked' = (panicked \/ (Removable(w) /\ w \in closed))
    /\ owed' = [owed EXCEPT ![w] = <<>>]
    /\ overtaken' = [overtaken EXCEPT ![w] = {}]
    /\ channel' = [channel EXCEPT ![w] = <<>>]
    /\ UNCHANGED <<world, changes, pending, snapshot, view>>

Next == \/ \E x \in Writers : Broadcast(x) \/ \E s \in Sandboxes : Change(x, s)
        \/ \E w \in Watchers : \/ Subscribe(w) \/ SendSnapshot(w) \/ Forward(w) \/ FellBehind(w)
                               \/ ClientGone(w) \/ RemoveWatcher(w)

Spec == Init /\ [][Next]_vars

\* The goroutine of a call keeps running.
FairSpec == Spec /\ \A w \in Watchers : WF_vars(\/ SendSnapshot(w) \/ Forward(w)
                                                \/ FellBehind(w) \/ RemoveWatcher(w))

-----------------------------------------------------------------------------
(* Properties.                                                              *)

\* Every variable keeps its type; a channel never holds more than its buffer.
TypeOK ==
    /\ world \in [Sandboxes -> 0 .. MaxChanges]
    /\ changes \in 0 .. MaxChanges
    /\ \A x \in Writers : pending[x] \subseteq Event
    /\ watchers \subseteq Watchers
    /\ closed \subseteq Watchers
    /\ \A w \in Watchers : channel[w] \in Seq(Event) /\ Len(channel[w]) <= BufferSize
    /\ handler \in [Watchers -> {"none", "snapshot", "stream", "leaving"}]
    /\ \A w \in Watchers : snapshot[w] \subseteq Event
    /\ view \in [Watchers -> [Sandboxes -> 0 .. MaxChanges]]
    /\ panicked \in BOOLEAN
    /\ \A w \in Watchers : owed[w] \in Seq(Event) /\ overtaken[w] \subseteq Sandboxes

\* Overflow and the deferred RemoveWatcher race, and still no channel is
\* closed twice or sent on after it was closed: either would panic.
NoPanic == ~panicked

\* Broadcast never drops an event for a subscriber that goes on: what the
\* subscriber has in its channel is what it is owed, or the channel is closed
\* and it will be told to reconnect.
NothingSilentlyDropped ==
    \A w \in Watchers : handler[w] \in {"snapshot", "stream"} =>
        /\ IsPrefix(channel[w], owed[w])
        /\ channel[w] # owed[w] => w \in closed

\* A client that has caught up knows the registry: once nothing is left to
\* forward, it knows of every sandbox what the registry holds, unless a change
\* is still to be broadcast or two were broadcast in the wrong order (the
\* registry is unlocked between Update and Broadcast).  A change between the
\* snapshot and the first event, or one that meets a full buffer, is not lost.
ViewConverges ==
    \A w \in watchers :
        handler[w] = "stream" /\ channel[w] = <<>> =>
            \A s \in Sandboxes \ overtaken[w] :
                (\A x \in Writers : \A e \in pending[x] : e.sandbox # s) => view[w][s] = world[s]

\* A client whose channel overflowed is told so and can subscribe again.
SlowClientReconnects == \A w \in Watchers : (w \in closed) ~> (handler[w] = "none")
==============================================================================
