----------------------------- MODULE WatchProofs -----------------------------
(***************************************************************************)
(* Proofs about the event fan-out for every number of sandboxes, writers   *)
(* and subscribers, every buffer size and every number of changes.         *)
(***************************************************************************)
EXTENDS WatchStream, SequenceTheorems, TLAPS

Subscribed(w) == handler[w] \in {"snapshot", "stream"}

\* The types, with the domains of the functions.
Typed ==
    /\ world \in [Sandboxes -> 0 .. MaxChanges]
    /\ changes \in 0 .. MaxChanges
    /\ pending \in [Writers -> SUBSET Event]
    /\ watchers \subseteq Watchers /\ closed \subseteq Watchers
    /\ channel \in [Watchers -> Seq(Event)]
    /\ handler \in [Watchers -> {"none", "snapshot", "stream", "leaving"}]
    /\ snapshot \in [Watchers -> SUBSET Event]
    /\ view \in [Watchers -> [Sandboxes -> 0 .. MaxChanges]]
    /\ panicked \in BOOLEAN
    /\ owed \in [Watchers -> Seq(Event)]
    /\ overtaken \in [Watchers -> SUBSET Sandboxes]

\* A channel is open as long as it is registered, it is registered or closed
\* as long as its handler listens, and forgotten when its handler returned.
ChannelsAreHeld ==
    /\ watchers \cap closed = {}
    /\ \A w \in Watchers : Subscribed(w) => w \in watchers \cup closed
    /\ \A w \in watchers : handler[w] # "none"

BuffersAreBounded == \A w \in Watchers : Len(channel[w]) <= BufferSize

StreamInv == Typed /\ ChannelsAreHeld /\ BuffersAreBounded /\ NoPanic /\ NothingSilentlyDropped

-----------------------------------------------------------------------------
(* Prefixes.                                                                *)

LEMMA PrefixPointwise ==
    ASSUME NEW S, NEW s \in Seq(S), NEW t \in Seq(S)
    PROVE  IsPrefix(s, t) <=> Len(s) <= Len(t) /\ \A i \in 1 .. Len(s) : s[i] = t[i]
  <1>1. Len(s) \in Nat /\ Len(t) \in Nat
    OBVIOUS
  <1>2. SubSeq(s, 1, Len(s)) = s
    BY SubSeqFull
  <1>3. CASE Len(s) <= Len(t)
    <2>1. /\ SubSeq(t, 1, Len(s)) \in Seq(S)
          /\ Len(SubSeq(t, 1, Len(s))) = Len(s)
          /\ \A i \in 1 .. Len(s) : SubSeq(t, 1, Len(s))[i] = t[i]
      <3>1. \A i \in 1 .. Len(s) : t[i] \in S
        BY <1>1, <1>3, ElementOfSeq
      <3> QED
        BY <1>1, <3>1, SubSeqProperties
    <2>2. (\A i \in 1 .. Len(s) : s[i] = t[i]) => s = SubSeq(t, 1, Len(s))
      BY <2>1, SeqEqual
    <2> QED
      BY <1>2, <1>3, <2>1, <2>2 DEF IsPrefix
  <1> QED
    BY <1>3 DEF IsPrefix

\* What a listener is owed may grow.
LEMMA PrefixOfAppend ==
    ASSUME NEW S, NEW s \in Seq(S), NEW t \in Seq(S), NEW e \in S, IsPrefix(s, t)
    PROVE  IsPrefix(s, Append(t, e)) /\ s # Append(t, e)
  <1>1. Len(s) \in Nat /\ Len(t) \in Nat
    OBVIOUS
  <1>2. Append(t, e) \in Seq(S) /\ Len(Append(t, e)) = Len(t) + 1
        /\ \A i \in 1 .. Len(t) : Append(t, e)[i] = t[i]
    BY AppendProperties
  <1>3. Len(s) <= Len(t) /\ \A i \in 1 .. Len(s) : s[i] = t[i]
    BY PrefixPointwise
  <1>4. Len(s) <= Len(Append(t, e)) /\ \A i \in 1 .. Len(s) : s[i] = Append(t, e)[i]
    BY <1>1, <1>2, <1>3
  <1>5. IsPrefix(s, Append(t, e))
    BY <1>2, <1>4, PrefixPointwise
  <1> QED
    BY <1>1, <1>2, <1>3, <1>5

\* An event delivered is taken from both.
LEMMA PrefixOfTail ==
    ASSUME NEW S, NEW s \in Seq(S), NEW t \in Seq(S), IsPrefix(s, t), s # <<>>
    PROVE  /\ Tail(s) \in Seq(S) /\ Tail(t) \in Seq(S)
           /\ IsPrefix(Tail(s), Tail(t))
           /\ Tail(s) # Tail(t) => s # t
  <1>1. Len(s) \in Nat \ {0} /\ Len(t) \in Nat
    BY EmptySeq
  <1>2. Len(s) <= Len(t) /\ \A i \in 1 .. Len(s) : s[i] = t[i]
    BY PrefixPointwise
  <1>3. t # <<>>
    BY <1>1, <1>2
  <1>4. /\ Tail(s) \in Seq(S) /\ Len(Tail(s)) = Len(s) - 1
        /\ \A i \in 1 .. Len(Tail(s)) : Tail(s)[i] = s[i + 1]
        /\ Tail(t) \in Seq(S) /\ Len(Tail(t)) = Len(t) - 1
        /\ \A i \in 1 .. Len(Tail(t)) : Tail(t)[i] = t[i + 1]
    BY <1>3, HeadTailProperties
  <1>5. Len(Tail(s)) <= Len(Tail(t)) /\ \A i \in 1 .. Len(Tail(s)) : Tail(s)[i] = Tail(t)[i]
    BY <1>1, <1>2, <1>4
  <1> QED
    BY <1>4, <1>5, PrefixPointwise

-----------------------------------------------------------------------------
(* Types.                                                                   *)

LEMMA InitStreamInv == Init => StreamInv
  <1> SUFFICES ASSUME Init PROVE StreamInv
    OBVIOUS
  <1>1. Typed
    <2>1. 0 \in 0 .. MaxChanges /\ <<>> \in Seq(Event) /\ {} \in SUBSET Event
      BY BufferIsPositive
    <2>2. world \in [Sandboxes -> 0 .. MaxChanges]
      BY <2>1 DEF Init
    <2> QED
      BY <2>1, <2>2 DEF Init, Typed, Nothing
  <1>2. \A w \in Watchers : handler[w] = "none" /\ channel[w] = <<>>
    BY DEF Init
  <1> QED
    BY <1>1, <1>2, BufferIsPositive
       DEF Init, StreamInv, ChannelsAreHeld, BuffersAreBounded, NoPanic, NothingSilentlyDropped, Subscribed

LEMMA TypedStep ==
    ASSUME StreamInv, [Next]_vars
    PROVE  Typed'
  <1>0. Typed
    BY DEF StreamInv
  <1> USE <1>0 DEF Typed
  <1>1. ASSUME NEW x \in Writers, NEW s \in Sandboxes, Change(x, s) PROVE Typed'
    <2>1. PICK version \in {changes'} \cup (IF world[s] = 0 THEN {} ELSE {0}) :
             /\ world' = [world EXCEPT ![s] = version]
             /\ pending' = [pending EXCEPT ![x] = {[sandbox |-> s, version |-> version]}]
      BY <1>1 DEF Change
    <2>2. changes' \in 0 .. MaxChanges /\ version \in 0 .. MaxChanges
      BY <1>1, BufferIsPositive DEF Change
    <2>3. {[sandbox |-> s, version |-> version]} \in SUBSET Event
      BY <2>2 DEF Event
    <2> QED
      BY <1>1, <2>1, <2>2, <2>3 DEF Change
  <1>2. ASSUME NEW x \in Writers, Broadcast(x) PROVE Typed'
    <2>1. PICK e \in pending[x] :
             /\ channel' = [w \in Watchers |-> IF w \in watchers /\ ~Overflows(w)
                                                 THEN Append(channel[w], e) ELSE channel[w]]
             /\ owed' = [w \in Watchers |-> IF handler[w] \in {"snapshot", "stream"}
                                              THEN Append(owed[w], e) ELSE owed[w]]
      BY <1>2 DEF Broadcast
    <2>2. e \in Event
      OBVIOUS
    <2>3. \A w \in Watchers : /\ Append(channel[w], e) \in Seq(Event)
                              /\ Append(owed[w], e) \in Seq(Event)
      BY <2>2, AppendProperties
    <2>4. channel' \in [Watchers -> Seq(Event)] /\ owed' \in [Watchers -> Seq(Event)]
      BY <2>1, <2>3
    <2>5. overtaken' \in [Watchers -> SUBSET Sandboxes]
      <3>1. PICK f \in pending[x] :
               overtaken' = [w \in Watchers |->
                               IF w \notin watchers THEN overtaken[w]
                               ELSE IF f.version = world[f.sandbox] THEN overtaken[w] \ {f.sandbox}
                               ELSE overtaken[w] \cup {f.sandbox}]
        BY <1>2 DEF Broadcast
      <3>2. f.sandbox \in Sandboxes
        BY DEF Event
      <3> QED
        BY <3>1, <3>2
    <2> QED
      BY <1>2, <2>4, <2>5 DEF Broadcast, Disconnected, Nothing
  <1>3. ASSUME NEW w \in Watchers, Subscribe(w) PROVE Typed'
    <2>1. Snapshot \in SUBSET Event /\ [s \in Sandboxes |-> 0] \in [Sandboxes -> 0 .. MaxChanges]
      BY BufferIsPositive DEF Snapshot, Event
    <2>2. channel' \in [Watchers -> Seq(Event)] /\ owed' \in [Watchers -> Seq(Event)]
      BY <1>3 DEF Subscribe
    <2> QED
      BY <1>3, <2>1, <2>2 DEF Subscribe
  <1>4. ASSUME NEW w \in Watchers, NEW e \in Event, Learn(w, e)
        PROVE  view' \in [Watchers -> [Sandboxes -> 0 .. MaxChanges]]
    BY <1>4 DEF Learn, Event
  <1>5. ASSUME NEW w \in Watchers, SendSnapshot(w) PROVE Typed'
    <2>1. view' \in [Watchers -> [Sandboxes -> 0 .. MaxChanges]]
      BY <1>4, <1>5 DEF SendSnapshot
    <2> QED
      BY <1>5, <2>1 DEF SendSnapshot
  <1>6. ASSUME NEW w \in Watchers, Forward(w) PROVE Typed'
    <2>1. IsPrefix(channel[w], owed[w]) /\ channel[w] # <<>>
      BY <1>6 DEF StreamInv, Forward, NothingSilentlyDropped
    <2>2. Head(channel[w]) \in Event /\ Tail(channel[w]) \in Seq(Event) /\ Tail(owed[w]) \in Seq(Event)
      BY <2>1, PrefixOfTail, HeadTailProperties
    <2> QED
      BY <1>4, <1>6, <2>2 DEF Forward
  <1>7. ASSUME NEW w \in Watchers, FellBehind(w) \/ ClientGone(w) \/ RemoveWatcher(w) PROVE Typed'
    <2>1. CASE FellBehind(w) \/ ClientGone(w)
      BY <2>1 DEF FellBehind, ClientGone
    <2>2. CASE RemoveWatcher(w)
      <3>1. channel' \in [Watchers -> Seq(Event)] /\ owed' \in [Watchers -> Seq(Event)]
        BY <2>2 DEF RemoveWatcher
      <3>2. overtaken' \in [Watchers -> SUBSET Sandboxes]
        BY <2>2 DEF RemoveWatcher
      <3>3. handler' \in [Watchers -> {"none", "snapshot", "stream", "leaving"}] /\ panicked' \in BOOLEAN
            /\ watchers' \subseteq Watchers /\ closed' \subseteq Watchers
        BY <2>2 DEF RemoveWatcher, Removable
      <3> QED
        BY <2>2, <3>1, <3>2, <3>3 DEF RemoveWatcher
    <2> QED
      BY <1>7, <2>1, <2>2
  <1>8. CASE UNCHANGED vars
    BY <1>8 DEF vars
  <1> QED
    BY <1>1, <1>2, <1>3, <1>5, <1>6, <1>7, <1>8 DEF Next

-----------------------------------------------------------------------------
(* Channels are never closed twice, and nothing is silently dropped.        *)

LEMMA StepStreamInv == StreamInv /\ [Next]_vars => StreamInv'
  <1> SUFFICES ASSUME StreamInv, [Next]_vars PROVE StreamInv'
    OBVIOUS
  <1>0. Typed /\ Typed'
    BY TypedStep DEF StreamInv
  <1> DEFINE Rest == ChannelsAreHeld /\ BuffersAreBounded /\ NoPanic /\ NothingSilentlyDropped
  <1> SUFFICES Rest'
    BY <1>0 DEF StreamInv
  <1> USE DEF Typed, ChannelsAreHeld, BuffersAreBounded, NoPanic, NothingSilentlyDropped, Subscribed
  <1>00. Rest
    BY DEF StreamInv
  <1>1. ASSUME NEW x \in Writers, NEW s \in Sandboxes, Change(x, s) PROVE Rest'
    BY <1>0, <1>00, <1>1 DEF Change
  <1>2. ASSUME NEW x \in Writers, Broadcast(x) PROVE Rest'
    <2>1. PICK e \in pending[x] :
             /\ channel' = [w \in Watchers |-> IF w \in watchers /\ ~Overflows(w)
                                                 THEN Append(channel[w], e) ELSE channel[w]]
             /\ owed' = [w \in Watchers |-> IF handler[w] \in {"snapshot", "stream"}
                                              THEN Append(owed[w], e) ELSE owed[w]]
      BY <1>2 DEF Broadcast
    <2>2. e \in Event
      BY <1>0
    <2>3. ChannelsAreHeld' /\ NoPanic'
      BY <1>0, <1>00, <1>2 DEF Broadcast, Disconnected
    <2>4. BuffersAreBounded'
      <3>1. \A w \in Watchers : Len(channel[w]) \in Nat /\ Len(Append(channel[w], e)) = Len(channel[w]) + 1
        BY <1>0, <2>2, AppendProperties, LenProperties
      <3> QED
        BY <1>00, <2>1, <3>1, BufferIsPositive DEF Overflows
    <2>5. ASSUME NEW w \in Watchers, handler'[w] \in {"snapshot", "stream"}
          PROVE  IsPrefix(channel'[w], owed'[w]) /\ (channel'[w] # owed'[w] => w \in closed')
      <3>1. /\ handler[w] \in {"snapshot", "stream"}
            /\ owed'[w] = Append(owed[w], e)
            /\ IsPrefix(channel[w], owed[w]) /\ (channel[w] # owed[w] => w \in closed)
        BY <1>00, <1>2, <2>1, <2>5 DEF Broadcast
      <3>2. CASE w \in watchers /\ ~Overflows(w)
        <4>1. channel[w] = owed[w] /\ channel'[w] = owed'[w]
          BY <1>00, <2>1, <3>1, <3>2
        <4>2. owed'[w] \in Seq(Event)
          BY <1>0
        <4>3. Len(owed'[w]) \in Nat
          BY <4>2, LenProperties
        <4> QED
          BY <4>1, <4>2, <4>3 DEF IsPrefix
      <3>3. CASE ~(w \in watchers /\ ~Overflows(w))
        <4>1. w \in closed'
          BY <1>00, <1>2, <3>1, <3>3 DEF Broadcast, Disconnected
        <4>2. channel'[w] = channel[w]
          BY <2>1, <3>3
        <4>3. channel[w] \in Seq(Event) /\ owed[w] \in Seq(Event)
          BY <1>0
        <4> QED
          BY <2>2, <3>1, <4>1, <4>2, <4>3, PrefixOfAppend
      <3> QED
        BY <3>2, <3>3
    <2> QED
      BY <2>3, <2>4, <2>5
  <1>3. ASSUME NEW w \in Watchers, Subscribe(w) PROVE Rest'
    <2>1. Len(<<>>) = 0 /\ IsPrefix(<<>>, <<>>)
      BY DEF IsPrefix
    <2> QED
      BY <1>0, <1>00, <1>3, <2>1, BufferIsPositive DEF Subscribe
  <1>4. ASSUME NEW w \in Watchers, SendSnapshot(w) PROVE Rest'
    BY <1>0, <1>00, <1>4 DEF SendSnapshot
  <1>5. ASSUME NEW w \in Watchers, Forward(w) PROVE Rest'
    <2>1. /\ IsPrefix(channel[w], owed[w]) /\ channel[w] # <<>>
          /\ channel[w] # owed[w] => w \in closed
          /\ channel[w] \in Seq(Event) /\ owed[w] \in Seq(Event)
      BY <1>0, <1>00, <1>5 DEF Forward
    <2>2. /\ IsPrefix(Tail(channel[w]), Tail(owed[w]))
          /\ Tail(channel[w]) # Tail(owed[w]) => w \in closed
      BY <2>1, PrefixOfTail
    <2>3. Len(Tail(channel[w])) <= BufferSize
      <3>1. Len(Tail(channel[w])) = Len(channel[w]) - 1 /\ Len(channel[w]) \in Nat
        BY <2>1, HeadTailProperties, LenProperties
      <3> QED
        BY <1>00, <3>1, BufferIsPositive
    <2>4. /\ channel' = [channel EXCEPT ![w] = Tail(channel[w])]
          /\ owed' = [owed EXCEPT ![w] = Tail(owed[w])]
          /\ UNCHANGED <<watchers, closed, handler, panicked>>
      BY <1>5 DEF Forward
    <2>5. BuffersAreBounded'
      BY <1>0, <1>00, <2>3, <2>4
    <2>6. NothingSilentlyDropped'
      BY <1>0, <1>00, <2>2, <2>4
    <2> QED
      BY <1>00, <2>4, <2>5, <2>6
  <1>6. ASSUME NEW w \in Watchers, FellBehind(w) PROVE Rest'
    BY <1>0, <1>00, <1>6 DEF FellBehind
  <1>7. ASSUME NEW w \in Watchers, ClientGone(w) PROVE Rest'
    BY <1>0, <1>00, <1>7 DEF ClientGone
  <1>8. ASSUME NEW w \in Watchers, RemoveWatcher(w) PROVE Rest'
    <2>1. Len(<<>>) = 0
      OBVIOUS
    <2> QED
      BY <1>0, <1>00, <1>8, <2>1, BufferIsPositive DEF RemoveWatcher, Removable
  <1>9. CASE UNCHANGED vars
    BY <1>00, <1>9 DEF vars
  <1> QED
    BY <1>1, <1>2, <1>3, <1>4, <1>5, <1>6, <1>7, <1>8, <1>9 DEF Next

\* The state that Subscribe, Broadcast, RemoveWatcher and the stream handlers
\* keep the channels in, in every reachable state.
THEOREM StreamInvariance == Spec => []StreamInv
  BY InitStreamInv, StepStreamInv, PTL DEF Spec

\* Every variable of the fan-out keeps its type, and no channel ever holds
\* more than its buffer.
THEOREM WatchTypeOK == Spec => []TypeOK
  <1>1. StreamInv => TypeOK
    BY DEF StreamInv, Typed, BuffersAreBounded, TypeOK
  <1> QED
    BY <1>1, StreamInvariance, PTL

\* Broadcast and RemoveWatcher, for any number of writers and subscribers,
\* never close a channel twice nor send on a closed one.
THEOREM NeverPanics == Spec => []NoPanic
  <1>1. StreamInv => NoPanic
    BY DEF StreamInv
  <1> QED
    BY <1>1, StreamInvariance, PTL

\* A subscriber that goes on gets every event, in order, or is disconnected.
THEOREM DropsNothingSilently == Spec => []NothingSilentlyDropped
  <1>1. StreamInv => NothingSilentlyDropped
    BY DEF StreamInv
  <1> QED
    BY <1>1, StreamInvariance, PTL

-----------------------------------------------------------------------------
(* A client that caught up knows the registry, except for the sandboxes     *)
(* whose events overtook each other.                                        *)

\* No event about a sandbox is on its way to the channels.
Silent(s) == \A x \in Writers : \A e \in pending[x] : e.sandbox # s

\* The last event about a sandbox a channel holds.
LastWord(w, s, e) ==
    \E i \in 1 .. Len(channel[w]) :
        /\ channel[w][i] = e
        /\ \A j \in i + 1 .. Len(channel[w]) : channel[w][j].sandbox # s
NotMentioned(w, s) == \A i \in 1 .. Len(channel[w]) : channel[w][i].sandbox # s

\* What a client still has to read about a sandbox: its channel decides, else
\* its snapshot, else it knows already.
Informed(w, s) ==
    \/ LastWord(w, s, [sandbox |-> s, version |-> world[s]])
    \/ /\ NotMentioned(w, s)
       /\ \A e \in snapshot[w] : e.sandbox = s => e.version = world[s]
       /\ (\E e \in snapshot[w] : e.sandbox = s) \/ view[w][s] = world[s]

\* A writer has one event to broadcast at most.
PendingIsSingle == \A x \in Writers : \A e \in pending[x] : pending[x] = {e}
SnapshotIsSent == \A w \in Watchers : handler[w] = "stream" => snapshot[w] = {}
EveryoneIsInformed ==
    \A w \in watchers : Subscribed(w) =>
        \A s \in Sandboxes \ overtaken[w] : Silent(s) => Informed(w, s)

ViewInv == PendingIsSingle /\ SnapshotIsSent /\ EveryoneIsInformed

LEMMA InitViewInv == Init => ViewInv
  BY DEF Init, ViewInv, PendingIsSingle, SnapshotIsSent, EveryoneIsInformed, Nothing

\* An appended event is the last word about its sandbox and says nothing
\* about the others.
LEMMA AppendInforms ==
    ASSUME NEW w, NEW s, NEW e \in Event, channel[w] \in Seq(Event),
           channel'[w] = Append(channel[w], e),
           UNCHANGED <<world, snapshot, view>>
    PROVE  /\ e.sandbox = s /\ e.version = world[s] => Informed(w, s)'
           /\ e.sandbox # s /\ Informed(w, s) => Informed(w, s)'
  <1> DEFINE n == Len(channel[w])
  <1>1. /\ n \in Nat /\ Len(channel'[w]) = n + 1
        /\ \A i \in 1 .. n : channel'[w][i] = channel[w][i]
        /\ channel'[w][n + 1] = e
    BY AppendProperties, LenProperties
  <1>2. CASE e.sandbox = s /\ e.version = world[s]
    <2>1. e = [sandbox |-> s, version |-> world[s]]
      BY <1>2 DEF Event
    <2>2. /\ n + 1 \in 1 .. Len(channel'[w])
          /\ channel'[w][n + 1] = [sandbox |-> s, version |-> world'[s]]
          /\ \A j \in (n + 1) + 1 .. Len(channel'[w]) : channel'[w][j].sandbox # s
      BY <1>1, <2>1
    <2>3. LastWord(w, s, [sandbox |-> s, version |-> world[s]])'
      BY <2>2 DEF LastWord
    <2> QED
      BY <1>2, <2>3 DEF Informed
  <1>3. CASE e.sandbox # s /\ LastWord(w, s, [sandbox |-> s, version |-> world[s]])
    <2>1. PICK i \in 1 .. n :
             /\ channel[w][i] = [sandbox |-> s, version |-> world[s]]
             /\ \A j \in i + 1 .. n : channel[w][j].sandbox # s
      BY <1>3 DEF LastWord
    <2>2. /\ i \in 1 .. Len(channel'[w])
          /\ channel'[w][i] = [sandbox |-> s, version |-> world'[s]]
          /\ \A j \in i + 1 .. Len(channel'[w]) : channel'[w][j].sandbox # s
      BY <1>1, <1>3, <2>1
    <2>3. LastWord(w, s, [sandbox |-> s, version |-> world[s]])'
      BY <2>2 DEF LastWord
    <2> QED
      BY <1>3, <2>3 DEF Informed
  <1>4. CASE e.sandbox # s /\ NotMentioned(w, s)
    <2>1. NotMentioned(w, s)'
      BY <1>1, <1>4 DEF NotMentioned
    <2>2. ~LastWord(w, s, [sandbox |-> s, version |-> world[s]])
      BY <1>4 DEF NotMentioned, LastWord
    <2> QED
      BY <1>4, <2>1, <2>2 DEF Informed
  <1> QED
    BY <1>2, <1>3, <1>4 DEF Informed

\* Reading the first event keeps a client informed.
LEMMA ForwardInforms ==
    ASSUME NEW w \in Watchers, NEW s \in Sandboxes, Typed, Forward(w), snapshot[w] = {}, Informed(w, s)
    PROVE  Informed(w, s)'
  <1> DEFINE e == Head(channel[w])
             n == Len(channel[w])
             m == Len(channel'[w])
  <1>1. /\ channel[w] \in Seq(Event) /\ channel[w] # <<>> /\ channel'[w] = Tail(channel[w])
        /\ view' = [view EXCEPT ![w][e.sandbox] = e.version]
        /\ UNCHANGED <<world, snapshot>>
    BY DEF Typed, Forward, Learn
  <1>2. /\ n \in Nat \ {0} /\ m = n - 1 /\ e = channel[w][1] /\ e \in Event
        /\ \A i \in 1 .. m : channel'[w][i] = channel[w][i + 1]
    BY <1>1, HeadTailProperties, EmptySeq
  <1>3. view'[w][s] = IF e.sandbox = s THEN e.version ELSE view[w][s]
    BY <1>1, <1>2 DEF Typed, Event
  <1>4. CASE LastWord(w, s, [sandbox |-> s, version |-> world[s]])
    <2>1. PICK i \in 1 .. n :
             /\ channel[w][i] = [sandbox |-> s, version |-> world[s]]
             /\ \A j \in i + 1 .. n : channel[w][j].sandbox # s
      BY <1>4 DEF LastWord
    <2>2. CASE i = 1
      <3>1. view'[w][s] = world'[s]
        BY <1>1, <1>2, <1>3, <2>1, <2>2
      <3>2. ASSUME NEW j \in 1 .. m PROVE channel'[w][j].sandbox # s
        <4>1. j + 1 \in i + 1 .. n
          BY <1>2, <2>2
        <4> QED
          BY <1>2, <2>1, <4>1
      <3> QED
        BY <1>1, <3>1, <3>2 DEF Informed, NotMentioned
    <2>3. CASE i # 1
      <3>1. /\ i - 1 \in 1 .. m
            /\ channel'[w][i - 1] = [sandbox |-> s, version |-> world'[s]]
        BY <1>1, <1>2, <2>1, <2>3
      <3>2. ASSUME NEW j \in (i - 1) + 1 .. m PROVE channel'[w][j].sandbox # s
        <4>1. j \in 1 .. m /\ j + 1 \in i + 1 .. n
          BY <1>2, <2>3
        <4> QED
          BY <1>2, <2>1, <4>1
      <3>3. LastWord(w, s, [sandbox |-> s, version |-> world[s]])'
        BY <3>1, <3>2 DEF LastWord
      <3> QED
        BY <3>3 DEF Informed
    <2> QED
      BY <2>2, <2>3
  <1>5. CASE ~LastWord(w, s, [sandbox |-> s, version |-> world[s]])
    <2>1. NotMentioned(w, s) /\ view[w][s] = world[s]
      BY <1>5 DEF Informed
    <2>2. \A i \in 1 .. n : channel[w][i].sandbox # s
      BY <2>1 DEF NotMentioned
    <2>3. e.sandbox # s
      BY <1>2, <2>2
    <2>4. \A j \in 1 .. m : j + 1 \in 1 .. n
      BY <1>2
    <2>5. \A j \in 1 .. m : channel'[w][j].sandbox # s
      BY <1>2, <2>2, <2>4
    <2> QED
      BY <1>1, <1>3, <2>1, <2>3, <2>5 DEF Informed, NotMentioned
  <1> QED
    BY <1>4, <1>5

\* What a client has to read depends on its own channel, snapshot and view.
LEMMA InformedFrame ==
    ASSUME NEW w, NEW s, Informed(w, s), channel'[w] = channel[w], snapshot'[w] = snapshot[w],
           view'[w] = view[w], world'[s] = world[s]
    PROVE  Informed(w, s)'
BY DEF Informed, LastWord, NotMentioned

LEMMA StepViewInv ==
    ASSUME StreamInv, ViewInv, [Next]_vars
    PROVE  ViewInv'
  <1>0. Typed /\ ChannelsAreHeld /\ PendingIsSingle /\ SnapshotIsSent /\ EveryoneIsInformed
    BY DEF StreamInv, ViewInv
  <1> USE <1>0
  <1>1. ASSUME NEW x \in Writers, NEW s \in Sandboxes, Change(x, s) PROVE ViewInv'
    <2>1. PICK version \in {changes'} \cup (IF world[s] = 0 THEN {} ELSE {0}) :
             /\ world' = [world EXCEPT ![s] = version]
             /\ pending' = [pending EXCEPT ![x] = {[sandbox |-> s, version |-> version]}]
      BY <1>1 DEF Change
    <2>2. /\ \A t \in Sandboxes \ {s} : world'[t] = world[t]
          /\ pending[x] = {} /\ pending'[x] = {[sandbox |-> s, version |-> version]}
          /\ \A y \in Writers \ {x} : pending'[y] = pending[y]
      BY <1>1, <2>1 DEF Typed, Change, Nothing
    <2>3. PendingIsSingle'
      BY <2>2 DEF PendingIsSingle
    <2>4. ASSUME NEW w \in watchers', Subscribed(w)', NEW t \in Sandboxes \ overtaken'[w], Silent(t)'
          PROVE  Informed(w, t)'
      <3>1. t # s
        <4> DEFINE e == [sandbox |-> s, version |-> version]
        <4>1. e \in pending'[x] /\ e.sandbox = s
          BY <2>2
        <4>2. e.sandbox # t
          BY <2>4, <4>1 DEF Silent
        <4> QED
          BY <4>1, <4>2
      <3>2. w \in watchers /\ Subscribed(w) /\ Silent(t) /\ t \notin overtaken[w]
        BY <1>1, <2>2, <2>4 DEF Change, Subscribed, Silent
      <3> QED
        BY <1>1, <2>2, <3>1, <3>2, InformedFrame DEF Change, EveryoneIsInformed
    <2> QED
      BY <1>1, <2>3, <2>4 DEF Change, ViewInv, SnapshotIsSent, EveryoneIsInformed
  <1>2. ASSUME NEW x \in Writers, Broadcast(x) PROVE ViewInv'
    <2>1. PICK e \in pending[x] :
             /\ channel' = [w \in Watchers |-> IF w \in watchers /\ ~Overflows(w)
                                                 THEN Append(channel[w], e) ELSE channel[w]]
             /\ overtaken' = [w \in Watchers |->
                                IF w \notin watchers THEN overtaken[w]
                                ELSE IF e.version = world[e.sandbox] THEN overtaken[w] \ {e.sandbox}
                                ELSE overtaken[w] \cup {e.sandbox}]
      BY <1>2 DEF Broadcast
    <2>2. e \in Event /\ pending[x] = {e}
      BY DEF Typed, PendingIsSingle
    <2>3. PendingIsSingle'
      BY <1>2 DEF Typed, Broadcast, Nothing, PendingIsSingle
    <2>4. ASSUME NEW w \in watchers', Subscribed(w)', NEW t \in Sandboxes \ overtaken'[w], Silent(t)'
          PROVE  Informed(w, t)'
      <3>1. /\ w \in watchers /\ w \in Watchers /\ ~Overflows(w) /\ Subscribed(w)
            /\ UNCHANGED <<world, snapshot, view>>
        BY <1>2, <2>4 DEF Broadcast, Disconnected, Subscribed, Typed
      <3>2. channel'[w] = Append(channel[w], e) /\ channel[w] \in Seq(Event)
        BY <2>1, <3>1 DEF Typed
      <3>3. CASE e.sandbox = t
        \* What was broadcast last was current, or t would be overtaken.
        <4>1. e.version = world[t]
          BY <2>1, <2>4, <3>1, <3>3
        <4> QED
          BY <2>2, <3>1, <3>2, <3>3, <4>1, AppendInforms
      <3>4. CASE e.sandbox # t
        <4>1. t \notin overtaken[w]
          BY <2>1, <2>4, <3>1, <3>4
        <4>2. Silent(t)
          BY <1>2, <2>2, <2>4, <3>4 DEF Silent, Broadcast, Typed
        <4>3. Informed(w, t)
          BY <3>1, <4>1, <4>2 DEF EveryoneIsInformed
        <4> QED
          BY <2>2, <3>1, <3>2, <3>4, <4>3, AppendInforms
      <3> QED
        BY <3>3, <3>4
    <2> QED
      BY <1>2, <2>3, <2>4 DEF Broadcast, ViewInv, SnapshotIsSent, EveryoneIsInformed
  <1>3. ASSUME UNCHANGED <<world, pending>>, NEW w \in Watchers,
               \A u \in watchers' \ {w} : /\ u \in watchers
                                          /\ channel'[u] = channel[u] /\ handler'[u] = handler[u]
                                          /\ snapshot'[u] = snapshot[u] /\ view'[u] = view[u]
                                          /\ overtaken'[u] = overtaken[u],
               w \in watchers' /\ Subscribed(w)' =>
                   \A t \in Sandboxes \ overtaken'[w] : Silent(t) => Informed(w, t)'
        PROVE  EveryoneIsInformed' /\ PendingIsSingle'
    <2>1. \A t : Silent(t)' <=> Silent(t)
      BY <1>3 DEF Silent
    <2>2. ASSUME NEW u \in watchers', Subscribed(u)', u # w,
                 NEW t \in Sandboxes \ overtaken'[u], Silent(t)
          PROVE  Informed(u, t)'
      <3>1. Informed(u, t)
        BY <1>3, <2>2 DEF EveryoneIsInformed, Subscribed
      <3> QED
        BY <1>3, <2>2, <3>1, InformedFrame
    <2> QED
      BY <1>3, <2>1, <2>2 DEF EveryoneIsInformed, PendingIsSingle
  <1>4. ASSUME NEW w \in Watchers, Subscribe(w) PROVE ViewInv'
    <2>1. /\ channel'[w] = <<>> /\ snapshot'[w] = Snapshot
          /\ view'[w] = [s \in Sandboxes |-> 0] /\ UNCHANGED world
      BY <1>4 DEF Subscribe, Typed
    <2>2. ASSUME NEW t \in Sandboxes PROVE Informed(w, t)'
      <3>1. NotMentioned(w, t)'
        BY <2>1 DEF NotMentioned
      <3>2. \A e \in snapshot'[w] : e.sandbox = t => e.version = world'[t]
        BY <2>1 DEF Snapshot
      <3>3. CASE world[t] = 0
        BY <2>1, <3>1, <3>2, <3>3 DEF Informed
      <3>4. CASE world[t] # 0
        <4>1. [sandbox |-> t, version |-> world[t]] \in snapshot'[w]
          BY <2>1, <3>4 DEF Snapshot
        <4> QED
          BY <3>1, <3>2, <4>1 DEF Informed
      <3> QED
        BY <3>3, <3>4
    <2>3. EveryoneIsInformed' /\ PendingIsSingle'
      BY <1>3, <1>4, <2>2 DEF Subscribe, Typed
    <2> QED
      BY <1>4, <2>3 DEF Subscribe, Typed, ViewInv, SnapshotIsSent
  <1>5. ASSUME NEW w \in Watchers, SendSnapshot(w) PROVE ViewInv'
    <2>1. CASE UNCHANGED <<snapshot, view>>
      <3>1. \A t \in Sandboxes \ overtaken[w] : w \in watchers /\ Silent(t) => Informed(w, t)'
        BY <1>5, <2>1, InformedFrame DEF SendSnapshot, EveryoneIsInformed, Subscribed
      <3>2. EveryoneIsInformed' /\ PendingIsSingle'
        BY <1>3, <1>5, <2>1, <3>1 DEF SendSnapshot, Typed
      <3> QED
        BY <1>5, <2>1, <3>2 DEF SendSnapshot, Typed, ViewInv, SnapshotIsSent
    <2>2. CASE ~UNCHANGED <<snapshot, view>>
      <3>1. PICK e \in snapshot[w] : /\ Learn(w, e) /\ UNCHANGED handler
                                     /\ snapshot' = [snapshot EXCEPT ![w] = @ \ {e}]
        BY <1>5, <2>2 DEF SendSnapshot
      <3>2. e \in Event /\ handler[w] = "snapshot" /\ UNCHANGED <<world, pending, watchers, channel>>
        BY <1>5 DEF SendSnapshot, Typed
      <3>3. ASSUME NEW t \in Sandboxes, Informed(w, t) PROVE Informed(w, t)'
        <4>1. view'[w][t] = IF e.sandbox = t THEN e.version ELSE view[w][t]
          BY <3>1, <3>2 DEF Learn, Typed, Event
        <4>2. snapshot'[w] = snapshot[w] \ {e}
          BY <3>1 DEF Typed
        <4>3. CASE LastWord(w, t, [sandbox |-> t, version |-> world[t]])
          BY <3>2, <4>3 DEF Informed, LastWord
        <4>4. CASE NotMentioned(w, t) /\ e.sandbox = t
          BY <3>1, <3>2, <3>3, <4>1, <4>2, <4>4 DEF Informed, NotMentioned, LastWord
        <4>5. CASE NotMentioned(w, t) /\ e.sandbox # t
          BY <3>1, <3>2, <3>3, <4>1, <4>2, <4>5 DEF Informed, NotMentioned, LastWord
        <4> QED
          BY <3>3, <4>3, <4>4, <4>5 DEF Informed
      <3>4. \A t \in Sandboxes \ overtaken[w] : w \in watchers /\ Silent(t) => Informed(w, t)'
        BY <3>2, <3>3 DEF EveryoneIsInformed, Subscribed
      <3>5. EveryoneIsInformed' /\ PendingIsSingle'
        <4>1. \A u \in watchers' \ {w} : /\ u \in watchers
                                          /\ channel'[u] = channel[u] /\ handler'[u] = handler[u]
                                          /\ snapshot'[u] = snapshot[u] /\ view'[u] = view[u]
                                          /\ overtaken'[u] = overtaken[u]
          BY <1>5, <3>1, <3>2 DEF SendSnapshot, Learn, Typed
        <4>2. overtaken'[w] = overtaken[w]
          BY <1>5 DEF SendSnapshot
        <4> QED
          BY <1>3, <3>2, <3>4, <4>1, <4>2
      <3> QED
        BY <3>1, <3>2, <3>5 DEF Typed, ViewInv, SnapshotIsSent
    <2> QED
      BY <2>1, <2>2
  <1>6. ASSUME NEW w \in Watchers, Forward(w) PROVE ViewInv'
    <2>1. snapshot[w] = {} /\ Subscribed(w) /\ UNCHANGED <<world, pending, watchers, handler, snapshot>>
      BY <1>6 DEF Forward, SnapshotIsSent, Subscribed
    <2>2. \A t \in Sandboxes \ overtaken[w] : w \in watchers /\ Silent(t) => Informed(w, t)'
      BY <1>6, <2>1, ForwardInforms DEF EveryoneIsInformed
    <2>3. EveryoneIsInformed' /\ PendingIsSingle'
      BY <1>3, <1>6, <2>1, <2>2 DEF Forward, Learn, Typed
    <2> QED
      BY <2>1, <2>3 DEF ViewInv, SnapshotIsSent
  <1>7. ASSUME NEW w \in Watchers, FellBehind(w) \/ ClientGone(w) \/ RemoveWatcher(w) PROVE ViewInv'
    <2>1. handler'[w] \in {"leaving", "none"}
      BY <1>7 DEF FellBehind, ClientGone, RemoveWatcher, Typed
    <2>2. EveryoneIsInformed' /\ PendingIsSingle'
      BY <1>3, <1>7, <2>1 DEF FellBehind, ClientGone, RemoveWatcher, Removable, Typed, Subscribed
    <2>3. SnapshotIsSent'
      BY <1>7 DEF FellBehind, ClientGone, RemoveWatcher, Typed, SnapshotIsSent
    <2> QED
      BY <2>2, <2>3 DEF ViewInv
  <1>8. CASE UNCHANGED vars
    <2>1. \A w, s : Informed(w, s) => Informed(w, s)'
      BY <1>8, InformedFrame DEF vars
    <2> QED
      BY <1>8, <2>1 DEF vars, ViewInv, PendingIsSingle, SnapshotIsSent, EveryoneIsInformed, Silent,
                        Subscribed
  <1> QED
    BY <1>1, <1>2, <1>4, <1>5, <1>6, <1>7, <1>8 DEF Next

\* Subscribe takes the snapshot and registers the channel in one critical
\* section, so that, for any number of writers, a client with nothing left to
\* read knows the registry, but for changes still to be broadcast and those
\* broadcast in the wrong order.
THEOREM ViewsConverge == Spec => []ViewConverges
  <1>1. StreamInv /\ ViewInv => ViewConverges
    <2> SUFFICES ASSUME StreamInv, ViewInv, NEW w \in watchers, handler[w] = "stream", channel[w] = <<>>,
                        NEW s \in Sandboxes \ overtaken[w], Silent(s)
                 PROVE  view[w][s] = world[s]
      BY DEF ViewConverges, Silent
    <2>1. snapshot[w] = {}
      BY DEF ViewInv, SnapshotIsSent, StreamInv, Typed
    <2>2. Informed(w, s)
      BY DEF ViewInv, EveryoneIsInformed, Subscribed
    <2>3. Len(channel[w]) = 0
      OBVIOUS
    <2> QED
      BY <2>1, <2>2, <2>3 DEF Informed, LastWord
  <1>2. StreamInv /\ ViewInv /\ [Next]_vars => ViewInv'
    BY StepViewInv
  <1>3. Spec => []ViewInv
    BY <1>2, InitViewInv, StreamInvariance, PTL DEF Spec
  <1> QED
    BY <1>1, <1>3, StreamInvariance, PTL

==============================================================================
