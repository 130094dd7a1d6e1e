---------------------------- MODULE PollerProofs ----------------------------
(***************************************************************************)
(* poll's table is what the sources say it is, callbacks get their own     *)
(* events, and a signal that is owed its callback keeps poll from          *)
(* sleeping: for every number of sources, descriptors and signals, and for *)
(* everything a callback may do to the sources.                            *)
(***************************************************************************)
EXTENDS Poller, FiniteSetTheorems, TLAPS

SourceFields == [fd : Fd \cup {NULL}, mask : SUBSET {"READABLE", "WRITABLE"},
                 killed : BOOLEAN, idx : Int]

\* The types of what the loop reads.
PollerTypes ==
  /\ fds \subseteq Source
  /\ src \in [Source -> SourceFields]
  /\ fd_event_sources \in Nat
  /\ dirty \in BOOLEAN

\* fd_event_sources counts the sources that were not destroyed, and the pipe.
Counted == fd_event_sources = Cardinality(Live) + 1

\* A source that was given a place has an entry of its own there, for as long
\* as it is in the list: even in a table that is out of date.
PlacesAreOwn ==
  \A s \in fds : src[s].idx # -1 =>
    /\ src[s].idx \in DOMAIN pollfds \ {0}
    /\ pollfds[src[s].idx].owner = s
    /\ pollfds[src[s].idx].fd = src[s].fd

\* A table that is not marked dirty is up to date.
CleanIsExact ==
  ~dirty =>
    /\ DOMAIN pollfds = 0 .. Cardinality(Live)
    /\ \A s \in Live : src[s].idx \in DOMAIN pollfds /\ pollfds[src[s].idx] = PollFd(s)
    /\ \A i \in DOMAIN pollfds \ {0} : pollfds[i].owner \in Live

TableInv == PollerTypes /\ Counted /\ PlacesAreOwn /\ CleanIsExact

\* What the place of the main thread says about the table and the pass.
LoopInv ==
  /\ pc = "poll" => ~dirty
  /\ pc \in {"fds", "fd"} => todo \subseteq fds

\* The inductive invariant for the sources.
PollerInv == TableInv /\ LoopInv

\* A signal whose flag is set is in its handler, has a byte in the pipe, or is
\* still to be looked at in the present scan; one that is owed its callback
\* has its flag set and is not the one whose callback is running, after which
\* the flag is cleared.
SignalInv ==
  /\ pipe \in Nat
  /\ due \subseteq raised /\ raised \subseteq Signal
  /\ pc = "drain" => pipe > 0
  /\ pc = "signal" => cur \notin due
  /\ \A sig \in raised : \/ sig \in handler \/ pipe > 0
                         \/ pc \in {"signals", "signal"} /\ sig \in todo
-----------------------------------------------------------------------------
\* The numbers of the live sources: a set of sources is finite.
LEMMA LiveIsFinite ==
  ASSUME PollerTypes
  PROVE  IsFiniteSet(Live) /\ Cardinality(Live) \in Nat
<1>1. Live \subseteq Source
  BY DEF Live, PollerTypes
<1> QED
  BY <1>1, SourceAssumption, FS_Subset, FS_CardinalityType

\* poller_init sets the table up.
LEMMA InitTable == Init => TableInv
<1> SUFFICES ASSUME Init PROVE TableInv
  OBVIOUS
<1>1. Live = {}
  BY DEF Init, Live
<1>2. Cardinality(Live) = 0
  BY <1>1, FS_EmptySet
<1>3. PollerTypes
  BY DEF Init, PollerTypes, SourceFields, Unallocated
<1> QED
  BY <1>2, <1>3 DEF Init, TableInv, Counted, PlacesAreOwn, CleanIsExact

\* A step that leaves the sources and the table alone leaves TableInv alone.
LEMMA SameTable ==
  ASSUME TableInv, UNCHANGED <<sourceVars, pollfds>>
  PROVE  TableInv'
<1>1. Live' = Live
  BY DEF sourceVars, Live
<1>2. \A s : PollFd(s)' = PollFd(s)
  BY DEF sourceVars, PollFd
<1> QED
  BY <1>1, <1>2 DEF TableInv, PollerTypes, Counted, PlacesAreOwn, CleanIsExact, sourceVars

\* poller_add_fd keeps the count; the new source has no place yet, and the
\* places of the others stay theirs although its structure may be a reused one.
LEMMA AddKeepsTable ==
  ASSUME TableInv, NEW s \in Source, NEW d \in Fd, NEW mask \in EventMask,
         poller_add_fd(s, d, mask)
  PROVE  TableInv'
<1> USE DEF poller_add_fd, InCallbackOnly, NewSource
<1>1. PollerTypes'
  BY DEF TableInv, PollerTypes, SourceFields, EventMask
<1>2. s \notin Live /\ Live' = Live \cup {s}
  BY DEF TableInv, PollerTypes, Live
<1>3. Cardinality(Live') = Cardinality(Live) + 1
  BY <1>2, LiveIsFinite, FS_AddElement DEF TableInv
<1>4. Counted'
  BY <1>3, LiveIsFinite DEF TableInv, Counted
<1>5. PlacesAreOwn'
  BY DEF TableInv, PollerTypes, PlacesAreOwn
<1> QED
  BY <1>1, <1>4, <1>5 DEF TableInv, CleanIsExact

\* event_source_fd_destroy keeps the count and every place.
LEMMA DestroyKeepsTable ==
  ASSUME TableInv, NEW s \in Source, event_source_fd_destroy(s)
  PROVE  TableInv'
<1> USE DEF event_source_fd_destroy, InCallbackOnly
<1>1. s \in Live /\ Live' = Live \ {s}
  BY DEF TableInv, PollerTypes, SourceFields, Live
<1>2. Cardinality(Live') = Cardinality(Live) - 1 /\ Cardinality(Live) # 0
  BY <1>1, LiveIsFinite, FS_RemoveElement, FS_EmptySet DEF TableInv
<1>3. Counted' /\ fd_event_sources' \in Nat
  BY <1>2, LiveIsFinite DEF TableInv, Counted
<1>4. PollerTypes'
  BY <1>3 DEF TableInv, PollerTypes, SourceFields
<1>5. PlacesAreOwn'
  BY DEF TableInv, PollerTypes, SourceFields, PlacesAreOwn
<1> QED
  BY <1>3, <1>4, <1>5 DEF TableInv, CleanIsExact

\* event_source_fd_update changes a mask and marks the table.
LEMMA UpdateKeepsTable ==
  ASSUME TableInv, NEW s \in Source, NEW mask \in EventMask, event_source_fd_update(s, mask)
  PROVE  TableInv'
<1> USE DEF event_source_fd_update, InCallbackOnly
<1>1. PollerTypes'
  BY DEF TableInv, PollerTypes, SourceFields, EventMask
<1>2. Live' = Live
  BY DEF TableInv, PollerTypes, SourceFields, Live
<1>3. Counted'
  BY <1>2 DEF TableInv, Counted
<1>4. PlacesAreOwn'
  BY DEF TableInv, PollerTypes, SourceFields, PlacesAreOwn
<1> QED
  BY <1>1, <1>3, <1>4 DEF TableInv, CleanIsExact

\* regenerate makes the table exact from any state: its asserts hold.
LEMMA RegenerateIsExact ==
  ASSUME TableInv, regenerate
  PROVE  TableInv' /\ ~dirty'
<1> DEFINE n == Cardinality(Live)
<1>1. PICK num \in Numberings(Live) :
        /\ src' = [s \in Source |->
                     IF s \in Live THEN [src[s] EXCEPT !.idx = num[s]] ELSE Unallocated]
        /\ pollfds' = [i \in 0 .. n |->
                         IF i = 0 THEN PipeEntry ELSE PollFd(CHOOSE s \in Live : num[s] = i)]
  BY DEF regenerate
<1>2. /\ fds' = Live /\ ~dirty' /\ dirty' \in BOOLEAN
      /\ fd_event_sources' = fd_event_sources
  BY DEF regenerate
<1>3. Live \subseteq Source /\ n \in Nat
  BY LiveIsFinite DEF TableInv, PollerTypes, Live
<1>4. /\ \A s \in Live : num[s] \in 1 .. n
      /\ \A s, t \in Live : num[s] = num[t] => s = t
      /\ \A i \in 1 .. n : \E s \in Live : num[s] = i
  BY DEF Numberings
<1> HIDE DEF n
<1>5. \A s \in Live : src[s] \in SourceFields /\ ~src[s].killed
  BY <1>3 DEF TableInv, PollerTypes, Live
<1>6. \A s \in Live : /\ src'[s] = [src[s] EXCEPT !.idx = num[s]]
                      /\ src'[s].idx = num[s] /\ src'[s].fd = src[s].fd
                      /\ src'[s].mask = src[s].mask /\ ~src'[s].killed
  BY <1>1, <1>3, <1>5 DEF SourceFields
<1>7. Live' = Live
  BY <1>2, <1>6 DEF Live
<1>8. PollerTypes'
  <2>1. \A s \in Live : num[s] \in Int
    BY <1>3, <1>4
  <2>2. src' \in [Source -> SourceFields]
    BY <1>1, <1>5, <2>1 DEF SourceFields, Unallocated
  <2> QED
    BY <1>2, <1>3, <2>2 DEF TableInv, PollerTypes
<1>9. \A s \in Live : PollFd(s)' = PollFd(s)
  BY <1>6 DEF PollFd
<1>10. \A s \in Live : (CHOOSE t \in Live : num[t] = num[s]) = s
  BY <1>4
<1>11. DOMAIN pollfds' = 0 .. n
  BY <1>1
<1>12. \A s \in Live : num[s] \in DOMAIN pollfds' \ {0} /\ pollfds'[num[s]] = PollFd(s)
  BY <1>1, <1>3, <1>4, <1>10
<1>13. \A i \in DOMAIN pollfds' \ {0} : pollfds'[i].owner \in Live
  <2> TAKE i \in DOMAIN pollfds' \ {0}
  <2>1. PICK s \in Live : num[s] = i
    BY <1>3, <1>4, <1>11
  <2>2. pollfds'[i] = PollFd(s)
    BY <1>12, <2>1
  <2> QED
    BY <2>2 DEF PollFd
<1>14. PlacesAreOwn'
  <2>1. \A s \in Live : PollFd(s).owner = s /\ PollFd(s).fd = src[s].fd
    BY DEF PollFd
  <2>2. ASSUME NEW s \in Live
        PROVE  /\ src'[s].idx \in DOMAIN pollfds' \ {0}
               /\ pollfds'[src'[s].idx].owner = s
               /\ pollfds'[src'[s].idx].fd = src'[s].fd
    <3>1. src'[s].idx = num[s] /\ src'[s].fd = src[s].fd
      BY <1>6
    <3>2. num[s] \in DOMAIN pollfds' \ {0} /\ pollfds'[num[s]] = PollFd(s)
      BY <1>12
    <3> QED
      BY <2>1, <3>1, <3>2
  <2> QED
    BY <1>2, <2>2 DEF PlacesAreOwn
<1>15. CleanIsExact'
  BY <1>6, <1>7, <1>9, <1>11, <1>12, <1>13 DEF CleanIsExact, n
<1>16. Counted'
  BY <1>2, <1>7 DEF TableInv, Counted
<1> QED
  BY <1>2, <1>8, <1>14, <1>15, <1>16 DEF TableInv
-----------------------------------------------------------------------------
\* The inductive invariant of the sources holds: no order of adding, changing
\* and destroying sources in callbacks confuses the table.
THEOREM PollerInvHolds == Spec => []PollerInv
<1>1. Init => PollerInv
  BY InitTable DEF Init, PollerInv, LoopInv
<1>2. PollerInv /\ [Next]_vars => PollerInv'
  <2> SUFFICES ASSUME PollerInv, [Next]_vars PROVE PollerInv'
    OBVIOUS
  <2>1. CASE CallbackStep
    <3>1. TableInv'
      BY <2>1, AddKeepsTable, DestroyKeepsTable, UpdateKeepsTable DEF CallbackStep, PollerInv
    <3>2. fds \subseteq fds' /\ UNCHANGED <<pc, todo>> /\ InCallback
      BY <2>1 DEF CallbackStep, poller_add_fd, event_source_fd_destroy,
                  event_source_fd_update, InCallbackOnly
    <3> QED
      BY <3>1, <3>2 DEF PollerInv, LoopInv, InCallback
  <2>2. CASE Prepare
    <3>1. TableInv' /\ ~dirty'
      <4>1. CASE dirty
        BY <2>2, <4>1, RegenerateIsExact DEF Prepare, PollerInv
      <4>2. CASE ~dirty
        BY <2>2, <4>2, SameTable DEF Prepare, PollerInv, sourceVars
      <4> QED
        BY <4>1, <4>2
    <3> QED
      BY <2>2, <3>1 DEF Prepare, PollerInv, LoopInv
  <2>3. CASE /\ UNCHANGED <<sourceVars, pollfds>>
             /\ pc' = "poll" => pc = "poll"
             /\ pc' \in {"fds", "fd"} =>
                  todo' = fds \/ (pc \in {"fds", "fd"} /\ todo' \subseteq todo)
    BY <2>3, SameTable DEF PollerInv, LoopInv, sourceVars
  <2>4. CASE PollReturns
    BY <2>3, <2>4 DEF PollReturns
  <2>5. CASE Drain
    BY <2>3, <2>5 DEF Drain
  <2>6. CASE \E sig \in Signal : SignalCallback(sig) \/ SkipSignal(sig)
    BY <2>3, <2>6 DEF SignalCallback, SkipSignal
  <2>7. CASE SignalReturns \/ SignalsDone
    BY <2>3, <2>7 DEF SignalReturns, SignalsDone
  <2>8. CASE \E s \in Source : FdCallback(s) \/ SkipFd(s)
    BY <2>3, <2>8 DEF FdCallback, SkipFd
  <2>9. CASE FdReturns \/ FdsDone
    BY <2>3, <2>9 DEF FdReturns, FdsDone
  <2>10. CASE \E sig \in Signal : Raise(sig) \/ HandlerWrites(sig)
    BY <2>3, <2>10 DEF Raise, HandlerWrites
  <2>11. CASE \E s \in Source, flags \in SUBSET PollFlag : Becomes(s, flags)
    BY <2>3, <2>11 DEF Becomes
  <2>12. CASE UNCHANGED vars
    BY <2>3, <2>12 DEF vars
  <2> QED
    BY <2>1, <2>2, <2>4, <2>5, <2>6, <2>7, <2>8, <2>9, <2>10, <2>11, <2>12 DEF Next, LoopStep
<1> QED
  BY <1>1, <1>2, PTL DEF Spec

\* poll is given exactly the sources that were not destroyed, with their
\* present descriptors and masks (poller_poll, regenerate).
THEOREM PollTableIsExact == Spec => []PollsExactlyLive
<1>1. PollerInv => PollsExactlyLive
  <2> SUFFICES ASSUME PollerInv, pc = "poll" PROVE PollsExactlyLive
    BY DEF PollsExactlyLive
  <2>1. fd_event_sources - 1 = Cardinality(Live)
    BY LiveIsFinite DEF PollerInv, TableInv, Counted
  <2> QED
    BY <2>1 DEF PollerInv, TableInv, LoopInv, CleanIsExact, PollsExactlyLive
<1> QED
  BY <1>1, PollerInvHolds, PTL

\* dispatch calls back only live sources, each with what poll reported for
\* its own entry, although callbacks of the same pass add and destroy sources.
THEOREM CallbacksGetOwnEvents == Spec => []CallbackGetsOwnEvents
<1>1. PollerInv => CallbackGetsOwnEvents
  BY DEF PollerInv, TableInv, LoopInv, PlacesAreOwn, CallbackGetsOwnEvents, Dispatchable, Live
<1> QED
  BY <1>1, PollerInvHolds, PTL
-----------------------------------------------------------------------------
\* A signal that is owed its callback keeps poll from sleeping: while the
\* loop is in poll there is a byte in the pipe, or the handler is about to
\* write one.  Neither a full pipe nor a signal that comes while dispatch
\* drains the pipe, scans the flags or runs another callback loses it.
DueSignalWakes == pc = "poll" => \A sig \in due : pipe > 0 \/ sig \in handler

\* The invariant of the signals holds (signal_handler, dispatch).
THEOREM SignalInvHolds == Spec => []SignalInv
<1>1. Init => SignalInv
  BY DEF Init, SignalInv
<1>2. SignalInv /\ [Next]_vars => SignalInv'
  <2> SUFFICES ASSUME SignalInv, [Next]_vars PROVE SignalInv'
    OBVIOUS
  <2> USE DEF SignalInv, signalVars
  <2>1. CASE CallbackStep
    BY <2>1 DEF CallbackStep, poller_add_fd, event_source_fd_destroy,
                event_source_fd_update, InCallbackOnly
  <2>2. CASE Prepare
    BY <2>2 DEF Prepare
  <2>3. CASE PollReturns
    BY <2>3 DEF PollReturns
  <2>4. CASE Drain
    BY <2>4 DEF Drain
  <2>5. CASE \E sig \in Signal : SignalCallback(sig)
    BY <2>5 DEF SignalCallback
  <2>6. CASE \E sig \in Signal : SkipSignal(sig)
    BY <2>6 DEF SkipSignal
  <2>7. CASE SignalReturns
    BY <2>7 DEF SignalReturns
  <2>8. CASE SignalsDone
    BY <2>8 DEF SignalsDone
  <2>9. CASE \E s \in Source : FdCallback(s) \/ SkipFd(s)
    BY <2>9 DEF FdCallback, SkipFd
  <2>10. CASE FdReturns \/ FdsDone
    BY <2>10 DEF FdReturns, FdsDone
  <2>11. CASE \E sig \in Signal : Raise(sig)
    BY <2>11 DEF Raise
  <2>12. CASE \E sig \in Signal : HandlerWrites(sig)
    BY <2>12, PipeAssumption DEF HandlerWrites
  <2>13. CASE \E s \in Source, flags \in SUBSET PollFlag : Becomes(s, flags)
    BY <2>13 DEF Becomes
  <2>14. CASE UNCHANGED vars
    BY <2>14 DEF vars
  <2> QED
    BY <2>1, <2>2, <2>3, <2>4, <2>5, <2>6, <2>7, <2>8, <2>9, <2>10, <2>11, <2>12, <2>13, <2>14
       DEF Next, LoopStep
<1> QED
  BY <1>1, <1>2, PTL DEF Spec

\* No signal is slept over (signal_handler, poller_poll): the safety half of
\* SignalServed.
THEOREM DueSignalsWakePoll == Spec => []DueSignalWakes
<1>1. SignalInv => DueSignalWakes
  BY DEF SignalInv, DueSignalWakes
<1> QED
  BY <1>1, SignalInvHolds, PTL
=============================================================================
