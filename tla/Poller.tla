------------------------------- MODULE Poller -------------------------------
(***************************************************************************)
(* The event loop of seatd/poller.c: the fd sources, the table poll(2)     *)
(* sees, the dispatch pass with the callbacks it runs, and the signal      *)
(* handler, which may run between any two steps of the loop (on the main   *)
(* thread or on the VT event thread).                                      *)
(*                                                                         *)
(* A callback may add, change and destroy sources in any number and order  *)
(* before it returns, as the callbacks of clients and control peers do.    *)
(* The order within the lists of sources is left open: nothing may depend  *)
(* on it.                                                                  *)
(***************************************************************************)
EXTENDS Integers, FiniteSets

CONSTANTS
  Source,    \* event_source_fd structures; a freed one may be allocated again
  Fd,        \* file descriptors; a closed one may be opened again
  Signal,    \* the signals with an event_source_signal, added before the loop
  PipeSize,  \* how many bytes the signal pipe holds
  PollFlag,  \* what the kernel reports for a descriptor
  NULL

ASSUME SourceAssumption == IsFiniteSet(Source) /\ NULL \notin Source \cup Signal
ASSUME PipeAssumption == PipeSize \in Nat \ {0}

\* The masks seatd asks for.
EventMask == {{"READABLE"}, {"READABLE", "WRITABLE"}}

VARIABLES
  fds,       \* the sources in poller->fds, killed ones included
  src,       \* src[s]: the fields of source s
  fd_event_sources, dirty,
  pollfds,   \* the table without revents; pollfds[0] is the signal pipe;
             \* owner is the source an entry was made for (not in the code)
  revents,   \* what poll reported, until the pass is over
  pc,        \* where the main thread is
  todo,      \* the signals or sources that are left in the dispatch pass
  cur,       \* the signal or source whose callback runs
  raised,    \* the signals whose raised flag is set
  pipe,      \* bytes in the signal pipe
  handler,   \* signals whose handler has set the flag and not yet written
  due,       \* signals that came outside their callback and whose callback
             \* has not started since (not in the code)
  ready      \* (kernel) ready[d]: what is pending on descriptor d

sourceVars == <<fds, src, fd_event_sources, dirty>>
signalVars == <<raised, pipe, handler, due>>
vars == <<sourceVars, pollfds, revents, pc, todo, cur, signalVars, ready>>

Live == {s \in fds : ~src[s].killed}

\* A structure that is not allocated.
Unallocated == [fd |-> NULL, mask |-> {"READABLE"}, killed |-> FALSE, idx |-> -1]

PipeEntry == [fd |-> NULL, events |-> {"POLLIN"}, owner |-> NULL]

\* poller_init.  The sources seatd starts with are added before the first
\* poll, as in a callback.
Init ==
  /\ fds = {} /\ src = [s \in Source |-> Unallocated]
  /\ fd_event_sources = 1
  /\ dirty = TRUE
  /\ pollfds = [i \in {0} |-> PipeEntry] /\ revents = [i \in {0} |-> {}]
  /\ pc = "init" /\ todo = {} /\ cur = NULL
  /\ raised = {} /\ pipe = 0 /\ handler = {} /\ due = {}
  /\ ready = [d \in Fd |-> {}]
-----------------------------------------------------------------------------
(***************************************************************************)
(* What callbacks do.                                                      *)
(***************************************************************************)

InCallback == pc \in {"init", "signal", "fd"}

InCallbackOnly == InCallback /\ UNCHANGED <<pollfds, revents, pc, todo, cur, signalVars>>

\* (mutant) pollfd_idx is zero, as calloc leaves it.
NewSourceZeroed(d, mask) == [fd |-> d, mask |-> mask, killed |-> FALSE, idx |-> 0]

NewSource(d, mask) == [fd |-> d, mask |-> mask, killed |-> FALSE, idx |-> -1]

poller_add_fd(s, d, mask) ==
  /\ InCallbackOnly
  /\ s \notin fds
  /\ \A t \in Live : src[t].fd # d
  /\ src' = [src EXCEPT ![s] = NewSource(d, mask)]
  /\ fds' = fds \cup {s}
  /\ fd_event_sources' = fd_event_sources + 1
  /\ dirty' = TRUE
  /\ UNCHANGED ready

\* The descriptor is closed in the same callback.
event_source_fd_destroy(s) ==
  /\ InCallbackOnly
  /\ s \in Live
  /\ src' = [src EXCEPT ![s].killed = TRUE]
  /\ fd_event_sources' = fd_event_sources - 1
  /\ dirty' = TRUE
  /\ ready' = [ready EXCEPT ![src[s].fd] = {}]
  /\ UNCHANGED fds

\* (mutant) The table is not rebuilt.
event_source_fd_update_clean(s, mask) ==
  /\ InCallbackOnly
  /\ s \in Live
  /\ src' = [src EXCEPT ![s].mask = mask]
  /\ UNCHANGED <<fds, fd_event_sources, dirty, ready>>

event_source_fd_update(s, mask) ==
  /\ InCallbackOnly
  /\ s \in Live
  /\ src' = [src EXCEPT ![s].mask = mask]
  /\ dirty' = TRUE
  /\ UNCHANGED <<fds, fd_event_sources, ready>>
-----------------------------------------------------------------------------
(***************************************************************************)
(* poller_poll.                                                            *)
(***************************************************************************)

event_mask_to_poll_mask(mask) ==
  {p \in {"POLLIN", "POLLOUT"} : \/ p = "POLLIN" /\ "READABLE" \in mask
                                 \/ p = "POLLOUT" /\ "WRITABLE" \in mask}

PollFd(s) ==
  [fd |-> src[s].fd, events |-> event_mask_to_poll_mask(src[s].mask), owner |-> s]

Numberings(S) ==
  {num \in [S -> 1 .. Cardinality(S)] :
     /\ \A s, t \in S : num[s] = num[t] => s = t
     /\ \A i \in 1 .. Cardinality(S) : \E s \in S : num[s] = i}

\* Killed sources are freed, the others numbered, the table written.
regenerate ==
  /\ \E num \in Numberings(Live) :
       /\ src' = [s \in Source |->
                    IF s \in Live THEN [src[s] EXCEPT !.idx = num[s]] ELSE Unallocated]
       /\ pollfds' = [i \in 0 .. Cardinality(Live) |->
                        IF i = 0 THEN PipeEntry ELSE PollFd(CHOOSE s \in Live : num[s] = i)]
  /\ fds' = Live
  /\ dirty' = FALSE
  /\ UNCHANGED fd_event_sources

\* The loop of main calls poller_poll.
Prepare ==
  /\ pc = "top"
  /\ IF dirty THEN regenerate ELSE UNCHANGED <<sourceVars, pollfds>>
  /\ pc' = "poll"
  /\ UNCHANGED <<revents, todo, cur, signalVars, ready>>

\* (external) poll(2) with nfds = fd_event_sources: what is asked for, and
\* hangups.
Revents(i) ==
  IF i = 0 THEN {p \in {"POLLIN"} : pipe > 0}
  ELSE ready[pollfds[i].fd] \cap (pollfds[i].events \cup {"POLLHUP"})

\* (mutant) Signals are looked at only when no descriptor is ready.
PollReturnsFdsFirst ==
  /\ pc = "poll"
  /\ \E i \in 0 .. fd_event_sources - 1 : Revents(i) # {}
  /\ revents' = [i \in DOMAIN pollfds |-> Revents(i)]
  /\ LET signals == \A i \in 1 .. fd_event_sources - 1 : Revents(i) = {}
     IN pc' = (IF signals THEN "drain" ELSE "fds") /\ todo' = (IF signals THEN {} ELSE fds)
  /\ UNCHANGED <<sourceVars, pollfds, cur, signalVars, ready>>

\* poll returns once something is ready; dispatch begins.
PollReturns ==
  /\ pc = "poll"
  /\ \E i \in 0 .. fd_event_sources - 1 : Revents(i) # {}
  /\ revents' = [i \in DOMAIN pollfds |-> Revents(i)]
  /\ pc' = IF pipe > 0 THEN "drain" ELSE "fds"
  /\ todo' = IF pipe > 0 THEN {} ELSE fds
  /\ UNCHANGED <<sourceVars, pollfds, cur, signalVars, ready>>
-----------------------------------------------------------------------------
(***************************************************************************)
(* dispatch.                                                               *)
(***************************************************************************)

\* The signal pipe is read until it is empty, then the signals are scanned.
Drain ==
  /\ pc = "drain"
  /\ pipe' = 0
  /\ pc' = "signals" /\ todo' = Signal
  /\ UNCHANGED <<sourceVars, pollfds, revents, cur, raised, handler, due, ready>>

SignalCallback(sig) ==
  /\ pc = "signals"
  /\ sig \in todo \cap raised
  /\ pc' = "signal" /\ cur' = sig
  /\ due' = due \ {sig}
  /\ UNCHANGED <<sourceVars, pollfds, revents, todo, raised, pipe, handler, ready>>

SkipSignal(sig) ==
  /\ pc = "signals"
  /\ sig \in todo \ raised
  /\ todo' = todo \ {sig}
  /\ UNCHANGED <<sourceVars, pollfds, revents, pc, cur, signalVars, ready>>

\* The callback returns and the flag is cleared, whether or not the signal
\* came again in the meantime.
SignalReturns ==
  /\ pc = "signal"
  /\ raised' = raised \ {cur}
  /\ todo' = todo \ {cur}
  /\ pc' = "signals" /\ cur' = NULL
  /\ UNCHANGED <<sourceVars, pollfds, revents, pipe, handler, due, ready>>

SignalsDone ==
  /\ pc = "signals" /\ todo = {}
  /\ pc' = "fds" /\ todo' = fds
  /\ UNCHANGED <<sourceVars, pollfds, revents, cur, signalVars, ready>>

Dispatchable(s) ==
  src[s].idx # -1 /\ ~src[s].killed /\ revents[src[s].idx] # {}

\* (mutant) The pass ends with the first callback.
FdCallbackLast(s) ==
  /\ pc = "fds"
  /\ s \in todo /\ Dispatchable(s)
  /\ pc' = "fd" /\ cur' = s
  /\ todo' = {}
  /\ UNCHANGED <<sourceVars, pollfds, revents, signalVars, ready>>

FdCallback(s) ==
  /\ pc = "fds"
  /\ s \in todo /\ Dispatchable(s)
  /\ pc' = "fd" /\ cur' = s
  /\ todo' = todo \ {s}
  /\ UNCHANGED <<sourceVars, pollfds, revents, signalVars, ready>>

SkipFd(s) ==
  /\ pc = "fds"
  /\ s \in todo /\ ~Dispatchable(s)
  /\ todo' = todo \ {s}
  /\ UNCHANGED <<sourceVars, pollfds, revents, pc, cur, signalVars, ready>>

\* A callback of a source returns, or the startup ends.
FdReturns ==
  /\ pc \in {"fd", "init"}
  /\ pc' = IF pc = "fd" THEN "fds" ELSE "top"
  /\ cur' = NULL
  /\ UNCHANGED <<sourceVars, pollfds, revents, todo, signalVars, ready>>

FdsDone ==
  /\ pc = "fds" /\ todo = {}
  /\ pc' = "top"
  /\ revents' = [i \in {0} |-> {}]
  /\ UNCHANGED <<sourceVars, pollfds, todo, cur, signalVars, ready>>
-----------------------------------------------------------------------------
(***************************************************************************)
(* signal_handler, and the kernel.                                         *)
(***************************************************************************)

Raise(sig) ==
  /\ sig \notin handler
  /\ raised' = raised \cup {sig}
  /\ handler' = handler \cup {sig}
  /\ due' = IF pc = "signal" /\ cur = sig THEN due ELSE due \cup {sig}
  /\ UNCHANGED <<sourceVars, pollfds, revents, pc, todo, cur, pipe, ready>>

\* The pipe is non-blocking: a byte that does not fit is not missed, since
\* the pipe is readable then.
HandlerWrites(sig) ==
  /\ sig \in handler
  /\ handler' = handler \ {sig}
  /\ pipe' = IF pipe < PipeSize THEN pipe + 1 ELSE pipe
  /\ UNCHANGED <<sourceVars, pollfds, revents, pc, todo, cur, raised, due, ready>>

\* (kernel) Data comes or is consumed, room appears or is filled, the peer
\* goes away.
Becomes(s, flags) ==
  /\ s \in Live
  /\ ready[src[s].fd] \cap {"POLLHUP"} \subseteq flags
  /\ ready' = [ready EXCEPT ![src[s].fd] = flags]
  /\ UNCHANGED <<sourceVars, pollfds, revents, pc, todo, cur, signalVars>>
-----------------------------------------------------------------------------
CallbackStep ==
  \/ \E s \in Source, d \in Fd, mask \in EventMask : poller_add_fd(s, d, mask)
  \/ \E s \in Source : event_source_fd_destroy(s)
  \/ \E s \in Source, mask \in EventMask : event_source_fd_update(s, mask)

\* The steps of the main thread that do not wait for anybody.
LoopStep ==
  \/ Prepare \/ PollReturns \/ Drain
  \/ \E sig \in Signal : SignalCallback(sig) \/ SkipSignal(sig)
  \/ SignalReturns \/ SignalsDone
  \/ \E s \in Source : FdCallback(s) \/ SkipFd(s)
  \/ FdReturns \/ FdsDone

Next ==
  \/ CallbackStep \/ LoopStep
  \/ \E sig \in Signal : Raise(sig) \/ HandlerWrites(sig)
  \/ \E s \in Source, flags \in SUBSET PollFlag : Becomes(s, flags)

Spec == Init /\ [][Next]_vars

\* The main thread runs, callbacks return, and so do signal handlers.
Fairness == WF_vars(LoopStep) /\ \A sig \in Signal : WF_vars(HandlerWrites(sig))

FairSpec == Spec /\ Fairness
-----------------------------------------------------------------------------
\* While the loop waits, poll's table has exactly one entry for every source
\* that was not destroyed, with its present descriptor and mask, and poll is
\* given all of them: the asserts of regenerate hold and an update is
\* "effective on the next poll" (poller.h), whatever callbacks did since.
PollsExactlyLive ==
  pc = "poll" =>
    /\ DOMAIN pollfds = 0 .. fd_event_sources - 1
    /\ \A s \in Live : src[s].idx \in DOMAIN pollfds /\ pollfds[src[s].idx] = PollFd(s)
    /\ \A i \in DOMAIN pollfds \ {0} : pollfds[i].owner \in Live

\* A callback runs only for a source that has not been destroyed, and with
\* what poll reported for that very source: not for one that was added, on a
\* descriptor or in a structure that has been used before, during the pass.
CallbackGetsOwnEvents ==
  pc = "fds" => \A s \in todo : Dispatchable(s) =>
    /\ s \in Live
    /\ pollfds[src[s].idx].owner = s
    /\ pollfds[src[s].idx].fd = src[s].fd

\* A signal that comes while its callback is not running gets its callback.
\* (One that comes while it is running may be lost: the flag is cleared
\* afterwards.)
SignalServed == \A sig \in Signal : sig \in due ~> sig \notin due

\* Source s has an event it asked for, or a hangup.
Wanted(s) ==
  s \in Live /\ ready[src[s].fd] \cap (event_mask_to_poll_mask(src[s].mask) \cup {"POLLHUP"}) # {}

\* A source with an event it asked for, or a hangup, gets its callback, as
\* long as it stays that way: dispatch lets no ready descriptor starve.
SourceServed == \A s \in Source : []<>(~Wanted(s) \/ (pc = "fd" /\ cur = s))
=============================================================================
