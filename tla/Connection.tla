----------------------------- MODULE Connection -----------------------------
(***************************************************************************)
(* common/connection.c between two ends: a sender that puts messages, with *)
(* file descriptors, into its out buffer and flushes it, the socket        *)
(* (external), and a receiver that reads into its in buffer and takes      *)
(* whole messages out of it, as client.c, control.c and libseat's seatd    *)
(* backend do.  The indices of the buffers are counters that wrap around.  *)
(***************************************************************************)
EXTENDS Integers, Sequences, SequencesExt

CONSTANTS
  CONNECTION_BUFFER_SIZE,   \* bytes in a buffer, a power of two
  IndexRange,               \* head and tail are counted modulo this
  MAX_FDS,                  \* file descriptors in a buffer
  SocketSize,               \* bytes the socket holds
  Kind,                     \* the kinds of messages
  PayloadSize,              \* header.size of a message of a kind
  FdKind,                   \* the kinds that come with a descriptor
  Ids                       \* messages are numbered modulo this

ASSUME SizeAssumption ==
  /\ CONNECTION_BUFFER_SIZE \in Nat \ {0} /\ IndexRange \in Nat
  /\ IndexRange > CONNECTION_BUFFER_SIZE /\ IndexRange % CONNECTION_BUFFER_SIZE = 0

VARIABLES
  out, fds_out, want_flush,   \* the sender's connection
  todo,                       \* what the sender has still to put of its message
  writable,                   \* the sender waits for EVENT_WRITABLE
  id,                         \* the number of the next message
  sock,                       \* bytes in the socket, with the descriptors they carry
  in, fds_in,                 \* the receiver's connection
  parsing,                    \* the receiver's loop over its buffer runs
  taken,                      \* the message the receiver took last
  errno                       \* why an end has given up, or "none"

senderVars == <<out, fds_out, want_flush, todo, writable, id>>
receiverVars == <<in, fds_in, parsing, taken>>
vars == <<senderVars, sock, receiverVars, errno>>

Size == CONNECTION_BUFFER_SIZE
Lesser(a, b) == IF a < b THEN a ELSE b

Header(k, n) == <<[kind |-> k, id |-> n, pos |-> 0]>>
\* Mutant: header.size does not count the last byte.
PayloadLonger(k, n) == [i \in 1..PayloadSize[k]+1 |-> [kind |-> k, id |-> n, pos |-> i]]

Payload(k, n) == [i \in 1..PayloadSize[k] |-> [kind |-> k, id |-> n, pos |-> i]]
-----------------------------------------------------------------------------
(***************************************************************************)
(* Buffers.                                                                *)
(***************************************************************************)
NoByte == [kind |-> "none", id |-> 0, pos |-> 0]

connection_buffer_mask(i) == i % Size
connection_buffer_size(b) == (b.head - b.tail) % IndexRange
connection_buffer_consume(b, n) == [b EXCEPT !.tail = (@ + n) % IndexRange]
connection_buffer_restore(b, n) == [b EXCEPT !.tail = (@ - n) % IndexRange]

\* The positions two I/O vectors cover, in order.
Vector(base, len) == [i \in 1..len |-> base + i - 1]

\* Mutant: the two vectors in the wrong order.
connection_buffer_get_iov_swapped(b) ==
  LET head == connection_buffer_mask(b.head)
      tail == connection_buffer_mask(b.tail)
  IN IF tail < head THEN Vector(tail, head - tail)
     ELSE Vector(0, head) \o Vector(tail, Size - tail)

connection_buffer_get_iov(b) ==
  LET head == connection_buffer_mask(b.head)
      tail == connection_buffer_mask(b.tail)
  IN CASE tail < head -> Vector(tail, head - tail)
       [] tail >= head /\ head = 0 -> Vector(tail, Size - tail)
       [] OTHER -> Vector(tail, Size - tail) \o Vector(0, head)

connection_buffer_put_iov(b) ==
  LET head == connection_buffer_mask(b.head)
      tail == connection_buffer_mask(b.tail)
  IN CASE head < tail -> Vector(head, tail - head)
       [] head >= tail /\ tail = 0 -> Vector(head, Size - head)
       [] OTHER -> Vector(head, Size - head) \o Vector(0, tail)

\* connection_buffer_copy: the first n bytes.
connection_buffer_copy(b, n) ==
  LET tail == connection_buffer_mask(b.tail)
      first == Lesser(n, Size - tail)
  IN [i \in 1..first |-> b.data[tail + i - 1]] \o [i \in 1..(n - first) |-> b.data[i - 1]]

\* What was consumed for good is never read again: the model forgets it.
Live(b) == {connection_buffer_mask(b.tail + i) : i \in 0..connection_buffer_size(b)-1}
Consumed(b, n) ==
  LET c == connection_buffer_consume(b, n)
  IN [c EXCEPT !.data = [i \in DOMAIN @ |-> IF i \in Live(c) THEN @[i] ELSE NoByte]]

\* Bytes d at the positions p of the buffer, and the head moved past them.
Stored(b, p, d) ==
  [b EXCEPT !.data = [i \in DOMAIN @ |-> IF \E j \in 1..Len(d) : p[j] = i
                                          THEN d[CHOOSE j \in 1..Len(d) : p[j] = i] ELSE @[i]],
            !.head = (@ + Len(d)) % IndexRange]

connection_buffer_put(b, d) ==
  LET head == connection_buffer_mask(b.head)
  IN Stored(b, [j \in 1..Len(d) |-> (head + j - 1) % Size], d)
-----------------------------------------------------------------------------
(***************************************************************************)
(* The sender.                                                             *)
(***************************************************************************)
Empty == [head |-> 0, tail |-> 0, data |-> [i \in 0..Size-1 |-> NoByte]]

Init ==
  /\ out = Empty /\ fds_out = <<>> /\ want_flush = FALSE
  /\ todo = <<>> /\ writable = FALSE /\ id = 0
  /\ sock = <<>>
  /\ in = Empty /\ fds_in = <<>> /\ parsing = FALSE /\ taken = <<>>
  /\ errno = "none"

\* sendmsg, external: the first n bytes go into the socket, the first of
\* them with the descriptors of build_cmsg.
Sent(n) ==
  LET iov == connection_buffer_get_iov(out)
  IN sock \o [i \in 1..n |-> [byte |-> out.data[iov[i]], fds |-> IF i = 1 THEN fds_out ELSE <<>>]]

\* connection_flush sends what the socket takes; EAGAIN when that is not all.
\* Descriptors are closed when the first part is sent.
Flushes(n) ==
  /\ n = Lesser(connection_buffer_size(out), SocketSize - Len(sock))
  /\ sock' = Sent(n)
  /\ fds_out' = IF n = 0 THEN fds_out ELSE <<>>
FlushesAll(n) == n = connection_buffer_size(out)

\* Mutant: a descriptor is queued for every message.
StartMessageWithFd(k) ==
  /\ errno = "none" /\ todo = <<>> /\ Len(fds_out) < MAX_FDS
  /\ todo' = <<Header(k, id), Payload(k, id)>>
  /\ fds_out' = Append(fds_out, id)
  /\ id' = (id + 1) % Ids
  /\ UNCHANGED <<out, want_flush, writable, sock, receiverVars, errno>>

\* A message: the descriptor is queued first, then header and payload are put.
StartMessage(k) ==
  /\ errno = "none" /\ todo = <<>>
  /\ k \in FdKind => Len(fds_out) < MAX_FDS
  /\ todo' = <<Header(k, id), Payload(k, id)>>
  /\ fds_out' = IF k \in FdKind THEN Append(fds_out, id) ELSE fds_out
  /\ id' = (id + 1) % Ids
  /\ UNCHANGED <<out, want_flush, writable, sock, receiverVars, errno>>

\* connection_put: flush first if the data does not fit; a flush that fails
\* makes the caller give the connection up.
connection_put(n) ==
  /\ errno = "none" /\ todo # <<>>
  /\ IF connection_buffer_size(out) + Len(Head(todo)) > Size
     THEN /\ Flushes(n)
          /\ out' = IF FlushesAll(n) THEN connection_buffer_put(Consumed(out, n), Head(todo))
                    ELSE Consumed(out, n)
          /\ errno' = IF FlushesAll(n) THEN "none" ELSE "EAGAIN"
     ELSE /\ n = 0
          /\ out' = connection_buffer_put(out, Head(todo))
          /\ UNCHANGED <<sock, fds_out, errno>>
  /\ todo' = Tail(todo) /\ want_flush' = TRUE
  /\ UNCHANGED <<writable, id, receiverVars>>

\* Mutant: want_flush is cleared although the socket was full.
FlushOnce(n) ==
  /\ errno = "none" /\ todo = <<>> /\ want_flush
  /\ Flushes(n)
  /\ out' = Consumed(out, n)
  /\ want_flush' = FALSE /\ writable' = FALSE
  /\ UNCHANGED <<todo, id, receiverVars, errno>>

\* client_flush, control_client_flush, and the EVENT_WRITABLE branch of the
\* connection handlers.
Flush(n) ==
  /\ errno = "none" /\ todo = <<>> /\ want_flush
  /\ Flushes(n)
  /\ out' = Consumed(out, n)
  /\ want_flush' = ~FlushesAll(n) /\ writable' = ~FlushesAll(n)
  /\ UNCHANGED <<todo, id, receiverVars, errno>>
-----------------------------------------------------------------------------
(***************************************************************************)
(* The receiver.                                                           *)
(***************************************************************************)
FdsOf(q) == {i \in 1..Len(q) : q[i].fds # <<>>}

\* recvmsg, external: all there is room for, but one batch of descriptors.
connection_read(n) ==
  /\ errno = "none" /\ ~parsing /\ sock # <<>>
  /\ IF connection_buffer_size(in) >= Size
     THEN n = 0 /\ errno' = "EOVERFLOW" /\ UNCHANGED <<sock, in, fds_in, parsing>>
     ELSE LET got == SubSeq(sock, 1, n)
              iov == connection_buffer_put_iov(in)
              fds == IF FdsOf(got) = {} THEN <<>> ELSE got[CHOOSE i \in FdsOf(got) : TRUE].fds
          IN /\ n \in 1..Lesser(Len(sock), Len(iov))
             /\ \A i, j \in FdsOf(got) : i = j
             /\ n < Lesser(Len(sock), Len(iov)) => sock[n + 1].fds # <<>> /\ FdsOf(got) # {}
             /\ sock' = SubSeq(sock, n + 1, Len(sock))
             /\ IF Len(fds) > MAX_FDS - Len(fds_in)
                THEN errno' = "EOVERFLOW" /\ UNCHANGED <<in, fds_in, parsing>>
                ELSE /\ fds_in' = fds_in \o fds
                     /\ in' = Stored(in, iov, [i \in 1..n |-> got[i].byte])
                     /\ parsing' = TRUE
                     /\ UNCHANGED errno
  /\ UNCHANGED <<senderVars, taken>>

\* The loop of the connection handlers: get a header; without its payload,
\* restore it and stop; otherwise get the payload and the descriptor.
TakeMessage ==
  /\ errno = "none" /\ parsing
  /\ IF connection_buffer_size(in) = 0
     THEN parsing' = FALSE /\ UNCHANGED <<in, fds_in, taken, errno>>
     ELSE LET h == connection_buffer_copy(in, 1)[1]
              rest == connection_buffer_consume(in, 1)
              k == IF h.kind \in FdKind THEN 1 ELSE 0
          IN IF connection_buffer_size(rest) < PayloadSize[h.kind]
             THEN /\ in' = connection_buffer_restore(rest, 1)
                  /\ parsing' = FALSE
                  /\ UNCHANGED <<fds_in, taken, errno>>
             ELSE /\ in' = Consumed(rest, PayloadSize[h.kind])
                  /\ IF Len(fds_in) < k
                     THEN errno' = "EBADMSG" /\ UNCHANGED <<fds_in, taken>>
                     ELSE /\ fds_in' = SubSeq(fds_in, k + 1, Len(fds_in))
                          /\ taken' = <<<<h>> \o connection_buffer_copy(rest, PayloadSize[h.kind]),
                                        SubSeq(fds_in, 1, k)>>
                          /\ UNCHANGED errno
                  /\ UNCHANGED parsing
  /\ UNCHANGED <<senderVars, sock>>

Next ==
  \/ \E k \in Kind : StartMessage(k)
  \/ \E n \in 0..Size : connection_put(n) \/ Flush(n)
  \/ \E n \in 0..Size : connection_read(n)
  \/ TakeMessage
  \/ errno # "none" /\ UNCHANGED vars

Spec == Init /\ [][Next]_vars
-----------------------------------------------------------------------------
(***************************************************************************)
(* Fairness: the sender is woken when the socket has room, the receiver    *)
(* when there is something to read.                                        *)
(***************************************************************************)
Fairness ==
  /\ WF_vars(\E n \in 0..Size : connection_put(n))
  /\ WF_vars(\E n \in 1..Size : Flush(n) /\ (want_flush' => writable'))
  /\ WF_vars(\E n \in 0..Size : connection_read(n))
  /\ WF_vars(TakeMessage)

FairSpec == Spec /\ Fairness
-----------------------------------------------------------------------------
(***************************************************************************)
(* Properties.                                                             *)
(***************************************************************************)
Contents(b) == connection_buffer_copy(b, connection_buffer_size(b))

\* The bytes and descriptors between the two ends.
Stream == Contents(in) \o [i \in 1..Len(sock) |-> sock[i].byte] \o Contents(out)
FdStream == fds_in \o FlattenSeq([i \in 1..Len(sock) |-> sock[i].fds]) \o fds_out

Abstract == INSTANCE ByteStream WITH bytes <- Stream, fds <- FdStream,
                                     taken <- taken, open <- (errno = "none")

\* Rings that wrap around, partial sends and reads, descriptors that are sent
\* with the first part of a flush and headers that are put back still make a
\* queue: every byte and descriptor comes out once and in order.
ImplementsByteStream == Abstract!StreamSpec

\* A receiver never gives up: a message that fits the buffer is never refused
\* for lack of room, its descriptor has arrived when the message is complete,
\* and descriptors that arrive early do not overflow their buffer.
ReceiverAccepts == errno \notin {"EOVERFLOW", "EBADMSG"}

\* The descriptor that is taken with a message is the one that was put for it.
FdBelongsToMessage ==
  taken # <<>> /\ taken[1][1].kind \in FdKind => taken[2] = <<taken[1][1].id>>

\* What was put is taken in the end, although flushes stop at a full socket,
\* unless the sender keeps putting messages or gives up.
Delivered ==
  <>[][\A k \in Kind : ~StartMessage(k)]_vars => []<>(errno # "none" \/ Stream = <<>>)
=============================================================================
