----------------------------- MODULE ByteStream -----------------------------
(***************************************************************************)
(* What a connection promises its two ends: the bytes and the file         *)
(* descriptors that are put at one end come out at the other, each once    *)
(* and in order, until one end gives the connection up.                    *)
(***************************************************************************)
EXTENDS Integers, Sequences

VARIABLES
  bytes,   \* put and not yet taken
  fds,     \* the file descriptors put and not yet taken
  taken,   \* what the last take returned
  open     \* both ends hold the connection

streamVars == <<bytes, fds, taken, open>>

StreamInit == bytes = <<>> /\ fds = <<>> /\ taken = <<>> /\ open = TRUE

PutBytes ==
  /\ open /\ \E n \in 1..Len(bytes') : bytes = SubSeq(bytes', 1, Len(bytes') - n)
  /\ UNCHANGED <<fds, taken, open>>

PutFd ==
  /\ open /\ fds' # <<>> /\ fds = SubSeq(fds', 1, Len(fds') - 1)
  /\ UNCHANGED <<bytes, taken, open>>

\* A message is taken with the file descriptors that belong to it.
Take ==
  /\ open
  /\ \E n \in 1..Len(bytes), k \in 0..1 :
       /\ k <= Len(fds)
       /\ taken' = <<SubSeq(bytes, 1, n), SubSeq(fds, 1, k)>>
       /\ bytes' = SubSeq(bytes, n + 1, Len(bytes))
       /\ fds' = SubSeq(fds, k + 1, Len(fds))
  /\ UNCHANGED open

GiveUp == open /\ open' = FALSE

StreamNext == PutBytes \/ PutFd \/ Take \/ GiveUp

StreamSpec == StreamInit /\ [][StreamNext]_streamVars
=============================================================================
