------------------------------- MODULE Sockets -------------------------------
(***************************************************************************)
(* class Socket over the descriptor table of one process whose threads     *)
(* share it.                                                               *)
(*                                                                         *)
(* A Socket object holds a descriptor number, fd_, and uses whatever       *)
(* connection the table has under that number.  A connection is named here *)
(* by the object it was opened for: the two part when the number is closed *)
(* and handed out again while the first object still holds it.             *)
(*                                                                         *)
(* A connection carries words in both directions, in order.  A receive may *)
(* return any part of what it waits for; where the part ends inside a word *)
(* makes no difference to the loop of Recv and is left out.  Messages are  *)
(* short and go into an empty send buffer, so a send takes all of one.     *)
(***************************************************************************)
EXTENDS Messages, SequencesExt

CONSTANTS
  Socket,     \* the Socket objects, and the connections opened for them
  NoSocket,   \* a free place in the table
  Thread,     \* the threads that receive
  NumFds      \* descriptors the process may have besides its permanent ones

ASSUME SocketAssumption == NoSocket \notin Socket /\ NumFds \in Nat

Fd   == 1 .. NumFds
NoFd == 0     \* fd_ when there is none

VARIABLES
  table,            \* the connection open under each descriptor number
  fd_,
  is_initialized_,
  arriving,         \* sent by the far end, not yet received here
  leaving,          \* sent here, not yet received by the far end
  over,             \* the far end is closed: nothing more will arrive
  shut,             \* shut down at this end
  call              \* the Recv each thread is in

sockvars == <<table, fd_, is_initialized_, arriving, leaving, over, shut, call>>

Call == [pc : {"none", "receive", "blocked", "failed", "returned"},
         on : Socket \cup {NoSocket},   \* the object
         at : Socket \cup {NoSocket},   \* the connection the thread is blocked on
         size : Nat, buffer : Seq(Word)]
NoCall == [pc |-> "none", on |-> NoSocket, at |-> NoSocket, size |-> 0,
           buffer |-> <<>>]

SocketInit ==
  /\ table = [f \in Fd |-> NoSocket]
  /\ fd_ = [s \in Socket |-> NoFd]
  /\ is_initialized_ = [s \in Socket |-> FALSE]
  /\ arriving = [s \in Socket |-> <<>>] /\ leaving = [s \in Socket |-> <<>>]
  /\ over = [s \in Socket |-> FALSE] /\ shut = [s \in Socket |-> FALSE]
  /\ call = [t \in Thread |-> NoCall]

SocketTypeOK ==
  /\ table \in [Fd -> Socket \cup {NoSocket}]
  /\ fd_ \in [Socket -> Fd \cup {NoFd}]
  /\ is_initialized_ \in [Socket -> BOOLEAN]
  /\ arriving \in [Socket -> Seq(Word)] /\ leaving \in [Socket -> Seq(Word)]
  /\ over \in [Socket -> BOOLEAN] /\ shut \in [Socket -> BOOLEAN]
  /\ call \in [Thread -> Call]

-----------------------------------------------------------------------------
(* What the kernel does: the connection a number stands for now, and the   *)
(* lowest free number for the next one.                                    *)
Behind(s) == IF fd_[s] = NoFd THEN NoSocket ELSE table[fd_[s]]
FreeFds   == {f \in Fd : table[f] = NoSocket}

\* A socket whose connect failed stays in the table without a connection.
Unconnected(s) == ~is_initialized_[s] /\ ~shut[s]
Reaches(s)     == Behind(s) # NoSocket /\ ~Unconnected(Behind(s))

Install(s, initialized) ==
  LET f == Min(FreeFds)
  IN /\ table' = [table EXCEPT ![f] = s]
     /\ fd_' = [fd_ EXCEPT ![s] = f]
     /\ is_initialized_' = [is_initialized_ EXCEPT ![s] = initialized]

\* A send on a socket without a connection may raise SIGPIPE.
BrokenPipe(s) == Behind(s) # NoSocket /\ Unconnected(Behind(s))

(* Socket::Close on each of a set of objects: the number is closed,        *)
(* whatever it stands for, and stays in fd_.                               *)
CloseLeavesOpen(S) ==           \* bug: shutdown without close
  /\ shut' = [x \in Socket |-> shut[x] \/ \E s \in S : Behind(s) = x]
  /\ is_initialized_' = [s \in Socket |-> is_initialized_[s] /\ s \notin S]
  /\ UNCHANGED table
Close(S) ==
  /\ shut' = [x \in Socket |-> shut[x] \/ \E s \in S : Behind(s) = x]
  /\ table' = [f \in Fd |-> IF \E s \in S : fd_[s] = f THEN NoSocket ELSE table[f]]
  /\ is_initialized_' = [s \in Socket |-> is_initialized_[s] /\ s \notin S]

\* ~Socket of each.
DestroyAlways(S) == Close(S)    \* bug: whether it is initialized or not
Destroy(S) == Close({s \in S : is_initialized_[s]})

(* Socket::Send: to a far end that has gone the words are lost; without a  *)
(* connection behind the number it fails and closes.                       *)
Send(s, words) ==
  IF ~Reaches(s)
  THEN Close({s}) /\ UNCHANGED leaving
  ELSE /\ leaving' = IF over[Behind(s)] THEN leaving
                     ELSE [leaving EXCEPT ![Behind(s)] = @ \o words]
       /\ UNCHANGED <<table, is_initialized_, shut>>

-----------------------------------------------------------------------------
(* Socket::Recv, from a thread's point of view: it asks for size words,    *)
(* goes on until it has them, and on any failure closes and has nothing.   *)
Receive(t, s, size) ==
  [call EXCEPT ![t] = [pc |-> "receive", on |-> s, at |-> NoSocket, size |-> size,
                       buffer |-> <<>>]]
Returned(t) == [call EXCEPT ![t] = NoCall]

\* recv(fd_, ...): the number is looked up now, and not again while it waits.
RecvCall(t) ==
  /\ call[t].pc = "receive"
  /\ LET at == Behind(call[t].on)
     IN call' = [call EXCEPT
          ![t] = IF Reaches(@.on) THEN [@ EXCEPT !.pc = "blocked", !.at = at]
                 ELSE [@ EXCEPT !.pc = "failed"]]
  /\ UNCHANGED <<table, fd_, is_initialized_, arriving, leaving, over, shut>>

RecvShort(t) ==                 \* bug: one recv is taken for the whole message
  /\ call[t].pc = "blocked"
  /\ LET at == call[t].at
     IN \E n \in 1 .. Min({Len(arriving[at]), call[t].size}) :
          /\ arriving' = [arriving EXCEPT ![at] = SubSeq(@, n + 1, Len(@))]
          /\ call' = [call EXCEPT ![t].pc = "returned", ![t].at = NoSocket,
               ![t].buffer = SubSeq(arriving[at], 1, n)
                               \o [i \in 1 .. call[t].size - n |-> Htonl(0)]]
  /\ UNCHANGED <<table, fd_, is_initialized_, leaving, over, shut>>
\* Some of the words are there.
RecvSome(t) ==
  /\ call[t].pc = "blocked"
  /\ LET at     == call[t].at
         wanted == call[t].size - Len(call[t].buffer)
     IN \E n \in 1 .. Min({Len(arriving[at]), wanted}) :
          /\ arriving' = [arriving EXCEPT ![at] = SubSeq(@, n + 1, Len(@))]
          /\ call' = [call EXCEPT ![t] =
               [pc |-> IF n = wanted THEN "returned" ELSE "receive",
                on |-> @.on, at |-> NoSocket, size |-> @.size,
                buffer |-> @.buffer \o SubSeq(arriving[at], 1, n)]]
  /\ UNCHANGED <<table, fd_, is_initialized_, leaving, over, shut>>

RecvEndSpins(t) ==              \* bug: only a negative result is a failure
  /\ call[t].pc = "blocked"
  /\ arriving[call[t].at] = <<>> /\ shut[call[t].at]
  /\ call' = [call EXCEPT ![t].pc = "failed", ![t].at = NoSocket]
  /\ UNCHANGED <<table, fd_, is_initialized_, arriving, leaving, over, shut>>
\* There is nothing left to come.
RecvEnd(t) ==
  /\ call[t].pc = "blocked"
  /\ arriving[call[t].at] = <<>>
  /\ over[call[t].at] \/ shut[call[t].at]
  /\ call' = [call EXCEPT ![t].pc = "failed", ![t].at = NoSocket]
  /\ UNCHANGED <<table, fd_, is_initialized_, arriving, leaving, over, shut>>

RecvKeepsPart(t) ==             \* bug: a failed Recv leaves what it had
  /\ call[t].pc = "failed"
  /\ Close({call[t].on})
  /\ call' = [call EXCEPT ![t].pc = "returned", ![t].buffer =
       IF @ = <<>> THEN @
       ELSE @ \o [i \in 1 .. call[t].size - Len(@) |-> Htonl(0)]]
  /\ UNCHANGED <<fd_, arriving, leaving, over>>
RecvFail(t) ==
  /\ call[t].pc = "failed"
  /\ Close({call[t].on})
  /\ call' = [call EXCEPT ![t].pc = "returned", ![t].buffer = <<>>]
  /\ UNCHANGED <<fd_, arriving, leaving, over>>

Recv(t) == RecvCall(t) \/ RecvSome(t) \/ RecvEnd(t) \/ RecvFail(t)
=============================================================================
