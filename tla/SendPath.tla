------------------------------ MODULE SendPath ------------------------------
(***************************************************************************)
(* From BaseConn::Send to the peer: chunks of at most kMaxSendSize, what   *)
(* the kernel does not take goes to m_out_buf, and OnWrite empties that    *)
(* when epoll reports the socket writable, edge-triggered.                 *)
(*                                                                         *)
(* A byte is its position in the stream the application sends.  One step   *)
(* of the IO thread is one send(); the kernel drains between them.         *)
(***************************************************************************)
EXTENDS SimpleBuffer

CONSTANTS
  MaxSendSize,  \* kMaxSendSize
  SndBuf,       \* bytes the kernel's send buffer holds
  Lens,         \* bytes the application gives to one Send
  MaxBytes      \* bound: bytes it sends in all

ASSUME SendAssumption ==
  /\ MaxSendSize \in Nat \ {0} /\ SndBuf \in Nat \ {0}
  /\ Lens \subseteq Nat \ {0} /\ MaxBytes \in Nat

VARIABLES
  open,     \* "confirming" (m_open false), "open", "closed" (m_handle invalid)
  busy,     \* m_busy
  out,      \* m_out_buf
  pc,       \* "idle", "send" in Send, "write" in OnWrite
  rest,     \* what Send has still to give to the kernel
  kernel,   \* the kernel's send buffer
  noSpace,  \* the kernel turned bytes away and will report room
  edge,     \* EPOLLOUT is pending in epoll
  reset,    \* the connection is broken: send fails, EPOLLERR is pending
  \* history
  sent,     \* bytes Send accepted
  peer      \* bytes the peer has received

kernelVars == <<kernel, noSpace, edge, reset, peer>>
vars == <<open, busy, out, pc, rest, kernelVars, sent>>

Init ==
  /\ open = "confirming" /\ busy = FALSE /\ out = Empty
  /\ pc = "idle" /\ rest = <<>>
  /\ kernel = <<>> /\ noSpace = FALSE /\ edge = FALSE /\ reset = FALSE
  /\ sent = 0 /\ peer = <<>>

Stream(first, last) == [i \in 1..(last - first + 1) |-> first + i - 1]

-----------------------------------------------------------------------------
(***************************************************************************)
(* The kernel.                                                             *)
(***************************************************************************)

Room == SndBuf - Len(kernel)

\* send(data): takes some of it, at least one byte, or reports EAGAIN, or fails.
Takes(data, n) ==
  /\ ~reset /\ n \in 1..Len(data) /\ n <= Room
  /\ kernel' = kernel \o SubSeq(data, 1, n)
  /\ UNCHANGED <<noSpace, edge, reset, peer>>

Refuses ==
  \/ /\ ~reset /\ Room = 0
     /\ noSpace' = TRUE
     /\ UNCHANGED <<kernel, edge, reset, peer>>
  \/ reset /\ UNCHANGED kernelVars

\* Bytes reach the peer.  When the kernel has turned bytes away it reports
\* room, at the latest when its buffer is empty.
KernelDrains ==
  /\ kernel # <<>> /\ ~reset
  /\ peer' = Append(peer, Head(kernel))
  /\ kernel' = Tail(kernel)
  /\ \/ noSpace /\ noSpace' = FALSE /\ edge' = TRUE
     \/ (noSpace => Len(kernel) > 1) /\ UNCHANGED <<noSpace, edge>>
  /\ UNCHANGED <<open, busy, out, pc, rest, reset, sent>>

\* epoll reports EPOLLOUT with any other event of a writable socket.
OtherEvent ==
  /\ open = "open" /\ pc = "idle" /\ Room > 0 /\ ~reset
  /\ edge' = TRUE
  /\ UNCHANGED <<open, busy, out, pc, rest, kernel, noSpace, reset, sent, peer>>

KernelReset ==
  /\ ~reset
  /\ reset' = TRUE
  /\ UNCHANGED <<open, busy, out, pc, rest, kernel, noSpace, edge, sent, peer>>

-----------------------------------------------------------------------------
(***************************************************************************)
(* The IO thread.                                                          *)
(***************************************************************************)

OnConfirm ==
  /\ open = "confirming" /\ pc = "idle"
  /\ open' = "open"
  /\ UNCHANGED <<busy, out, pc, rest, kernelVars, sent>>

MustQueueFaulty == busy /\ ReadableLen(out) > MaxSendSize
MustQueue == busy

\* Send on an open connection: behind what is queued, or to the kernel.
Send(n) ==
  /\ pc = "idle" /\ open = "open" /\ sent + n <= MaxBytes
  /\ sent' = sent + n
  /\ IF MustQueue
     THEN out' = Write(out, Stream(sent + 1, sent + n)) /\ UNCHANGED <<pc, rest>>
     ELSE pc' = "send" /\ rest' = Stream(sent + 1, sent + n) /\ UNCHANGED out
  /\ UNCHANGED <<open, busy, kernelVars>>

Chunk(s) == SubSeq(s, 1, IF Len(s) > MaxSendSize THEN MaxSendSize ELSE Len(s))

SendTaken ==
  /\ pc = "send"
  /\ \E n \in 1..Len(rest) :
       /\ Takes(Chunk(rest), n)
       /\ rest' = SubSeq(rest, n + 1, Len(rest))
       /\ pc' = IF n = Len(rest) THEN "idle" ELSE "send"
  /\ UNCHANGED <<open, busy, out, sent>>

MarkBusyFaulty == UNCHANGED busy
MarkBusy == busy' = TRUE

\* EAGAIN and errors alike: keep the rest for OnWrite.
SendRefused ==
  /\ pc = "send" /\ Refuses
  /\ out' = Write(out, rest)
  /\ MarkBusy
  /\ rest' = <<>> /\ pc' = "idle"
  /\ UNCHANGED <<open, sent>>

\* The event is taken from epoll; OnWrite has nothing to do unless m_busy.
OnWrite ==
  /\ pc = "idle" /\ open = "open" /\ edge
  /\ edge' = FALSE
  /\ pc' = IF busy THEN "write" ELSE "idle"
  /\ UNCHANGED <<open, busy, out, rest, kernel, noSpace, reset, sent, peer>>

WriteTaken ==
  /\ pc = "write"
  /\ \E n \in 1..ReadableLen(out) :
       Takes(Chunk(Readable(out)), n) /\ out' = Read(out, n)
  /\ UNCHANGED <<open, busy, pc, rest, sent>>

EndWrite ==
  /\ out' = ResetOffset(out)
  /\ busy' = (busy /\ ReadableLen(out') # 0)
  /\ pc' = "idle"

WriteRefused ==
  /\ pc = "write" /\ ReadableLen(out) > 0
  /\ Refuses
  /\ EndWrite
  /\ UNCHANGED <<open, rest, sent>>

EmptiedFaulty == TRUE
Emptied == ReadableLen(out) = 0

WriteAll ==
  /\ pc = "write" /\ Emptied
  /\ EndWrite
  /\ UNCHANGED <<open, rest, kernelVars, sent>>

\* Close, by the application, the timer or EPOLLERR: m_out_buf goes with the
\* connection, the kernel still sends what it has taken.
Close ==
  /\ pc = "idle" /\ open # "closed"
  /\ open' = "closed" /\ out' = Empty /\ busy' = FALSE
  /\ UNCHANGED <<pc, rest, kernelVars, sent>>

OnClose == reset /\ Close

LoopStep == SendTaken \/ SendRefused \/ OnWrite \/ WriteTaken \/ WriteRefused \/ WriteAll \/ OnClose

Next ==
  \/ KernelDrains \/ OtherEvent \/ KernelReset
  \/ OnConfirm \/ (\E n \in Lens : Send(n)) \/ LoopStep \/ Close

Spec == Init /\ [][Next]_vars

\* The loop handles its events; the peer reads unless the connection breaks.
FairSpec == Spec /\ WF_vars(LoopStep) /\ WF_vars(KernelDrains)

-----------------------------------------------------------------------------
(***************************************************************************)
(* Properties.                                                             *)
(***************************************************************************)

TypeOK ==
  /\ open \in {"confirming", "open", "closed"} /\ busy \in BOOLEAN
  /\ pc \in {"idle", "send", "write"}
  /\ Sound(out) /\ Len(kernel) <= SndBuf
  /\ noSpace \in BOOLEAN /\ edge \in BOOLEAN /\ reset \in BOOLEAN
  /\ sent \in 0..MaxBytes

\* Nothing is lost, duplicated or overtaken between Send and the peer while
\* the connection is open, through both ways a byte can take; across a close
\* the peer still gets the stream from its start.
InOrder ==
  /\ open = "open" => peer \o kernel \o rest \o Readable(out) = Stream(1, sent)
  /\ peer \o kernel = Stream(1, Len(peer \o kernel))

\* m_busy says that there is something queued.
BusyIffQueued == pc # "write" => (busy <=> ReadableLen(out) > 0)

\* Queued bytes are never forgotten: the kernel will report room, has done so,
\* or the connection is about to be closed.
NoStuckBytes ==
  open = "open" /\ pc = "idle" /\ ReadableLen(out) > 0 => noSpace \/ edge \/ reset

\* The queue: its types, its flag and its future.
QueueInv == TypeOK /\ BusyIffQueued /\ NoStuckBytes

\* Everything the application sent arrives, unless the connection is closed.
AllArrive == \A n \in 1..MaxBytes : sent >= n ~> Len(peer) >= n \/ open = "closed"
=============================================================================
