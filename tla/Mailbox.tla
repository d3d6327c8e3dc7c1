------------------------------ MODULE Mailbox ------------------------------
(***************************************************************************)
(* What netter promises to a thread that sends packets by handle: a packet *)
(* is delivered or dropped, once; it is delivered only while its           *)
(* connection is open, and the packets of one thread to one connection in  *)
(* the order the thread sent them.                                         *)
(***************************************************************************)
EXTENDS Naturals, Sequences

CONSTANTS Conns, Packets, From, To   \* From[p], To[p]: a packet's thread and connection

VARIABLES
  gate,   \* "shut" before the connection is established, "open", "gone"
  fate,   \* "unsent", "pending", "delivered", "dropped"
  sent,   \* the packets in the order they were sent by handle
  wire    \* for each connection the packets written to it

mboxVars == <<gate, fate, sent, wire>>

Init ==
  /\ gate = [c \in Conns |-> "shut"]
  /\ fate = [p \in Packets |-> "unsent"]
  /\ sent = <<>>
  /\ wire = [c \in Conns |-> <<>>]

Send(p) ==
  /\ fate[p] = "unsent"
  /\ fate' = [fate EXCEPT ![p] = "pending"]
  /\ sent' = Append(sent, p)
  /\ UNCHANGED <<gate, wire>>

\* No packet of the same thread to the same connection is waiting before p.
FirstOfItsThread(p) ==
  \A i, j \in 1..Len(sent) :
    i < j /\ sent[j] = p /\ From[sent[i]] = From[p] /\ To[sent[i]] = To[p] => fate[sent[i]] # "pending"

Deliver(p) ==
  /\ fate[p] = "pending" /\ gate[To[p]] = "open"
  /\ FirstOfItsThread(p)
  /\ fate' = [fate EXCEPT ![p] = "delivered"]
  /\ wire' = [wire EXCEPT ![To[p]] = Append(@, p)]
  /\ UNCHANGED <<gate, sent>>

\* A packet for a connection that is gone.
Drop(p) ==
  /\ fate[p] = "pending" /\ gate[To[p]] = "gone"
  /\ fate' = [fate EXCEPT ![p] = "dropped"]
  /\ UNCHANGED <<gate, sent, wire>>

\* The thread that runs the connection needs no list: it sends and settles the
\* packet at once.
SendNow(p) ==
  /\ fate[p] = "unsent"
  /\ sent' = Append(sent, p)
  /\ \/ /\ gate[To[p]] = "open"
        /\ \A q \in Packets : From[q] = From[p] /\ To[q] = To[p] => fate[q] # "pending"
        /\ fate' = [fate EXCEPT ![p] = "delivered"]
        /\ wire' = [wire EXCEPT ![To[p]] = Append(@, p)]
     \/ /\ gate[To[p]] = "gone"
        /\ fate' = [fate EXCEPT ![p] = "dropped"]
        /\ UNCHANGED wire
  /\ UNCHANGED gate

Open(c) ==
  /\ gate[c] = "shut"
  /\ gate' = [gate EXCEPT ![c] = "open"]
  /\ UNCHANGED <<fate, sent, wire>>

\* Closing drops packets that were kept for an establishment that never came.
Close(c) ==
  /\ gate[c] # "gone"
  /\ gate' = [gate EXCEPT ![c] = "gone"]
  /\ \E S \in SUBSET {p \in Packets : fate[p] = "pending" /\ To[p] = c} :
       /\ gate[c] = "open" => S = {}
       /\ fate' = [p \in Packets |-> IF p \in S THEN "dropped" ELSE fate[p]]
  /\ UNCHANGED <<sent, wire>>

Next ==
  \/ \E p \in Packets : Send(p) \/ SendNow(p) \/ Deliver(p) \/ Drop(p)
  \/ \E c \in Conns : Open(c) \/ Close(c)

Spec == Init /\ [][Next]_mboxVars
=============================================================================
