---------------------------- MODULE OrderedWindow ----------------------------
(***************************************************************************)
(* What StreamingPipeline promises to its callers, with no threads, queues *)
(* or locks in it.  Inputs are numbered in the order they are accepted.  A *)
(* window of at most Capacity of them is inside at any time.  An input     *)
(* leaves the window once: delivered to the reader, in input order, or     *)
(* dropped without a result.  A restart begins an empty numbering again.   *)
(***************************************************************************)
EXTENDS Naturals, Sequences, FiniteSets

CONSTANT Capacity   \* inputs that may be inside at the same time

VARIABLES
  sent,       \* how many inputs were numbered since the last restart
  window,     \* numbers of the inputs that are inside
  delivered   \* numbers handed to the reader, oldest first

vars == <<sent, window, delivered>>

Init ==
  /\ sent = 0
  /\ window = {}
  /\ delivered = <<>>

Accept ==
  /\ Cardinality(window) < Capacity
  /\ sent' = sent + 1
  /\ window' = window \cup {sent}
  /\ UNCHANGED delivered

\* Only a number above everything already delivered may be delivered.
Deliver(n) ==
  /\ n \in window
  /\ \A i \in DOMAIN delivered : delivered[i] < n
  /\ window' = window \ {n}
  /\ delivered' = Append(delivered, n)
  /\ UNCHANGED sent

Drop(n) ==
  /\ n \in window
  /\ window' = window \ {n}
  /\ UNCHANGED <<sent, delivered>>

Restart ==
  /\ sent' = 0
  /\ window' = {}
  /\ delivered' = <<>>

Next ==
  \/ Accept
  \/ \E n \in window : Deliver(n) \/ Drop(n)
  \/ Restart

Spec == Init /\ [][Next]_vars
==============================================================================
