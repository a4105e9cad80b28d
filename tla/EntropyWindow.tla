---------------------------- MODULE EntropyWindow ----------------------------
(***************************************************************************)
(* The entropy decoding of RunDecodeStream: an OrderedFutureWindow keeps   *)
(* the futures of the frames handed to the ThreadPool behind EntropyWorker *)
(* and gives each of them one of its slots.  Slot s stands for             *)
(* entropy_decoders[s], which has state and is not locked: the slot is     *)
(* what keeps two tasks away from one decoder.                             *)
(***************************************************************************)
EXTENDS EntropyPool

CONSTANT WindowSlots   \* slots of the window, and entropy decoders

ASSUME WindowAssumption == WindowSlots \in Nat \ {0}

VARIABLE window   \* pending_ (slot and frame) and slots_in_use_

WindowInit == PoolInit /\ window = [pending |-> <<>>, inUse |-> {}]

WindowFull == Len(window.pending) = WindowSlots
WindowEmpty == window.pending = <<>>

\* Mutant: the slot is the number of frames that are pending.
NextSlotBySize == Len(window.pending) + 1

\* The first slot that is not in use.
NextSlot == Min((1..WindowSlots) \ window.inUse)

\* SubmitNext, with ThreadPool::Enqueue inside.
SubmitNext(f) ==
  LET job == [slot |-> NextSlot, frame |-> f] IN
  /\ ~WindowFull /\ PoolEnqueue(job)
  /\ window' = [pending |-> Append(window.pending, job),
                inUse |-> window.inUse \cup {NextSlot}]

\* PopFront returns the value, or throws what the task threw: the slot is free
\* again either way.
PopFront(f, ok) ==
  /\ ~WindowEmpty /\ f = Head(window.pending).frame /\ Kept(f, ok)
  /\ window' = [pending |-> Tail(window.pending),
                inUse |-> window.inUse \ {Head(window.pending).slot}]
  /\ UNCHANGED pool

\* ~OrderedFutureWindow waits for the futures that nobody popped.
WindowDestroyed == \A i \in DOMAIN window.pending : Ready(window.pending[i].frame)
==============================================================================
