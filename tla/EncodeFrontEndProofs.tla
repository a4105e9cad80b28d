------------------------- MODULE EncodeFrontEndProofs -------------------------
(***************************************************************************)
(* The input queue for any number of buffers, frames and callers of Pop:   *)
(* buffers have one owner, frames that are handed out are intact and in    *)
(* order.  RunEncode uses its queue as the queue's specification allows,   *)
(* so what is shown here of any caller holds in the front end;             *)
(* the pipeline's threads are joined by one thread at a time; the codec    *)
(* gets every frame in order; and a run that reports success had none left *)
(* out and no thread fail.                                                 *)
(***************************************************************************)
EXTENDS EncodeFrontEnd, FiniteSetTheorems, WellFoundedInduction, TLAPS

(* Sequences: what taking the head and appending do to their elements.     *)

\* What membership in Seq says of the elements.
LEMMA SeqElements ==
  ASSUME NEW S, NEW s \in Seq(S)
  PROVE  Len(s) \in Nat /\ DOMAIN s = 1..Len(s) /\ \A i \in 1..Len(s) : s[i] \in S
OBVIOUS

\* The tail of a sequence without repetitions has all but its head.
LEMMA TailDistinct ==
  ASSUME NEW S, NEW s \in Seq(S), s # <<>>, IsInjective(s)
  PROVE  /\ Tail(s) \in Seq(S) /\ Head(s) \in S
         /\ IsInjective(Tail(s))
         /\ Range(Tail(s)) = Range(s) \ {Head(s)}
         /\ Head(s) \in Range(s)
<1>1. /\ Tail(s) \in Seq(S) /\ Len(s) \in Nat \ {0} /\ Len(Tail(s)) = Len(s) - 1
      /\ Head(s) = s[1] /\ Head(s) \in S
      /\ \A i \in 1..Len(s) - 1 : Tail(s)[i] = s[i + 1]
  OBVIOUS
<1>2. DOMAIN s = 1..Len(s) /\ DOMAIN Tail(s) = 1..Len(s) - 1
  BY <1>1
<1>3. \A a, b \in 1..Len(s) : s[a] = s[b] => a = b
  BY <1>2 DEF IsInjective
<1>4. IsInjective(Tail(s))
  <2> SUFFICES ASSUME NEW a \in 1..Len(s) - 1, NEW b \in 1..Len(s) - 1,
                      Tail(s)[a] = Tail(s)[b]
               PROVE  a = b
    BY <1>2 DEF IsInjective
  <2> QED
    BY <1>1, <1>3
<1>5. Range(Tail(s)) \subseteq Range(s) \ {Head(s)}
  <2> SUFFICES ASSUME NEW a \in 1..Len(s) - 1 PROVE Tail(s)[a] \in Range(s) \ {Head(s)}
    BY <1>2 DEF Range
  <2>1. a + 1 \in 1..Len(s) /\ Tail(s)[a] = s[a + 1] /\ 1 \in 1..Len(s) /\ a + 1 # 1
    BY <1>1
  <2> QED
    BY <1>1, <1>2, <1>3, <2>1 DEF Range
<1>6. Range(s) \ {Head(s)} \subseteq Range(Tail(s))
  <2> SUFFICES ASSUME NEW a \in 1..Len(s), s[a] # Head(s) PROVE s[a] \in Range(Tail(s))
    BY <1>2 DEF Range
  <2>1. a - 1 \in 1..Len(s) - 1
    BY <1>1
  <2>2. Tail(s)[a - 1] = s[a]
    BY <1>1, <2>1
  <2> QED
    BY <1>2, <2>1, <2>2 DEF Range
<1>7. Head(s) \in Range(s)
  BY <1>1, <1>2 DEF Range
<1> QED
  BY <1>1, <1>4, <1>5, <1>6, <1>7

\* Appending a new element keeps a sequence free of repetitions.
LEMMA AppendDistinct ==
  ASSUME NEW S, NEW s \in Seq(S), NEW e \in S, IsInjective(s), e \notin Range(s)
  PROVE  /\ Append(s, e) \in Seq(S)
         /\ IsInjective(Append(s, e))
         /\ Range(Append(s, e)) = Range(s) \cup {e}
<1> DEFINE t == Append(s, e)
<1>1. /\ t \in Seq(S) /\ Len(s) \in Nat /\ Len(t) = Len(s) + 1
      /\ t[Len(s) + 1] = e /\ \A i \in 1..Len(s) : t[i] = s[i]
  OBVIOUS
<1>2. DOMAIN s = 1..Len(s) /\ DOMAIN t = 1..Len(s) + 1
  BY <1>1
<1> HIDE DEF t
<1>3. Range(t) = Range(s) \cup {e}
  <2>1. \A a \in 1..Len(s) + 1 : a \in 1..Len(s) \/ a = Len(s) + 1
    BY <1>1
  <2>2. Len(s) + 1 \in 1..Len(s) + 1 /\ \A a \in 1..Len(s) : a \in 1..Len(s) + 1
    BY <1>1
  <2> QED
    BY <1>1, <1>2, <2>1, <2>2 DEF Range
<1>4. IsInjective(t)
  <2> SUFFICES ASSUME NEW a \in 1..Len(s) + 1, NEW b \in 1..Len(s) + 1, t[a] = t[b]
               PROVE  a = b
    BY <1>2 DEF IsInjective
  <2>1. \A i \in 1..Len(s) : t[i] = s[i] /\ s[i] \in Range(s)
    BY <1>1, <1>2 DEF Range
  <2>2. CASE a \in 1..Len(s) /\ b \in 1..Len(s)
    BY <1>1, <1>2, <2>1, <2>2 DEF IsInjective
  <2>3. CASE a = Len(s) + 1 \/ b = Len(s) + 1
    <3>1. t[Len(s) + 1] = e /\ e \notin Range(s)
      BY <1>1
    <3>2. \A i \in 1..Len(s) : t[i] # e
      BY <2>1, <3>1
    <3> QED
      BY <1>1, <2>3, <3>1, <3>2
  <2> QED
    BY <1>1, <2>2, <2>3
<1> QED
  BY <1>1, <1>3, <1>4 DEF t
-----------------------------------------------------------------------------
(* The same for the slots in the ready list.                               *)

Ready == [frame : Frames, slot : Slots]
SlotsOf(r) == {r[i].slot : i \in DOMAIN r}
SlotsDiffer(r) == \A i, j \in DOMAIN r : r[i].slot = r[j].slot => i = j

\* Pop takes exactly one slot off the ready list.
LEMMA TailSlots ==
  ASSUME NEW r \in Seq(Ready), r # <<>>, SlotsDiffer(r)
  PROVE  /\ Tail(r) \in Seq(Ready) /\ Head(r) = r[1] /\ Head(r) \in Ready
         /\ Len(r) \in Nat \ {0} /\ Len(Tail(r)) = Len(r) - 1
         /\ DOMAIN r = 1..Len(r) /\ DOMAIN Tail(r) = 1..Len(r) - 1
         /\ \A i \in 1..Len(r) - 1 : Tail(r)[i] = r[i + 1] /\ i + 1 \in 1..Len(r)
         /\ SlotsDiffer(Tail(r))
         /\ SlotsOf(Tail(r)) = SlotsOf(r) \ {Head(r).slot}
         /\ Head(r).slot \in SlotsOf(r)
<1>1. /\ Tail(r) \in Seq(Ready) /\ Len(r) \in Nat \ {0} /\ Len(Tail(r)) = Len(r) - 1
      /\ Head(r) = r[1] /\ Head(r) \in Ready
      /\ \A i \in 1..Len(r) - 1 : Tail(r)[i] = r[i + 1] /\ i + 1 \in 1..Len(r)
  OBVIOUS
<1>2. DOMAIN r = 1..Len(r) /\ DOMAIN Tail(r) = 1..Len(r) - 1
  BY <1>1
<1>3. \A a, b \in 1..Len(r) : r[a].slot = r[b].slot => a = b
  BY <1>2 DEF SlotsDiffer
<1>4. SlotsDiffer(Tail(r))
  <2> SUFFICES ASSUME NEW a \in 1..Len(r) - 1, NEW b \in 1..Len(r) - 1,
                      Tail(r)[a].slot = Tail(r)[b].slot
               PROVE  a = b
    BY <1>2 DEF SlotsDiffer
  <2>1. r[a + 1].slot = r[b + 1].slot
    BY <1>1
  <2>2. a + 1 = b + 1
    BY <1>1, <1>3, <2>1
  <2> QED
    BY <2>2
<1>5. ASSUME NEW a \in 1..Len(r) - 1 PROVE Tail(r)[a].slot \in SlotsOf(r) \ {Head(r).slot}
  <2>1. a + 1 \in 1..Len(r) /\ Tail(r)[a] = r[a + 1] /\ 1 \in 1..Len(r) /\ a + 1 # 1
    BY <1>1
  <2>2. r[a + 1].slot # r[1].slot
    BY <1>3, <2>1
  <2> QED
    BY <1>1, <1>2, <2>1, <2>2 DEF SlotsOf
<1>6. ASSUME NEW a \in 1..Len(r), r[a].slot # Head(r).slot PROVE r[a].slot \in SlotsOf(Tail(r))
  <2>1. a # 1
    BY <1>1, <1>6
  <2>2. a - 1 \in 1..Len(r) - 1
    BY <1>1, <2>1
  <2>3. Tail(r)[a - 1] = r[a]
    BY <1>1, <2>2
  <2> QED
    BY <1>2, <2>2, <2>3 DEF SlotsOf
<1>7. SlotsOf(Tail(r)) = SlotsOf(r) \ {Head(r).slot}
  BY <1>2, <1>5, <1>6 DEF SlotsOf
<1>8. Head(r).slot \in SlotsOf(r)
  BY <1>1, <1>2 DEF SlotsOf
<1> QED
  BY <1>1, <1>2, <1>4, <1>7, <1>8

\* PushReady adds exactly one slot to the ready list.
LEMMA AppendSlots ==
  ASSUME NEW r \in Seq(Ready), NEW e \in Ready, SlotsDiffer(r), e.slot \notin SlotsOf(r)
  PROVE  /\ Append(r, e) \in Seq(Ready)
         /\ Len(r) \in Nat /\ Len(Append(r, e)) = Len(r) + 1
         /\ DOMAIN r = 1..Len(r) /\ DOMAIN Append(r, e) = 1..Len(r) + 1
         /\ Append(r, e)[Len(r) + 1] = e
         /\ \A i \in 1..Len(r) : Append(r, e)[i] = r[i]
         /\ \A i \in 1..Len(r) + 1 : i \in 1..Len(r) \/ i = Len(r) + 1
         /\ SlotsDiffer(Append(r, e))
         /\ SlotsOf(Append(r, e)) = SlotsOf(r) \cup {e.slot}
<1> DEFINE t == Append(r, e)
<1>1. /\ t \in Seq(Ready) /\ Len(r) \in Nat /\ Len(t) = Len(r) + 1
      /\ t[Len(r) + 1] = e /\ \A i \in 1..Len(r) : t[i] = r[i]
  OBVIOUS
<1>2. DOMAIN r = 1..Len(r) /\ DOMAIN t = 1..Len(r) + 1
  BY <1>1
<1>3. \A i \in 1..Len(r) + 1 : i \in 1..Len(r) \/ i = Len(r) + 1
  BY <1>1
<1>4. Len(r) + 1 \in 1..Len(r) + 1 /\ \A a \in 1..Len(r) : a \in 1..Len(r) + 1
  BY <1>1
<1> HIDE DEF t
<1>5. SlotsOf(t) = SlotsOf(r) \cup {e.slot}
  BY <1>1, <1>2, <1>3, <1>4 DEF SlotsOf
<1>6. SlotsDiffer(t)
  <2> SUFFICES ASSUME NEW a \in 1..Len(r) + 1, NEW b \in 1..Len(r) + 1,
                      t[a].slot = t[b].slot
               PROVE  a = b
    BY <1>2 DEF SlotsDiffer
  <2>1. \A i \in 1..Len(r) : t[i].slot = r[i].slot /\ r[i].slot \in SlotsOf(r)
    BY <1>1, <1>2 DEF SlotsOf
  <2>2. CASE a \in 1..Len(r) /\ b \in 1..Len(r)
    BY <1>2, <2>1, <2>2 DEF SlotsDiffer
  <2>3. CASE a = Len(r) + 1 \/ b = Len(r) + 1
    <3>1. t[Len(r) + 1].slot = e.slot /\ e.slot \notin SlotsOf(r)
      BY <1>1
    <3>2. \A i \in 1..Len(r) : t[i].slot # e.slot
      BY <2>1, <3>1
    <3> QED
      BY <1>3, <2>3, <3>1, <3>2
  <2> QED
    BY <1>3, <2>2, <2>3
<1> QED
  BY <1>1, <1>2, <1>3, <1>5, <1>6 DEF t
-----------------------------------------------------------------------------
(* The inductive invariant.                                                *)

\* Where the worker is and what it has in hand belong together; the frames
\* between the next one to pop and the one being read are ready, as long as
\* the queue was not stopped; a destroyed packet has no slot.
WorkerState ==
  /\ worker \in Holding => slot \in Slots /\ reading < FramesToAttempt
  /\ worker = "push" => content[slot] = reading
  /\ ~stop => nextPop + Len(ready) = reading
  /\ producerDone <=> worker = "done"
  /\ \A f \in Frames : packet[f] # NoSlot => f \in live

QueueInv == /\ TypeOK /\ SlotsOwnedOnce /\ FramesIntact /\ FramesInOrder
            /\ EofIsTheEnd /\ WorkerState

\* A slot index is not -1.
LEMMA SlotIsNoNoSlot == NoSlot \notin Slots
BY QueueAssumption DEF QueueAssumption, Slots, NoSlot

\* Steps that leave the lists, the packets and the worker's slot alone.
LEMMA OwnedUntouched ==
  ASSUME Owned, UNCHANGED <<free, ready, packet, slot>>
  PROVE  Owned'
BY DEF Owned, NobodyTwice, NeverShared, ReadySlots, PacketSlots, WorkerSlot

\* AcquireFreeSlot moves a slot from the free list to the worker.
LEMMA OwnedAcquire ==
  ASSUME TypeOK, Owned, slot = NoSlot, free # <<>>,
         slot' = Head(free), free' = Tail(free), UNCHANGED <<ready, packet>>
  PROVE  Owned' /\ free' \in Seq(Slots) /\ slot' \in Slots
<1>1. free \in Seq(Slots) /\ IsInjective(free)
  BY DEF TypeOK, Owned, NobodyTwice
<1>2. /\ free' \in Seq(Slots) /\ slot' \in Slots /\ IsInjective(free')
      /\ Range(free') = Range(free) \ {slot'} /\ slot' \in Range(free)
  BY <1>1, TailDistinct
<1>3. WorkerSlot = {} /\ WorkerSlot' = {slot'}
  BY <1>2, SlotIsNoNoSlot DEF WorkerSlot
<1>4. ReadySlots' = ReadySlots /\ PacketSlots' = PacketSlots
  BY DEF ReadySlots, PacketSlots
<1>5. NobodyTwice'
  BY <1>2 DEF Owned, NobodyTwice
<1>6. NeverShared' /\ Slots = (Range(free) \cup ReadySlots \cup PacketSlots \cup WorkerSlot)'
  BY <1>2, <1>3, <1>4 DEF Owned, NeverShared
<1> QED
  BY <1>2, <1>5, <1>6 DEF Owned

\* ReturnFreeSlot, and PushReady of a stopped queue, give the slot back.
LEMMA OwnedGiveBack ==
  ASSUME TypeOK, Owned, slot \in Slots,
         free' = Append(free, slot), slot' = NoSlot, UNCHANGED <<ready, packet>>
  PROVE  Owned' /\ free' \in Seq(Slots)
<1>1. free \in Seq(Slots) /\ IsInjective(free)
  BY DEF TypeOK, Owned, NobodyTwice
<1>2. WorkerSlot = {slot} /\ WorkerSlot' = {}
  BY SlotIsNoNoSlot DEF WorkerSlot
<1>3. slot \notin Range(free)
  BY <1>2 DEF Owned, NeverShared
<1>4. /\ free' \in Seq(Slots) /\ IsInjective(free') /\ Range(free') = Range(free) \cup {slot}
  BY <1>1, <1>3, AppendDistinct
<1>5. ReadySlots' = ReadySlots /\ PacketSlots' = PacketSlots
  BY DEF ReadySlots, PacketSlots
<1>6. NobodyTwice'
  BY <1>4 DEF Owned, NobodyTwice
<1>7. NeverShared' /\ Slots = (Range(free) \cup ReadySlots \cup PacketSlots \cup WorkerSlot)'
  BY <1>2, <1>4, <1>5 DEF Owned, NeverShared
<1> QED
  BY <1>4, <1>6, <1>7 DEF Owned

\* PushReady moves the worker's slot to the ready list.
LEMMA OwnedPush ==
  ASSUME TypeOK, Owned, slot \in Slots, reading < FramesToAttempt,
         ready' = Append(ready, [frame |-> reading, slot |-> slot]), slot' = NoSlot,
         UNCHANGED <<free, packet>>
  PROVE  Owned' /\ ready' \in Seq(Ready)
<1> DEFINE e == [frame |-> reading, slot |-> slot]
<1>1. ready \in Seq(Ready) /\ SlotsDiffer(ready) /\ SlotsOf(ready) = ReadySlots
  BY DEF TypeOK, Ready, Owned, NobodyTwice, SlotsDiffer, SlotsOf, ReadySlots
<1>2. WorkerSlot = {slot} /\ WorkerSlot' = {}
  BY SlotIsNoNoSlot DEF WorkerSlot
<1>3. e \in Ready /\ e.slot = slot
  BY QueueAssumption DEF QueueAssumption, TypeOK, Ready, Frames
<1>4. e.slot \notin SlotsOf(ready)
  BY <1>1, <1>2, <1>3 DEF Owned, NeverShared
<1> HIDE DEF e
<1>5. /\ ready' \in Seq(Ready) /\ SlotsDiffer(ready')
      /\ SlotsOf(ready') = SlotsOf(ready) \cup {slot}
  <2>1. ready' = Append(ready, e)
    BY DEF e
  <2> QED
    BY <1>1, <1>3, <1>4, <2>1, AppendSlots
<1>6. ReadySlots' = ReadySlots \cup {slot} /\ PacketSlots' = PacketSlots
  BY <1>1, <1>5 DEF ReadySlots, PacketSlots, SlotsOf
<1>7. NobodyTwice'
  BY <1>5 DEF Owned, NobodyTwice, SlotsDiffer
<1>8. NeverShared' /\ Slots = (Range(free) \cup ReadySlots \cup PacketSlots \cup WorkerSlot)'
  BY <1>2, <1>6 DEF Owned, NeverShared
<1> QED
  BY <1>5, <1>7, <1>8 DEF Owned

\* Pop moves the first ready slot to a packet that has none.
LEMMA OwnedTake ==
  ASSUME TypeOK, Owned, TakeReady, packet[Head(ready).frame] = NoSlot,
         UNCHANGED <<free, slot>>
  PROVE  Owned' /\ ready' \in Seq(Ready) /\ packet' \in [Frames -> Slots \cup {NoSlot}]
<1> DEFINE f == Head(ready).frame
           s == Head(ready).slot
<1>1. ready \in Seq(Ready) /\ SlotsDiffer(ready) /\ SlotsOf(ready) = ReadySlots /\ ready # <<>>
  BY DEF TypeOK, Ready, Owned, NobodyTwice, SlotsDiffer, SlotsOf, ReadySlots, TakeReady
<1>2. /\ Tail(ready) \in Seq(Ready) /\ Head(ready) \in Ready /\ SlotsDiffer(Tail(ready))
      /\ SlotsOf(Tail(ready)) = SlotsOf(ready) \ {s} /\ s \in SlotsOf(ready)
  BY <1>1, TailSlots
<1>3. f \in Frames /\ s \in Slots /\ s # NoSlot
  BY <1>2, SlotIsNoNoSlot DEF Ready
<1>4. ready' = Tail(ready) /\ packet' = [packet EXCEPT ![f] = s]
  BY DEF TakeReady
<1>5. packet \in [Frames -> Slots \cup {NoSlot}] /\ packet[f] = NoSlot
  BY DEF TypeOK
<1> HIDE DEF f, s
<1>6. PacketSlots' = PacketSlots \cup {s}
  BY <1>3, <1>4, <1>5 DEF PacketSlots, Range
<1>7. ReadySlots' = ReadySlots \ {s} /\ WorkerSlot' = WorkerSlot
  BY <1>1, <1>2, <1>4 DEF ReadySlots, SlotsOf, WorkerSlot
<1>8. s \in ReadySlots /\ s \notin PacketSlots
  BY <1>1, <1>2 DEF Owned, NeverShared
<1>9. NobodyTwice'
  <2>1. \A g \in Frames : packet[g] # s
    BY <1>3, <1>5, <1>8 DEF PacketSlots, Range
  <2>2. ASSUME NEW g \in Frames, NEW h \in Frames, packet'[g] # NoSlot, packet'[g] = packet'[h]
        PROVE  g = h
    BY <1>3, <1>4, <1>5, <2>1, <2>2 DEF Owned, NobodyTwice
  <2> QED
    BY <1>2, <1>4, <2>2 DEF Owned, NobodyTwice, SlotsDiffer
<1>10. NeverShared' /\ Slots = (Range(free) \cup ReadySlots \cup PacketSlots \cup WorkerSlot)'
  BY <1>6, <1>7, <1>8 DEF Owned, NeverShared
<1>11. packet' \in [Frames -> Slots \cup {NoSlot}]
  BY <1>3, <1>4, <1>5
<1> QED
  BY <1>2, <1>4, <1>9, <1>10, <1>11 DEF Owned

\* Release moves a packet's slot to the free list.
LEMMA OwnedRelease ==
  ASSUME TypeOK, Owned, NEW f \in Frames, packet[f] # NoSlot, ReleaseSlot(f),
         UNCHANGED <<ready, slot>>
  PROVE  Owned' /\ free' \in Seq(Slots) /\ packet' \in [Frames -> Slots \cup {NoSlot}]
<1> DEFINE s == packet[f]
<1>1. free \in Seq(Slots) /\ IsInjective(free) /\ packet \in [Frames -> Slots \cup {NoSlot}]
  BY DEF TypeOK, Owned, NobodyTwice
<1>2. s \in Slots /\ s \in PacketSlots
  BY <1>1 DEF PacketSlots, Range
<1>3. s \notin Range(free)
  BY <1>2 DEF Owned, NeverShared
<1>4. free' = Append(free, s) /\ packet' = [packet EXCEPT ![f] = NoSlot]
  BY DEF ReleaseSlot
<1> HIDE DEF s
<1>5. /\ free' \in Seq(Slots) /\ IsInjective(free') /\ Range(free') = Range(free) \cup {s}
  BY <1>1, <1>2, <1>3, <1>4, AppendDistinct
<1>6. PacketSlots' = PacketSlots \ {s}
  <2>1. \A g \in Frames : g # f => packet'[g] = packet[g] /\ packet[g] # s
    BY <1>1, <1>4 DEF s, Owned, NobodyTwice
  <2>2. packet'[f] = NoSlot /\ packet[f] = s
    BY <1>1, <1>4 DEF s
  <2> QED
    BY <1>1, <1>4, <2>1, <2>2 DEF PacketSlots, Range
<1>7. ReadySlots' = ReadySlots /\ WorkerSlot' = WorkerSlot
  BY DEF ReadySlots, WorkerSlot
<1>8. NobodyTwice'
  <2>1. ASSUME NEW g \in Frames, NEW h \in Frames, packet'[g] # NoSlot, packet'[g] = packet'[h]
        PROVE  g = h
    BY <1>1, <1>4, <2>1 DEF Owned, NobodyTwice
  <2> QED
    BY <1>5, <2>1 DEF Owned, NobodyTwice
<1>9. NeverShared' /\ Slots = (Range(free) \cup ReadySlots \cup PacketSlots \cup WorkerSlot)'
  BY <1>2, <1>5, <1>6, <1>7 DEF Owned, NeverShared
<1>10. packet' \in [Frames -> Slots \cup {NoSlot}]
  BY <1>1, <1>4
<1> QED
  BY <1>5, <1>8, <1>9, <1>10 DEF Owned
-----------------------------------------------------------------------------
(* Preservation, one lemma for each kind of step.                          *)

\* The variables that ownership, content and order of the frames depend on.
frameVars == <<free, ready, packet, slot, content, live, nextPop, reading>>

\* A step that moves no frame keeps the frames as they are.
LEMMA FramesUntouched ==
  ASSUME QueueInv, UNCHANGED frameVars
  PROVE  Owned' /\ FramesIntact' /\ FramesInOrder'
<1>1. Owned'
  BY OwnedUntouched DEF QueueInv, SlotsOwnedOnce, frameVars
<1>2. FramesIntact' /\ FramesInOrder'
  BY DEF QueueInv, frameVars, FramesIntact, FramesInOrder
<1> QED
  BY <1>1, <1>2

\* The steps of the worker that move no frame.
LEMMA WorkerQuiet ==
  ASSUME QueueInv, UNCHANGED frameVars,
         \/ WorkerAcquire \/ WorkerLoopEnds \/ WorkerReadEnd \/ WorkerThrow
         \/ WorkerClose \/ WorkerFinish
  PROVE  QueueInv'
<1> USE DEF sharedVars, workerVars, clientVars
<1>1. Owned' /\ FramesIntact' /\ FramesInOrder'
  BY FramesUntouched
<1>2. TypeOK /\ Owned /\ SlotInHand /\ EofIsTheEnd /\ WorkerState
  BY DEF QueueInv, SlotsOwnedOnce
<1>3. CASE WorkerAcquire
  <2>1. ASSUME free # <<>> PROVE Tail(free) # free
    BY <1>2, <2>1 DEF TypeOK
  <2>2. worker = "acquire" /\ ((worker' = "close" /\ stop) \/ worker' = "asleep")
    BY <1>3, <2>1 DEF WorkerAcquire, frameVars
  <2>3. TypeOK' /\ SlotInHand'
    BY <1>2, <1>3, <2>1, <2>2 DEF WorkerAcquire, TypeOK, SlotInHand, frameVars, Holding
  <2>4. EofIsTheEnd' /\ WorkerState'
    BY <1>2, <1>3, <2>1, <2>2 DEF WorkerAcquire, EofIsTheEnd, WorkerState, frameVars, Holding
  <2> QED
    BY <1>1, <2>3, <2>4 DEF QueueInv, SlotsOwnedOnce
<1>4. CASE WorkerLoopEnds \/ WorkerReadEnd \/ WorkerClose
  <2>1. TypeOK' /\ SlotInHand'
    BY <1>2, <1>4 DEF WorkerLoopEnds, WorkerReadEnd, WorkerClose, TypeOK, SlotInHand, Holding
  <2>2. EofIsTheEnd' /\ WorkerState'
    BY <1>2, <1>4 DEF WorkerLoopEnds, WorkerReadEnd, WorkerClose, EofIsTheEnd, WorkerState,
                      Holding
  <2> QED
    BY <1>1, <2>1, <2>2 DEF QueueInv, SlotsOwnedOnce
<1>5. CASE WorkerThrow
  <2>1. TypeOK' /\ SlotInHand'
    BY <1>2, <1>5 DEF WorkerThrow, KeepFirst, TypeOK, SlotInHand, Holding, Errors
  <2>2. EofIsTheEnd' /\ WorkerState'
    BY <1>2, <1>5 DEF WorkerThrow, EofIsTheEnd, WorkerState, Holding
  <2> QED
    BY <1>1, <2>1, <2>2 DEF QueueInv, SlotsOwnedOnce
<1>6. CASE WorkerFinish
  <2>1. popper' \in [Poppers -> Returned \cup InPop]
        /\ \A t \in Poppers : popper'[t] = "eof" => popper[t] = "eof"
    BY <1>2, <1>6 DEF WorkerFinish, NotifyConsumers, TypeOK, Returned, InPop, Asleep
  <2>2. TypeOK' /\ SlotInHand'
    BY <1>2, <1>6, <2>1 DEF WorkerFinish, TypeOK, SlotInHand, Holding
  <2>3. EofIsTheEnd' /\ WorkerState'
    BY <1>2, <1>6, <2>1 DEF WorkerFinish, EofIsTheEnd, WorkerState, Holding
  <2> QED
    BY <1>1, <2>2, <2>3 DEF QueueInv, SlotsOwnedOnce
<1> QED
  BY <1>3, <1>4, <1>5, <1>6

\* The steps of the callers that move no frame.
LEMMA ClientQuiet ==
  ASSUME QueueInv, UNCHANGED frameVars,
         \/ \E t \in Poppers : PopCall(t) \/ PopSleep(t) \/ PopError(t) \/ PopEof(t)
         \/ \E e \in {"none", "client"} : Cancel(e)
         \/ DestroyCall \/ DestroyReturn \/ SpuriousWakeup
  PROVE  QueueInv'
<1> USE DEF sharedVars, workerVars, clientVars
<1>1. Owned' /\ FramesIntact' /\ FramesInOrder'
  BY FramesUntouched
<1>2. TypeOK /\ Owned /\ SlotInHand /\ EofIsTheEnd /\ WorkerState
  BY DEF QueueInv, SlotsOwnedOnce
<1>3. ASSUME NEW t \in Poppers, PopCall(t) \/ PopSleep(t) \/ PopError(t) \/ PopEof(t)
      PROVE  QueueInv'
  <2>1. UNCHANGED <<sharedVars, workerVars, live, packet, alive>>
    BY <1>3 DEF PopCall, PopSleep, PopError, PopEof
  <2>2. \E l \in {"pop", "asleep", "error", "eof"} : popper' = [popper EXCEPT ![t] = l]
    BY <1>3 DEF PopCall, PopSleep, PopError, PopEof
  <2>3. TypeOK' /\ SlotInHand' /\ WorkerState'
    BY <1>2, <2>1, <2>2 DEF TypeOK, SlotInHand, WorkerState, Returned, InPop
  <2>4. EofIsTheEnd'
    <3>1. CASE PopEof(t)
      <4>1. (producerDone \/ stop) /\ exception = "none" /\ (stop \/ ready = <<>>)
        BY <3>1 DEF PopEof, MayReturn
      <4>2. ~stop => worker = "done" /\ Len(ready) = 0 /\ nextPop = reading
        BY <1>2, <4>1 DEF WorkerState, TypeOK
      <4> QED
        BY <2>1, <4>1, <4>2 DEF EofIsTheEnd
    <3>2. CASE ~PopEof(t)
      <4>1. \E l \in {"pop", "asleep", "error"} : popper' = [popper EXCEPT ![t] = l]
        BY <1>3, <3>2 DEF PopCall, PopSleep, PopError
      <4>2. \A u \in Poppers : popper'[u] = "eof" => popper[u] = "eof"
        BY <1>2, <4>1 DEF TypeOK
      <4> QED
        BY <1>2, <2>1, <4>2 DEF EofIsTheEnd
    <3> QED
      BY <3>1, <3>2
  <2> QED
    BY <1>1, <2>3, <2>4 DEF QueueInv, SlotsOwnedOnce
<1>4. ASSUME StopQueue, exception' \in {exception, "client"}, exception # "none" => exception' # "none",
             UNCHANGED producerDone, alive' \in {"yes", "ending", "no"}
      PROVE  QueueInv'
  <2>1. /\ stop' = TRUE
        /\ worker' = (IF worker = "asleep" THEN "acquire" ELSE worker)
        /\ popper' \in [Poppers -> Returned \cup InPop]
    BY <1>2, <1>4 DEF StopQueue, NotifyProducer, NotifyConsumers, TypeOK, InPop, Returned
  <2>2. TypeOK' /\ SlotInHand'
    BY <1>2, <1>4, <2>1 DEF TypeOK, SlotInHand, frameVars, Holding, Errors
  <2>3. WorkerState' /\ EofIsTheEnd'
    BY <1>2, <1>4, <2>1 DEF WorkerState, EofIsTheEnd, frameVars, Holding
  <2> QED
    BY <1>1, <2>2, <2>3 DEF QueueInv, SlotsOwnedOnce
<1>5. ASSUME NEW e \in {"none", "client"}, Cancel(e) PROVE QueueInv'
  <2>1. alive' \in {"yes", "ending", "no"} /\ producerDone' = producerDone /\ StopQueue
    BY <1>2, <1>5 DEF Cancel, TypeOK
  <2>2. exception' \in {exception, "client"} /\ (exception # "none" => exception' # "none")
    BY <1>5 DEF Cancel, KeepFirst
  <2> QED
    BY <1>4, <2>1, <2>2
<1>6. CASE DestroyCall
  BY <1>4, <1>6 DEF DestroyCall
<1>7. CASE DestroyReturn
  <2>1. TypeOK' /\ SlotInHand' /\ WorkerState' /\ EofIsTheEnd'
    BY <1>2, <1>7 DEF DestroyReturn, TypeOK, SlotInHand, WorkerState, EofIsTheEnd
  <2> QED
    BY <1>1, <2>1 DEF QueueInv, SlotsOwnedOnce
<1>8. CASE SpuriousWakeup
  <2>1. /\ UNCHANGED <<sharedVars, alive>>
        /\ \/ worker' = worker
           \/ worker = "asleep" /\ worker' = "acquire"
        /\ popper' = popper \/ \E t \in Poppers : popper' = [popper EXCEPT ![t] = "pop"]
    BY <1>8 DEF SpuriousWakeup, NotifyProducer, Asleep
  <2>2. popper' \in [Poppers -> Returned \cup InPop]
        /\ \A t \in Poppers : popper'[t] = "eof" => popper[t] = "eof"
    BY <1>2, <2>1 DEF TypeOK, InPop, Returned
  <2>3. TypeOK' /\ SlotInHand'
    BY <1>2, <2>1, <2>2 DEF TypeOK, SlotInHand, frameVars, Holding
  <2>4. WorkerState' /\ EofIsTheEnd'
    BY <1>2, <2>1, <2>2 DEF WorkerState, EofIsTheEnd, frameVars, Holding
  <2> QED
    BY <1>1, <2>3, <2>4 DEF QueueInv, SlotsOwnedOnce
<1> QED
  BY <1>3, <1>5, <1>6, <1>7, <1>8

\* AcquireFreeSlot takes a slot.
LEMMA AcquireStep ==
  ASSUME QueueInv, WorkerAcquire, free # <<>>, ~stop
  PROVE  QueueInv'
<1> USE DEF sharedVars, workerVars, clientVars
<1>1. TypeOK /\ Owned /\ SlotInHand /\ EofIsTheEnd /\ WorkerState
  BY DEF QueueInv, SlotsOwnedOnce
<1>2. /\ worker = "acquire" /\ worker' = "read" /\ reading < FramesToAttempt
      /\ slot' = Head(free) /\ free' = Tail(free)
      /\ UNCHANGED <<ready, exception, producerDone, stop, nextPop, reading, content,
                     popper, live, packet, alive>>
  BY DEF WorkerAcquire
<1>3. slot = NoSlot
  BY <1>1, <1>2 DEF SlotInHand, Holding
<1>4. Owned' /\ free' \in Seq(Slots) /\ slot' \in Slots
  BY <1>1, <1>2, <1>3, OwnedAcquire
<1>5. TypeOK' /\ SlotInHand' /\ WorkerState' /\ EofIsTheEnd'
  BY <1>1, <1>2, <1>4 DEF TypeOK, SlotInHand, WorkerState, EofIsTheEnd, Holding
<1>6. FramesIntact' /\ FramesInOrder'
  BY <1>2 DEF QueueInv, FramesIntact, FramesInOrder
<1> QED
  BY <1>4, <1>5, <1>6 DEF QueueInv, SlotsOwnedOnce

\* PrepareOne overwrites a slot that only the worker has.
LEMMA ReadStep ==
  ASSUME QueueInv, WorkerRead
  PROVE  QueueInv'
<1> USE DEF sharedVars, workerVars, clientVars
<1>1. TypeOK /\ Owned /\ SlotInHand /\ EofIsTheEnd /\ WorkerState /\ FramesIntact /\ FramesInOrder
  BY DEF QueueInv, SlotsOwnedOnce
<1>2. /\ worker = "read" /\ worker' = "push" /\ content' = [content EXCEPT ![slot] = reading]
      /\ UNCHANGED <<free, ready, exception, producerDone, stop, nextPop, reading, slot,
                     popper, live, packet, alive>>
  BY DEF WorkerRead
<1>3. slot \in Slots /\ reading \in 0..FramesToAttempt /\ content \in [Slots -> 0..FramesToAttempt]
  BY <1>1, <1>2 DEF WorkerState, Holding, TypeOK
<1>4. Owned'
  BY <1>1, <1>2, OwnedUntouched
<1>5. TypeOK' /\ SlotInHand' /\ WorkerState' /\ EofIsTheEnd'
  BY <1>1, <1>2, <1>3 DEF TypeOK, SlotInHand, WorkerState, EofIsTheEnd, Holding
<1>6. slot \in WorkerSlot
  BY <1>3, SlotIsNoNoSlot DEF WorkerSlot
<1>7. FramesIntact'
  <2>1. \A i \in DOMAIN ready : ready[i].slot # slot
    BY <1>1, <1>6 DEF Owned, NeverShared, ReadySlots
  <2>2. \A f \in Frames : packet[f] # NoSlot => packet[f] # slot
    BY <1>1, <1>6 DEF Owned, NeverShared, PacketSlots, Range, TypeOK
  <2>3. \A s \in Slots : s # slot => content'[s] = content[s]
    BY <1>2, <1>3
  <2>4. \A i \in DOMAIN ready : ready[i].slot \in Slots
    <3>1. ready \in Seq(Ready)
      BY <1>1 DEF TypeOK, Ready
    <3>2. \A i \in DOMAIN ready : ready[i] \in Ready
      BY <3>1, SeqElements
    <3> QED
      BY <3>2 DEF Ready
  <2>5. \A f \in live : f \in Frames /\ packet[f] \in Slots \cup {NoSlot}
    BY <1>1 DEF TypeOK
  <2> QED
    BY <1>1, <1>2, <2>1, <2>2, <2>3, <2>4, <2>5 DEF FramesIntact
<1>8. FramesInOrder'
  BY <1>1, <1>2 DEF FramesInOrder
<1> QED
  BY <1>4, <1>5, <1>7, <1>8 DEF QueueInv, SlotsOwnedOnce

\* ReturnFreeSlot, and PushReady after a stop.
LEMMA GiveBackStep ==
  ASSUME QueueInv, WorkerReturnSlot \/ (WorkerPush /\ stop)
  PROVE  QueueInv'
<1> USE DEF sharedVars, workerVars, clientVars
<1>1. TypeOK /\ Owned /\ SlotInHand /\ EofIsTheEnd /\ WorkerState /\ FramesIntact /\ FramesInOrder
  BY DEF QueueInv, SlotsOwnedOnce
<1>2. /\ worker \in Holding /\ worker' \in {"close", "acquire"}
      /\ free' = Append(free, slot) /\ slot' = NoSlot
      /\ \/ reading' = reading
         \/ stop /\ reading' = reading + 1
      /\ UNCHANGED <<ready, exception, producerDone, stop, nextPop, content, popper, live,
                     packet, alive>>
  BY DEF WorkerReturnSlot, WorkerPush, Holding
<1>3. slot \in Slots /\ reading < FramesToAttempt /\ reading \in 0..FramesToAttempt
  BY <1>1, <1>2 DEF WorkerState, TypeOK
<1>4. Owned' /\ free' \in Seq(Slots)
  BY <1>1, <1>2, <1>3, OwnedGiveBack
<1>5. reading' \in 0..FramesToAttempt /\ reading' >= reading
  BY <1>2, <1>3, QueueAssumption DEF QueueAssumption
<1>6. TypeOK' /\ SlotInHand'
  BY <1>1, <1>2, <1>4, <1>5 DEF TypeOK, SlotInHand, Holding
<1>7. WorkerState' /\ EofIsTheEnd'
  BY <1>1, <1>2 DEF WorkerState, EofIsTheEnd, Holding
<1>8. FramesIntact'
  BY <1>1, <1>2 DEF FramesIntact
<1>9. FramesInOrder'
  BY <1>1, <1>2, <1>3, <1>5 DEF FramesInOrder, TypeOK
<1> QED
  BY <1>4, <1>6, <1>7, <1>8, <1>9 DEF QueueInv, SlotsOwnedOnce

\* PushReady adds the frame that was just read, the next in line.
LEMMA PushStep ==
  ASSUME QueueInv, WorkerPush, ~stop
  PROVE  QueueInv'
<1> USE DEF sharedVars, workerVars, clientVars
<1> DEFINE e == [frame |-> reading, slot |-> slot]
<1>1. TypeOK /\ Owned /\ SlotInHand /\ EofIsTheEnd /\ WorkerState /\ FramesIntact /\ FramesInOrder
  BY DEF QueueInv, SlotsOwnedOnce
<1>2. /\ worker = "push" /\ worker' = "acquire" /\ reading' = reading + 1 /\ slot' = NoSlot
      /\ ready' = Append(ready, [frame |-> reading, slot |-> slot])
      /\ NotifyOneConsumer
      /\ UNCHANGED <<free, exception, producerDone, stop, nextPop, content, live, packet, alive>>
  BY DEF WorkerPush
<1>3. slot \in Slots /\ reading < FramesToAttempt /\ content[slot] = reading
      /\ nextPop + Len(ready) = reading
  BY <1>1, <1>2 DEF WorkerState, Holding
<1>4. Owned' /\ ready' \in Seq(Ready)
  BY <1>1, <1>2, <1>3, OwnedPush
<1>5. popper' \in [Poppers -> Returned \cup InPop]
      /\ \A t \in Poppers : popper'[t] = "eof" => popper[t] = "eof"
  BY <1>1, <1>2 DEF NotifyOneConsumer, Asleep, TypeOK, InPop, Returned
<1>6. /\ Len(ready) \in Nat /\ Len(ready') = Len(ready) + 1
      /\ DOMAIN ready = 1..Len(ready) /\ DOMAIN ready' = 1..Len(ready) + 1
      /\ ready'[Len(ready) + 1] = e /\ \A i \in 1..Len(ready) : ready'[i] = ready[i]
      /\ \A i \in 1..Len(ready) + 1 : i \in 1..Len(ready) \/ i = Len(ready) + 1
  BY <1>1, <1>2 DEF TypeOK
<1>7. e.frame = reading /\ e.slot = slot
  OBVIOUS
<1> HIDE DEF e
<1>13. nextPop \in Nat /\ reading \in Nat /\ reading + 1 \in 0..FramesToAttempt
  BY <1>1, <1>3, QueueAssumption DEF TypeOK, QueueAssumption
<1>8. TypeOK' /\ SlotInHand'
  <2>1. ready' \in Seq([frame : Frames, slot : Slots])
    BY <1>4 DEF Ready
  <2> QED
    BY <1>1, <1>2, <1>5, <1>13, <2>1 DEF TypeOK, SlotInHand
<1>9. WorkerState'
  <2>1. nextPop' + Len(ready') = reading'
    BY <1>2, <1>3, <1>6, <1>13
  <2>2. worker' \notin Holding
    BY <1>2 DEF Holding
  <2> QED
    BY <1>1, <1>2, <2>1, <2>2 DEF WorkerState
<1>10. EofIsTheEnd'
  <2>1. \A t \in Poppers : popper[t] # "eof"
    BY <1>1, <1>2 DEF EofIsTheEnd
  <2> QED
    BY <1>5, <2>1 DEF EofIsTheEnd
<1>11. FramesIntact'
  BY <1>1, <1>2, <1>3, <1>6, <1>7 DEF FramesIntact
<1>12. FramesInOrder'
  <2>1. \A i \in 1..Len(ready) + 1 : ready'[i].frame = nextPop + i - 1
    <3>1. \A i \in 1..Len(ready) : ready[i].frame = nextPop + i - 1
      BY <1>1, <1>6 DEF FramesInOrder
    <3>2. nextPop + (Len(ready) + 1) - 1 = reading
      BY <1>3, <1>6, <1>13
    <3> QED
      BY <1>6, <1>7, <3>1, <3>2
  <2> QED
    BY <1>1, <1>2, <1>3, <1>6, <1>13, <2>1 DEF FramesInOrder
<1> QED
  BY <1>4, <1>8, <1>9, <1>10, <1>11, <1>12 DEF QueueInv, SlotsOwnedOnce

\* Pop hands the next frame to a packet.
LEMMA PopFrameStep ==
  ASSUME QueueInv, NEW t \in Poppers, PopFrame(t)
  PROVE  QueueInv'
<1> USE DEF sharedVars, workerVars, clientVars
<1> DEFINE f == Head(ready).frame
           s == Head(ready).slot
<1>1. TypeOK /\ Owned /\ SlotInHand /\ EofIsTheEnd /\ WorkerState /\ FramesIntact /\ FramesInOrder
  BY DEF QueueInv, SlotsOwnedOnce
<1>2. /\ ready # <<>> /\ ready' = Tail(ready) /\ nextPop' = f + 1
      /\ live' = live \cup {f} /\ packet' = [packet EXCEPT ![f] = s]
      /\ popper' = [popper EXCEPT ![t] = "frame"] /\ ~stop /\ exception = "none"
      /\ \/ worker' = worker
         \/ worker = "asleep" /\ worker' = "acquire"
      /\ UNCHANGED <<free, exception, producerDone, stop, reading, slot, content, alive>>
  BY DEF PopFrame, TakeReady, NotifyProducer
<1>3. ready \in Seq(Ready) /\ SlotsDiffer(ready)
  BY <1>1 DEF TypeOK, Ready, Owned, NobodyTwice, SlotsDiffer
<1>4. /\ Head(ready) = ready[1] /\ Head(ready) \in Ready
      /\ Len(ready) \in Nat \ {0} /\ Len(Tail(ready)) = Len(ready) - 1
      /\ DOMAIN ready = 1..Len(ready) /\ DOMAIN Tail(ready) = 1..Len(ready) - 1
      /\ \A i \in 1..Len(ready) - 1 : Tail(ready)[i] = ready[i + 1] /\ i + 1 \in 1..Len(ready)
  BY <1>2, <1>3, TailSlots
<1>5. 1 \in DOMAIN ready /\ nextPop \in Nat /\ reading \in Nat /\ reading <= FramesToAttempt
  BY <1>1, <1>4, QueueAssumption DEF TypeOK, QueueAssumption
<1>6. f = nextPop /\ f \in Frames /\ s \in Slots /\ content[s] = f
  <2>1. f = nextPop + 1 - 1 /\ content[s] = f
    BY <1>1, <1>4, <1>5 DEF FramesInOrder, FramesIntact
  <2> QED
    BY <1>4, <1>5, <2>1 DEF Ready
<1>7. packet[f] = NoSlot
  <2>1. f \notin live
    BY <1>1, <1>5, <1>6 DEF FramesInOrder
  <2> QED
    BY <1>1, <1>6, <2>1 DEF WorkerState
<1>8. Owned' /\ ready' \in Seq(Ready) /\ packet' \in [Frames -> Slots \cup {NoSlot}]
  <2>1. TakeReady /\ UNCHANGED <<free, slot>>
    BY DEF PopFrame
  <2> QED
    BY <1>1, <1>7, <2>1, OwnedTake
<1>9. \A i \in 1..Len(ready) - 1 : /\ Tail(ready)[i].frame = (nextPop + 1) + i - 1
                                   /\ content[Tail(ready)[i].slot] = Tail(ready)[i].frame
  <2>1. \A i \in 1..Len(ready) : ready[i].frame = nextPop + i - 1
                                 /\ content[ready[i].slot] = ready[i].frame
    BY <1>1, <1>4 DEF FramesInOrder, FramesIntact
  <2> QED
    BY <1>4, <1>5, <2>1
<1> HIDE DEF f, s
<1>10. nextPop' = nextPop + 1 /\ nextPop + 1 \in 0..FramesToAttempt
       /\ nextPop' + Len(ready') = nextPop + Len(ready)
  BY <1>2, <1>4, <1>5, <1>6, QueueAssumption DEF Frames, QueueAssumption
<1>11. TypeOK' /\ SlotInHand'
  <2>1. ready' \in Seq([frame : Frames, slot : Slots])
    BY <1>8 DEF Ready
  <2>2. popper' \in [Poppers -> Returned \cup InPop]
    BY <1>1, <1>2 DEF TypeOK, Returned
  <2> QED
    BY <1>1, <1>2, <1>6, <1>8, <1>10, <2>1, <2>2 DEF TypeOK, SlotInHand, Holding
<1>12. WorkerState'
  <2>1. \A g \in Frames : packet'[g] # NoSlot => g \in live'
    BY <1>1, <1>2, <1>6 DEF WorkerState, TypeOK
  <2> QED
    BY <1>1, <1>2, <1>10, <2>1 DEF WorkerState, Holding
<1>13. EofIsTheEnd'
  <2>1. \A u \in Poppers : popper[u] # "eof"
    BY <1>1, <1>2 DEF EofIsTheEnd
  <2>2. \A u \in Poppers : popper'[u] # "eof"
    BY <1>1, <1>2, <2>1 DEF TypeOK
  <2> QED
    BY <2>2 DEF EofIsTheEnd
<1>14. FramesIntact'
  <2>1. \A g \in live : packet[g] # NoSlot => content[packet[g]] = g
    BY <1>1 DEF FramesIntact
  <2>2. \A g \in live' : packet'[g] # NoSlot => content[packet'[g]] = g
    BY <1>1, <1>2, <1>6, <2>1 DEF TypeOK
  <2> QED
    BY <1>2, <1>4, <1>9, <2>2 DEF FramesIntact
<1>15. FramesInOrder'
  <2>1. live' \subseteq 0..nextPop' - 1
    BY <1>1, <1>2, <1>5, <1>6, <1>10 DEF FramesInOrder
  <2> QED
    BY <1>1, <1>2, <1>4, <1>9, <1>10, <2>1 DEF FramesInOrder
<1> QED
  BY <1>8, <1>11, <1>12, <1>13, <1>14, <1>15 DEF QueueInv, SlotsOwnedOnce

\* A release, explicit or by the packet's destructor.
LEMMA ReleaseStep ==
  ASSUME QueueInv, NEW f \in Frames, ReleasePacket(f) \/ DestroyPacket(f)
  PROVE  QueueInv'
<1> USE DEF sharedVars, workerVars, clientVars
<1>1. TypeOK /\ Owned /\ SlotInHand /\ EofIsTheEnd /\ WorkerState /\ FramesIntact /\ FramesInOrder
  BY DEF QueueInv, SlotsOwnedOnce
<1>2. /\ live' \subseteq live /\ live \ {f} \subseteq live'
      /\ UNCHANGED <<ready, exception, producerDone, stop, nextPop, reading, slot, content,
                     popper, alive>>
  BY DEF ReleasePacket, DestroyPacket
<1>3. \/ packet[f] # NoSlot /\ ReleaseSlot(f)
      \/ packet[f] = NoSlot /\ UNCHANGED <<free, packet, worker>>
  BY DEF ReleasePacket, DestroyPacket
<1>4. /\ Owned' /\ free' \in Seq(Slots) /\ packet' \in [Frames -> Slots \cup {NoSlot}]
      /\ packet'[f] = NoSlot /\ \A g \in Frames \ {f} : packet'[g] = packet[g]
      /\ \/ worker' = worker
         \/ worker = "asleep" /\ worker' = "acquire"
  <2>1. CASE packet[f] # NoSlot /\ ReleaseSlot(f)
    <3>1. Owned' /\ free' \in Seq(Slots) /\ packet' \in [Frames -> Slots \cup {NoSlot}]
      BY <1>1, <1>2, <2>1, OwnedRelease
    <3> QED
      BY <1>1, <2>1, <3>1 DEF ReleaseSlot, NotifyProducer, TypeOK
  <2>2. CASE packet[f] = NoSlot /\ UNCHANGED <<free, packet, worker>>
    <3>1. Owned'
      BY <1>1, <1>2, <2>2, OwnedUntouched
    <3> QED
      BY <1>1, <2>2, <3>1 DEF TypeOK
  <2> QED
    BY <1>3, <2>1, <2>2
<1>5. TypeOK' /\ SlotInHand'
  BY <1>1, <1>2, <1>4 DEF TypeOK, SlotInHand, Holding
<1>6. WorkerState' /\ EofIsTheEnd'
  BY <1>1, <1>2, <1>4 DEF WorkerState, EofIsTheEnd, Holding
<1>7. FramesIntact' /\ FramesInOrder'
  <2>1. \A g \in live' : g \in Frames /\ g \in live
    BY <1>1, <1>2 DEF TypeOK
  <2> QED
    BY <1>1, <1>2, <1>4, <2>1 DEF FramesIntact, FramesInOrder
<1> QED
  BY <1>4, <1>5, <1>6, <1>7 DEF QueueInv, SlotsOwnedOnce

\* A new queue owns all its slots.
LEMMA InitInv == QInit => QueueInv
<1> SUFFICES ASSUME QInit PROVE QueueInv
  OBVIOUS
<1>1. SlotCount \in Nat \ {0} /\ FramesToAttempt \in Nat
  BY QueueAssumption DEF QueueAssumption
<1>2. free = [i \in 1..SlotCount |-> i - 1] /\ ready = <<>> /\ slot = NoSlot
      /\ live = {} /\ packet = [f \in Frames |-> NoSlot]
  BY DEF QInit
<1>3. free \in Seq(Slots) /\ IsInjective(free) /\ Range(free) = Slots
  <2>1. free \in Seq(Slots)
    <3>1. \A i \in 1..SlotCount : i - 1 \in Slots
      BY <1>1 DEF Slots
    <3> QED
      BY <1>1, <1>2, <3>1
  <2>2. DOMAIN free = 1..SlotCount /\ \A i \in 1..SlotCount : free[i] = i - 1
    BY <1>2
  <2>3. IsInjective(free)
    BY <1>1, <2>2 DEF IsInjective
  <2>4. \A x \in Slots : x + 1 \in 1..SlotCount /\ x = (x + 1) - 1
    BY <1>1 DEF Slots
  <2>5. \A i \in 1..SlotCount : i - 1 \in Slots
    BY <1>1 DEF Slots
  <2> QED
    BY <2>1, <2>2, <2>3, <2>4, <2>5 DEF Range
<1>4. ready \in Seq([frame : Frames, slot : Slots]) /\ DOMAIN ready = {} /\ Len(ready) = 0
  BY <1>2
<1>5. TypeOK
  <2>1. content \in [Slots -> 0..FramesToAttempt] /\ nextPop \in 0..FramesToAttempt
        /\ reading \in 0..FramesToAttempt
    BY <1>1 DEF QInit
  <2>2. /\ packet \in [Frames -> Slots \cup {NoSlot}] /\ live \subseteq Frames
        /\ slot \in Slots \cup {NoSlot}
    BY <1>2
  <2>3. popper \in [Poppers -> Returned \cup InPop]
    BY DEF QInit, Returned
  <2> QED
    BY <1>3, <1>4, <2>1, <2>2, <2>3 DEF QInit, TypeOK, Errors
<1>6. ReadySlots = {} /\ PacketSlots = {} /\ WorkerSlot = {}
  BY <1>2, <1>4 DEF ReadySlots, PacketSlots, WorkerSlot, Range
<1>7. Owned
  BY <1>2, <1>3, <1>4, <1>6 DEF Owned, NobodyTwice, NeverShared
<1>8. SlotInHand /\ FramesIntact /\ FramesInOrder
  BY <1>1, <1>2, <1>4 DEF QInit, SlotInHand, FramesIntact, FramesInOrder
<1>9. EofIsTheEnd /\ WorkerState
  BY <1>2, <1>4 DEF QInit, EofIsTheEnd, WorkerState, Holding
<1> QED
  BY <1>5, <1>7, <1>8, <1>9 DEF QueueInv, SlotsOwnedOnce

\* No step of the worker or of a caller breaks the invariant.
LEMMA InvStep == QueueInv /\ [QNext]_qvars => QueueInv'
<1> SUFFICES ASSUME QueueInv, [QNext]_qvars PROVE QueueInv'
  OBVIOUS
<1> USE DEF sharedVars, workerVars, clientVars
<1>1. CASE WorkerAcquire
  <2>1. CASE free # <<>> /\ ~stop
    BY <1>1, <2>1, AcquireStep
  <2>2. CASE ~(free # <<>> /\ ~stop)
    <3>1. UNCHANGED frameVars
      BY <1>1, <2>2 DEF WorkerAcquire, frameVars
    <3> QED
      BY <1>1, <3>1, WorkerQuiet
  <2> QED
    BY <2>1, <2>2
<1>2. CASE WorkerLoopEnds \/ WorkerReadEnd \/ WorkerThrow \/ WorkerClose \/ WorkerFinish
  <2>1. UNCHANGED frameVars
    BY <1>2 DEF WorkerLoopEnds, WorkerReadEnd, WorkerThrow, WorkerClose, WorkerFinish, frameVars
  <2> QED
    BY <1>2, <2>1, WorkerQuiet
<1>3. CASE WorkerRead
  BY <1>3, ReadStep
<1>4. CASE WorkerReturnSlot
  BY <1>4, GiveBackStep
<1>5. CASE WorkerPush
  BY <1>5, PushStep, GiveBackStep
<1>6. ASSUME NEW t \in Poppers, PopCall(t) \/ Pop(t) PROVE QueueInv'
  <2>1. CASE PopFrame(t)
    BY <2>1, PopFrameStep
  <2>2. CASE PopCall(t) \/ PopSleep(t) \/ PopError(t) \/ PopEof(t)
    <3>1. UNCHANGED frameVars
      BY <2>2 DEF PopCall, PopSleep, PopError, PopEof, frameVars
    <3> QED
      BY <2>2, <3>1, ClientQuiet
  <2> QED
    BY <1>6, <2>1, <2>2 DEF Pop
<1>7. ASSUME NEW f \in Frames, ReleasePacket(f) \/ DestroyPacket(f) PROVE QueueInv'
  BY <1>7, ReleaseStep
<1>8. ASSUME \/ \E e \in {"none", "client"} : Cancel(e)
             \/ DestroyCall \/ DestroyReturn \/ SpuriousWakeup
      PROVE  QueueInv'
  <2>1. UNCHANGED frameVars
    BY <1>8 DEF Cancel, DestroyCall, DestroyReturn, SpuriousWakeup, frameVars
  <2> QED
    BY <1>8, <2>1, ClientQuiet
<1>9. CASE UNCHANGED qvars
  <2>1. UNCHANGED frameVars
    BY <1>9 DEF qvars, frameVars
  <2>2. Owned' /\ FramesIntact' /\ FramesInOrder'
    BY <2>1, FramesUntouched
  <2>3. TypeOK' /\ SlotInHand' /\ EofIsTheEnd' /\ WorkerState'
    BY <1>9 DEF qvars, QueueInv, SlotsOwnedOnce, TypeOK, SlotInHand, EofIsTheEnd, WorkerState
  <2> QED
    BY <2>2, <2>3 DEF QueueInv, SlotsOwnedOnce
<1> QED
  BY <1>1, <1>2, <1>3, <1>4, <1>5, <1>6, <1>7, <1>8, <1>9
     DEF QNext, Worker, Client, Gone

\* The invariant holds in every reachable state.
LEMMA InvCorrect == QSpec => []QueueInv
BY InitInv, InvStep, PTL DEF QSpec
-----------------------------------------------------------------------------
(* The theorems.                                                           *)

\* Every variable keeps its type.
THEOREM TypeCorrect == QSpec => []TypeOK
<1>1. QueueInv => TypeOK
  BY DEF QueueInv
<1> QED
  BY <1>1, InvCorrect, PTL

\* Every buffer of the arena has one owner, for any number of buffers, frames
\* and callers: no double release, no buffer lost without an error.
THEOREM OwnershipCorrect == QSpec => []SlotsOwnedOnce
<1>1. QueueInv => SlotsOwnedOnce
  BY DEF QueueInv
<1> QED
  BY <1>1, InvCorrect, PTL

\* The capture thread never overwrites a frame that somebody may still read.
THEOREM IntactCorrect == QSpec => []FramesIntact
<1>1. QueueInv => FramesIntact
  BY DEF QueueInv
<1> QED
  BY <1>1, InvCorrect, PTL

\* Frames are handed out in order, without gap or repetition, and without a Cancel
\* the end of the stream means that nothing was left out.
THEOREM PopCorrect == QSpec => []PopsTheStream
<1>1. QueueInv => PopsTheStream
  BY DEF QueueInv, PopsTheStream
<1> QED
  BY <1>1, InvCorrect, PTL
-----------------------------------------------------------------------------
(* The front end.                                                          *)

\* The producer is one of the threads that may call Pop.
LEMMA ProducerPops == producer \in Poppers
<1>1. Poppers # {}
  BY FS_EmptySet, FrontEndAssumption
<1> QED
  BY <1>1 DEF producer

-----------------------------------------------------------------------------
(* What each thread does to the queue is what its callers may do.          *)

\* A Cancel is one of the calls the queue's callers may make.
LEMMA CancelStep ==
  ASSUME NEW e \in {"none", "client"}, Cancel(e)
  PROVE  Client
BY DEF Client

LEMMA ProducerStep ==
  ASSUME Producer
  PROVE  [Client]_qvars
<1>1. CASE ProdLoop
  BY <1>1, ProducerPops DEF ProdLoop, Client
<1>2. CASE ProdPop
  BY <1>2, ProducerPops DEF ProdPop, Client
<1>3. CASE ProdEof \/ ProdAdd \/ ProdRefused \/ ProdClose \/ ProdFail
  BY <1>3 DEF ProdEof, ProdAdd, ProdRefused, ProdClose, ProdFail
<1>4. CASE ProdCancel
  BY <1>4, CancelStep DEF ProdCancel
<1> QED
  BY <1>1, <1>2, <1>3, <1>4 DEF Producer

LEMMA PipelineStep ==
  ASSUME NEW w \in Workers, PipelineWorker(w)
  PROVE  [Client]_qvars
<1>1. CASE WkPop(w) \/ WkCheck(w) \/ WkFlag(w) \/ WkMotionThrow(w)
  BY <1>1 DEF WkPop, WkCheck, WkFlag, WkMotionThrow
<1>2. CASE WkHalt(w) \/ WkClose(w) \/ WkThrow(w) \/ WkComplete(w) \/ WkLeave(w)
  BY <1>2 DEF WkHalt, WkClose, WkThrow, WkComplete, WkLeave
<1>3. CASE WkCancel(w)
  BY <1>3, CancelStep DEF WkCancel
<1> QED
  BY <1>1, <1>2, <1>3 DEF PipelineWorker

LEMMA ConsumerStep ==
  ASSUME QueueInv, Consumer
  PROVE  [Client]_qvars
<1>1. CASE ConsGet \/ ConsEnd \/ ConsCheckInput \/ ConsCheckPipeline
  BY <1>1 DEF ConsGet, ConsEnd, ConsCheckInput, ConsCheckPipeline
<1>2. CASE ConsProcess
  \* Only a packet that exists is released.
  <2>1. data \in Frames
    BY <1>2 DEF ConsProcess, ReleasePacket, QueueInv, TypeOK
  <2> QED
    BY <1>2, <2>1 DEF ConsProcess, Client
<1>3. CASE ConsProcessThrow \/ ConsHalt \/ ConsClose \/ ConsFail \/ ConsJoin
  BY <1>3 DEF ConsProcessThrow, ConsHalt, ConsClose, ConsFail, ConsJoin
<1>4. CASE ConsCancel
  BY <1>4, CancelStep DEF ConsCancel
<1> QED
  BY <1>1, <1>2, <1>3, <1>4 DEF Consumer

LEMMA MainStep ==
  ASSUME Main
  PROVE  [Client]_qvars
<1>1. CASE MainJoins \/ MainStop \/ MainFinish \/ MainUnwind \/ MainFreePipeline
  BY <1>1 DEF MainJoins, MainStop, MainFinish, MainUnwind, MainFreePipeline
<1>2. CASE MainCancel
  BY <1>2, CancelStep DEF MainCancel
<1>3. CASE MainFreeQueue
  BY <1>3 DEF MainFreeQueue, Client
<1> QED
  BY <1>1, <1>2, <1>3 DEF Main

LEMMA ReferenceStep ==
  ASSUME QueueInv, LastReference
  PROVE  Client
<1>1. PICK f \in Unreferenced : DestroyPacket(f)
  BY DEF LastReference
<1>2. f \in Frames
  BY <1>1 DEF Unreferenced, QueueInv, TypeOK
<1> QED
  BY <1>1, <1>2 DEF Client

\* Every step of the program is a step of the queue's specification or leaves
\* the queue alone.
LEMMA QueueStep ==
  ASSUME QueueInv, [Next]_vars
  PROVE  [QNext]_qvars
<1>1. CASE LastReference
  BY <1>1, ReferenceStep DEF QNext
<1>2. CASE SourceWorker \/ Wakeup
  BY <1>2 DEF SourceWorker, Wakeup, QNext
<1>3. CASE RunOver \/ UNCHANGED vars
  BY <1>3 DEF RunOver, vars
<1>4. CASE Producer \/ Consumer \/ Main
  BY <1>4, ProducerStep, ConsumerStep, MainStep DEF QNext
<1>5. CASE \E w \in Workers : PipelineWorker(w)
  BY <1>5, PipelineStep DEF QNext
<1> QED
  BY <1>1, <1>2, <1>3, <1>4, <1>5 DEF Next

-----------------------------------------------------------------------------
\* RunEncode implements the queue's specification: all that is proved of the
\* queue under its most general callers holds of the encoder's threads
\* (Produce, the processor, consume_frame, the destructors).
THEOREM FrontEndUsesQueue == Spec => QSpec
<1>1. Init => QInit
  BY DEF Init
<1>2. Init => QueueInv
  BY <1>1, InitInv
<1>3. QueueInv /\ [Next]_vars => [QNext]_qvars
  BY QueueStep
<1>4. QueueInv /\ [Next]_vars => QueueInv'
  BY <1>3, InvStep
<1> QED
  BY <1>1, <1>2, <1>3, <1>4, PTL DEF Spec, QSpec

\* While the whole front end runs, fails and unwinds, no buffer that a packet
\* or the ready list holds is refilled (AcquireFreeSlot, Release).
THEOREM FrontEndFramesIntact == Spec => []FramesIntact
BY FrontEndUsesQueue, IntactCorrect, PTL

-----------------------------------------------------------------------------
\* The main thread goes on only after both threads ended.
JoinedFirst == main # "joins" => prod = "end" /\ cons = "end"

\* Two threads never join the pipeline's workers at once: RunEncode joins the
\* consumer before it looks at any error (StreamingPipeline::Stop).
THEOREM StopsAloneCorrect == Spec => []StopsAlone
<1>1. Init => JoinedFirst
  BY DEF Init, JoinedFirst
<1>2. JoinedFirst /\ [Next]_vars => JoinedFirst'
  <2> SUFFICES ASSUME JoinedFirst, [Next]_vars PROVE JoinedFirst'
    OBVIOUS
  <2> USE DEF prodVars, consVars, mainVars
  <2>1. CASE LastReference \/ SourceWorker \/ Wakeup \/ RunOver \/ UNCHANGED vars
    BY <2>1 DEF JoinedFirst, LastReference, SourceWorker, Wakeup, RunOver, vars
  <2>2. CASE Producer
    BY <2>2 DEF JoinedFirst, Producer, ProdLoop, ProdPop, ProdEof, ProdAdd, ProdRefused,
      ProdClose, ProdCancel, ProdFail, ProdGoto
  <2>3. CASE Consumer
    BY <2>3 DEF JoinedFirst, Consumer, ConsGet, ConsEnd, ConsCheckInput,
      ConsCheckPipeline, ConsProcess, ConsProcessThrow, ConsCancel, ConsHalt, ConsClose,
      ConsFail, ConsJoin, ConsGoto, OnlyConsumer
  <2>4. CASE Main
    BY <2>4 DEF JoinedFirst, Main, MainJoins, MainStop, MainFinish, MainUnwind,
      MainCancel, MainFreePipeline, MainFreeQueue, OnlyMain
  <2>5. CASE \E w \in Workers : PipelineWorker(w)
    BY <2>5 DEF JoinedFirst, PipelineWorker, WkPop, WkCheck, WkFlag, WkMotionThrow,
      WkCancel, WkHalt, WkClose, WkThrow, WkComplete, WkLeave, OnlyWorkers
  <2> QED
    BY <2>1, <2>2, <2>3, <2>4, <2>5 DEF Next
<1>3. JoinedFirst => StopsAlone
  BY DEF JoinedFirst, StopsAlone
<1> QED
  BY <1>1, <1>2, <1>3, PTL DEF Spec

-----------------------------------------------------------------------------
(* Least and greatest numbers, and the part of the reorder buffer that      *)
(* PublishReadyResults takes.                                               *)

\* A set of natural numbers that is not empty has a least one.
LEMMA LeastNumber ==
  ASSUME NEW S, S \subseteq Nat, S # {}
  PROVE  \E x \in S : \A y \in S : x <= y
<1>1. PICK x \in S : \A y \in S : ~ (<<y, x>> \in OpToRel(<, Nat))
  BY NatLessThanWellFounded, WFMin
<1>2. \A y \in S : y < x => <<y, x>> \in OpToRel(<, Nat)
  BY DEF OpToRel
<1>3. \A y \in S : ~(y < x)
  BY <1>1, <1>2, Zenon
<1> QED
  BY <1>3

\* One that is bounded has a greatest.
LEMMA GreatestNumber ==
  ASSUME NEW n \in Nat, NEW S, S \subseteq 0..n, S # {}
  PROVE  \E x \in S : \A y \in S : x >= y
<1> DEFINE T == {n - y : y \in S}
<1>1. \A y \in S : y \in 0..n /\ n - y \in Nat
  OBVIOUS
<1>2. T \subseteq Nat /\ T # {}
  BY <1>1
<1>3. PICK t \in T : \A u \in T : t <= u
  BY <1>2, LeastNumber
<1>4. PICK x \in S : t = n - x
  BY <1>3
<1>5. ASSUME NEW y \in S PROVE x >= y
  <2>1. n - y \in T
    OBVIOUS
  <2> QED
    BY <1>1, <1>3, <1>4, <2>1
<1> QED
  BY <1>5

\* Min and Max are what they are called.
LEMMA MinIsLeast ==
  ASSUME NEW S, S \subseteq Nat, S # {}
  PROVE  Min(S) \in S /\ \A y \in S : Min(S) <= y
BY LeastNumber DEF Min

LEMMA MaxIsGreatest ==
  ASSUME NEW n \in Nat, NEW S, S \subseteq 0..n, S # {}
  PROVE  Max(S) \in S /\ \A y \in S : Max(S) >= y
BY GreatestNumber DEF Max

\* An item of the pipeline whose result is not null.
Item == [frame : Int, stage : {"queued", "busy", "done"}]

\* Without null results the finished items are the longest prefix that is done.
LEMMA FinishedPrefix ==
  ASSUME NEW its \in Seq(Item)
  PROVE  /\ Finished(its) \in 0..Len(its)
         /\ \A i \in 1..Finished(its) : its[i].stage = "done"
         /\ Finished(its) < Len(its) => its[Finished(its) + 1].stage # "done"
<1> DEFINE S == {n \in 0..Len(its) : \A i \in 1..n : its[i].stage \in {"done", "null"}}
<1>1. Len(its) \in Nat /\ \A i \in 1..Len(its) : its[i].stage \in {"queued", "busy", "done"}
  <2>1. Len(its) \in Nat /\ \A i \in 1..Len(its) : its[i] \in Item
    OBVIOUS
  <2> QED
    BY <2>1 DEF Item
<1>2. S \subseteq 0..Len(its) /\ 0 \in S
  BY <1>1
<1>3. Max(S) \in S /\ \A y \in S : Max(S) >= y
  BY <1>1, <1>2, MaxIsGreatest
<1>4. Finished(its) = Max(S)
  BY DEF Finished
<1> DEFINE n == Max(S)
<1>5. n \in 0..Len(its) /\ \A i \in 1..n : its[i].stage \in {"done", "null"}
  BY <1>3
<1>6. \A i \in 1..n : its[i].stage = "done"
  BY <1>1, <1>5
<1>7. ASSUME n < Len(its), its[n + 1].stage = "done" PROVE FALSE
  <2>1. n + 1 \in 0..Len(its)
    BY <1>1, <1>5, <1>7
  <2>2. \A i \in 1..n + 1 : its[i].stage \in {"done", "null"}
    BY <1>1, <1>5, <1>7
  <2>3. n + 1 \in S
    BY <2>1, <2>2
  <2>4. Max(S) >= n + 1
    BY <1>3, <2>3
  <2> HIDE DEF S
  <2> QED
    BY <1>1, <1>5, <2>4
<1> QED
  BY <1>4, <1>5, <1>6, <1>7

\* The frames of a prefix, in their order.
LEMMA FramesOfPrefix ==
  ASSUME NEW its \in Seq(Item), NEW n \in 0..Len(its)
  PROVE  FramesOf(its, 1..n) = [k \in 1..n |-> its[k].frame]
<1>1. n \in Nat /\ IsFiniteSet(1..n) /\ Cardinality(1..n) = n
  BY FS_Interval
<1> DEFINE kth(k) == CHOOSE i \in 1..n : Cardinality((1..n) \cap 1..i) = k
<1>2. ASSUME NEW k \in 1..n PROVE kth(k) = k
  <2>1. ASSUME NEW i \in 1..n PROVE Cardinality((1..n) \cap 1..i) = i
    <3>1. (1..n) \cap 1..i = 1..i
      BY <1>1
    <3>2. Cardinality(1..i) = i
      BY <1>1, FS_Interval
    <3> QED
      BY <3>1, <3>2
  <2> QED
    BY <2>1
<1>3. FramesOf(its, 1..n) = [k \in 1..n |-> its[kth(k)].frame]
  BY <1>1 DEF FramesOf
<1> HIDE DEF kth
<1> QED
  BY <1>2, <1>3

\* PublishReadyResults while nobody failed: the finished items leave in their order.
LEMMA PublishFinished ==
  ASSUME NEW its \in Seq(Item), ~outputClosed, Publish(its)
  PROVE  LET n == Finished(its) IN
         /\ items' = SubSeq(its, n + 1, Len(its))
         /\ output' = output \o [k \in 1..n |-> its[k].frame]
<1>1. Results(its) = 1..Finished(its)
  BY FinishedPrefix DEF Results
<1> QED
  BY <1>1, FinishedPrefix, FramesOfPrefix DEF Publish

-----------------------------------------------------------------------------
(* What holds while the run goes well, fails and ends.                     *)

Working == {"check", "flag", "motion", "cancel", "halt", "close", "throw", "null"}

ThreadsTyped ==
  /\ prod \in {"loop", "pop", "close", "fail", "end"}
  /\ cons \in {"get", "check", "check2", "process", "cancel", "halt", "close", "fail",
               "join", "end"}
  /\ main \in {"joins", "stop", "joinWorkers", "unwind", "joinLast", "freePipeline",
               "freeQueue", "returned"}
  /\ at \in [Workers -> {"pop", "left"} \cup Working]
  /\ {running, inputClosed, outputClosed, firstError, prodError, consError, raised}
       \subseteq BOOLEAN

\* Some thread has cancelled the input queue because of an error.
Failed ==
  \/ prodError \/ prod = "fail"
  \/ consError \/ cons \in {"halt", "close", "fail", "join"}
  \/ firstError \/ \E w \in Workers : at[w] \in {"halt", "close", "throw"}

\* No failure stays without an exception in the queue, where both ends look for it.
FailuresShow ==
  /\ Failed => exception # "none"
  /\ raised => \/ exception # "none" \/ cons = "cancel"
               \/ \E w \in Workers : at[w] = "cancel"
  /\ \A w \in Workers : at[w] = "null" => exception # "none"

\* Nothing is stopped or closed before a failure or the end.
Stopping ==
  /\ ~running => Failed \/ main \in {"joinLast", "freePipeline", "freeQueue", "returned"}
  /\ stop => Failed \/ main \in {"freePipeline", "freeQueue", "returned"}
  /\ inputClosed => Failed \/ prod = "end"
  /\ outputClosed => Failed \/ AllLeft
  /\ at[worker1] = "left" => inputClosed

\* Who ends without a failure has seen the end of the stream.
Ending ==
  /\ prod \in {"close", "end"} =>
       \/ Failed
       \/ exception = "none" /\ worker = "done" /\ ready = <<>> /\ nextPop = reading
  /\ cons = "end" => Failed \/ (AllLeft /\ output = <<>>)
  /\ cons = "join" => consError
  /\ main # "joins" => prod = "end" /\ cons = "end"
  /\ main \in {"stop", "joinWorkers"} => ~prodError /\ ~consError
  /\ outcome = "ok" => /\ main \notin {"joins", "stop", "joinWorkers"} /\ AllLeft
                       /\ ~raised /\ worker = "done" /\ Len(encoded) = reading

Held == IF cons \in {"check", "check2", "process"} THEN 1 ELSE 0
InHand == IF prod = "pop" /\ popper[producer] = "frame" THEN 1 ELSE 0
\* The frames that were added to the pipeline.
Added == nextPop - InHand

\* Where the frames are as long as there is no exception: the codec has the first
\* ones, the pipeline the next ones in their order, and their packets exist.
FramesInLine ==
  /\ items \in Seq(Item) /\ output \in Seq(Int)
  /\ \A i \in DOMAIN items : items[i].frame = Added - Len(items) + i - 1
  /\ \A i \in DOMAIN output : output[i] = Added - Len(items) - Len(output) + i - 1
  /\ cons \in {"get", "check", "check2", "process", "end"} =>
       Len(encoded) + Held = Added - Len(items) - Len(output)
  /\ cons = "check" => data = Len(encoded)

PacketsAlive ==
  /\ \A i \in DOMAIN items : items[i].frame \in live
  /\ \A i \in DOMAIN output : output[i] \in live
  /\ InHand = 1 => nextPop - 1 \in live
  /\ cons = "check" => data \in live

\* Every input is on its way: the first one is not finished, and those in work are
\* in the hands of a worker.
NoneStranded ==
  /\ items # <<>> => items[1].stage # "done"
  /\ \A i \in DOMAIN items : items[i].stage = "busy" =>
       \E w \in Workers : at[w] \in Working /\ has[w] = items[i].frame
  /\ has \in [Workers -> Int]
  /\ at[worker1] = "left" => Queued = {}

StreamInv == exception = "none" => FramesInLine /\ PacketsAlive /\ NoneStranded

\* What the codec took, and what it is about to take, whoever fails meanwhile.
CodecInv ==
  /\ encoded \in Seq(Int) /\ \A i \in DOMAIN encoded : encoded[i] = i - 1
  /\ cons \in {"check2", "process"} => data = Len(encoded) /\ data \in live
  /\ \A f \in live : packet[f] = NoSlot => f < Len(encoded)

Control == ThreadsTyped /\ FailuresShow /\ Stopping /\ Ending
FrontInv == Control /\ StreamInv /\ CodecInv
-----------------------------------------------------------------------------
(* The threads, step by step.                                              *)

LEMMA WorkersThere == worker1 \in Workers /\ Workers # {}
BY FrontEndAssumption DEF worker1

\* A pipeline that nobody disturbed is empty when its workers have left.
LEMMA NothingLeft ==
  ASSUME ThreadsTyped, StreamInv, exception = "none", AllLeft
  PROVE  items = <<>>
<1> SUFFICES ASSUME items # <<>> PROVE FALSE
  OBVIOUS
<1>1. FramesInLine /\ NoneStranded
  BY DEF StreamInv
<1>2. 1 \in DOMAIN items /\ items[1] \in Item
  BY <1>1 DEF FramesInLine
<1>3. items[1].stage = "busy" \/ items[1].stage = "queued"
  BY <1>1, <1>2 DEF NoneStranded, Item
<1>4. items[1].stage # "queued"
  BY <1>1, <1>2, WorkersThere DEF NoneStranded, Queued, AllLeft
<1>5. PICK w \in Workers : at[w] \in Working
  BY <1>1, <1>2, <1>3, <1>4 DEF NoneStranded
<1> QED
  BY <1>5 DEF AllLeft, Working

LEMMA ControlProducer ==
  ASSUME QueueInv, Control, Producer
  PROVE  Control'
<1> USE DEF Control, ThreadsTyped, FailuresShow, Failed, Stopping, Ending, AllLeft,
            ProdGoto, pipeVars, consVars, mainVars, historyVars, prodVars
<1>1. CASE ProdLoop
  BY <1>1 DEF ProdLoop, PopCall, qvars, sharedVars, workerVars
<1>2. CASE ProdPop
  BY <1>2 DEF ProdPop, Pop, PopSleep, PopError, PopEof, PopFrame, TakeReady, NotifyProducer,
    sharedVars, workerVars
<1>3. CASE ProdEof
  BY <1>3, ProducerPops DEF ProdEof, qvars, sharedVars, workerVars, QueueInv, EofIsTheEnd
<1>4. CASE ProdAdd
  BY <1>4 DEF ProdAdd, qvars, sharedVars, workerVars
<1>5. CASE ProdRefused
  BY <1>5 DEF ProdRefused, qvars, sharedVars, workerVars
<1>6. CASE ProdClose
  BY <1>6 DEF ProdClose, CloseInput, qvars, sharedVars, workerVars
<1>7. CASE ProdCancel
  BY <1>7 DEF ProdCancel, Cancel, StopQueue, KeepFirst, NotifyProducer
<1>8. CASE ProdFail
  BY <1>8 DEF ProdFail, qvars, sharedVars, workerVars
<1> QED
  BY <1>1, <1>2, <1>3, <1>4, <1>5, <1>6, <1>7, <1>8 DEF Producer

LEMMA ControlPipeline ==
  ASSUME QueueInv, Control, NEW w \in Workers, PipelineWorker(w)
  PROVE  Control'
<1> USE WorkersThere DEF Control, ThreadsTyped, FailuresShow, Failed, Stopping, Ending,
      AllLeft, Working, WkGoto, OnlyWorkers, qvars, sharedVars, workerVars, consVars,
      mainVars, historyVars, prodVars
<1>1. CASE WkPop(w)
  BY <1>1 DEF WkPop
<1>2. CASE WkCheck(w)
  BY <1>2 DEF WkCheck
<1>3. CASE WkFlag(w)
  BY <1>3 DEF WkFlag
<1>4. CASE WkMotionThrow(w)
  BY <1>4 DEF WkMotionThrow
<1>5. CASE WkCancel(w)
  BY <1>5 DEF WkCancel, Cancel, StopQueue, KeepFirst, NotifyProducer
<1>6. CASE WkHalt(w)
  <2>1. /\ at[w] = "halt" /\ running' = FALSE /\ at' = [at EXCEPT ![w] = "close"]
        /\ UNCHANGED <<prod, prodError, cons, consError, main, outcome, raised, firstError,
                       exception, stop, inputClosed, outputClosed, worker, ready, nextPop,
                       reading, output, encoded>>
    BY <1>6 DEF WkHalt
  <2>2. /\ at' \in [Workers -> {"pop", "left"} \cup Working] /\ at'[w] = "close"
        /\ \A u \in Workers : u = w \/ at'[u] = at[u]
    BY <2>1
  <2>3. Failed /\ Failed' /\ ~AllLeft /\ ~AllLeft' /\ exception # "none"
    BY <2>1, <2>2
  <2>4. ThreadsTyped'
    BY <2>1, <2>2
  <2>5. FailuresShow' /\ Stopping'
    <3>1. worker1 = w \/ at'[worker1] = at[worker1]
      BY <2>2
    <3> QED
      BY <2>1, <2>2, <2>3, <3>1
  <2>6. Ending'
    BY <2>1, <2>3
  <2> QED
    BY <2>4, <2>5, <2>6
<1>7. CASE WkClose(w)
  BY <1>7 DEF WkClose
<1>8. CASE WkThrow(w)
  BY <1>8 DEF WkThrow
<1>9. CASE WkComplete(w)
  BY <1>9 DEF WkComplete
<1>10. CASE WkLeave(w)
  BY <1>10 DEF WkLeave
<1> QED
  BY <1>1, <1>2, <1>3, <1>4, <1>5, <1>6, <1>7, <1>8, <1>9, <1>10 DEF PipelineWorker

LEMMA ControlConsumer ==
  ASSUME QueueInv, Control, Consumer
  PROVE  Control'
<1> USE WorkersThere DEF Control, ThreadsTyped, FailuresShow, Failed, Stopping, Ending,
      AllLeft, ConsGoto, OnlyConsumer, pipeVars, qvars, sharedVars, workerVars, mainVars,
      historyVars, prodVars
<1>1. CASE ConsGet
  BY <1>1 DEF ConsGet
<1>2. CASE ConsEnd
  BY <1>2 DEF ConsEnd
<1>3. CASE ConsCheckInput
  BY <1>3 DEF ConsCheckInput
<1>4. CASE ConsCheckPipeline
  BY <1>4 DEF ConsCheckPipeline
<1>5. CASE ConsProcess
  <2> HIDE DEF Control, ThreadsTyped, FailuresShow, Failed, Stopping, Ending
  <2>1. /\ cons = "process" /\ cons' \in {"get", "cancel"}
        /\ UNCHANGED <<running, pipeVars, prodVars, mainVars, exception, stop, ready, nextPop,
                       reading, consError>>
    BY <1>5 DEF ConsProcess, ReleasePacket
  <2>2. raised' = raised \/ (raised' = TRUE /\ cons' = "cancel")
    BY <1>5 DEF ConsProcess
  <2>3. worker = "done" => worker' = "done"
    BY <1>5 DEF ConsProcess, ReleasePacket, ReleaseSlot, NotifyProducer
  <2>4. Failed' <=> Failed
    BY <2>1 DEF Failed
  <2>5. main = "joins" /\ outcome # "ok"
    BY <2>1 DEF Control, Ending
  <2>6. ThreadsTyped'
    BY <2>1, <2>2 DEF Control, ThreadsTyped
  <2>7. FailuresShow'
    BY <2>1, <2>2, <2>4 DEF Control, FailuresShow
  <2>8. Stopping' /\ Ending'
    BY <2>1, <2>3, <2>4, <2>5 DEF Control, Stopping, Ending
  <2> QED
    BY <2>6, <2>7, <2>8 DEF Control
<1>6. CASE ConsProcessThrow
  BY <1>6 DEF ConsProcessThrow
<1>7. CASE ConsCancel
  BY <1>7 DEF ConsCancel, Cancel, StopQueue, KeepFirst, NotifyProducer
<1>8. CASE ConsHalt
  BY <1>8 DEF ConsHalt
<1>9. CASE ConsClose
  BY <1>9 DEF ConsClose, CloseInput
<1>10. CASE ConsFail
  <2> HIDE DEF Control, ThreadsTyped, FailuresShow, Failed, Stopping, Ending
  <2>1. /\ cons = "fail" /\ cons' = "join" /\ running' = FALSE /\ consError' = TRUE
        /\ inputClosed' = TRUE /\ outputClosed' = TRUE
        /\ UNCHANGED <<qvars, items, output, firstError, at, has, prodVars, mainVars, raised>>
    BY <1>10 DEF ConsFail, ShutPipeline
  <2>2. Failed /\ Failed'
    BY <2>1 DEF Failed
  <2>3. main = "joins" /\ outcome # "ok"
    BY <2>1 DEF Control, Ending
  <2>4. ThreadsTyped' /\ FailuresShow'
    BY <2>1, <2>2 DEF Control, ThreadsTyped, FailuresShow
  <2>5. Stopping' /\ Ending'
    BY <2>1, <2>2, <2>3 DEF Control, Stopping, Ending
  <2> QED
    BY <2>4, <2>5 DEF Control
<1>11. CASE ConsJoin
  BY <1>11 DEF ConsJoin
<1> QED
  BY <1>1, <1>2, <1>3, <1>4, <1>5, <1>6, <1>7, <1>8, <1>9, <1>10, <1>11 DEF Consumer

LEMMA ControlMain ==
  ASSUME QueueInv, Control, StreamInv, Main
  PROVE  Control'
<1> USE WorkersThere DEF Control, ThreadsTyped, FailuresShow, Failed, Stopping, Ending,
      AllLeft, OnlyMain, pipeVars, qvars, sharedVars, workerVars, consVars, historyVars,
      prodVars
<1>1. CASE MainJoins
  BY <1>1 DEF MainJoins
<1>2. CASE MainStop
  BY <1>2 DEF MainStop, ShutPipeline
<1>3. CASE MainFinish
  <2>1. CASE outcome' # "ok"
    BY <1>3, <2>1 DEF MainFinish
  <2>2. CASE outcome' = "ok"
    <3>1. ~Failed /\ prod = "end" /\ cons = "end" /\ AllLeft
      BY <1>3, <2>2 DEF MainFinish
    <3>2. exception = "none" /\ worker = "done" /\ nextPop = reading /\ output = <<>>
      BY <3>1
    <3>3. items = <<>>
      BY <3>1, <3>2, NothingLeft
    <3>4. Len(encoded) = reading
      BY <3>1, <3>2, <3>3 DEF StreamInv, FramesInLine, Held, InHand, Added, QueueInv, TypeOK
    <3>5. ~raised
      BY <3>1, <3>2
    <3> QED
      BY <1>3, <3>1, <3>2, <3>4, <3>5 DEF MainFinish
  <2> QED
    BY <2>1, <2>2
<1>4. CASE MainUnwind
  BY <1>4 DEF MainUnwind, ShutPipeline
<1>5. CASE MainCancel
  BY <1>5 DEF MainCancel, Cancel, StopQueue, KeepFirst, NotifyProducer
<1>6. CASE MainFreePipeline
  BY <1>6 DEF MainFreePipeline
<1>7. CASE MainFreeQueue
  BY <1>7 DEF MainFreeQueue, DestroyCall, DestroyReturn, StopQueue, NotifyProducer
<1> QED
  BY <1>1, <1>2, <1>3, <1>4, <1>5, <1>6, <1>7 DEF Main

LEMMA ControlOthers ==
  ASSUME QueueInv, Control,
         LastReference \/ SourceWorker \/ Wakeup \/ RunOver \/ UNCHANGED vars
  PROVE  Control'
<1> USE DEF Control, ThreadsTyped, FailuresShow, Failed, Stopping, Ending, AllLeft,
      pipeVars, consVars, mainVars, historyVars, prodVars
<1>1. CASE LastReference
  BY <1>1 DEF LastReference, DestroyPacket, ReleaseSlot, NotifyProducer
<1>2. CASE SourceWorker
  <2>1. worker # "done" /\ exception' \in {exception, "source"}
        /\ (exception # "none" => exception' = exception) /\ stop' = stop
    BY <1>2 DEF SourceWorker, Worker, WorkerAcquire, WorkerLoopEnds, WorkerRead, WorkerReadEnd,
      WorkerThrow, WorkerReturnSlot, WorkerPush, WorkerClose, WorkerFinish, KeepFirst,
      sharedVars
  <2> QED
    BY <1>2, <2>1 DEF SourceWorker
<1>3. CASE Wakeup
  BY <1>3 DEF Wakeup, SpuriousWakeup, NotifyProducer, sharedVars, workerVars
<1>4. CASE RunOver \/ UNCHANGED vars
  BY <1>4 DEF RunOver, vars, qvars, sharedVars, workerVars
<1> QED
  BY <1>1, <1>2, <1>3, <1>4
-----------------------------------------------------------------------------
(* The frames on their way.                                                *)

LEMMA LineQuiet ==
  ASSUME FramesInLine, UNCHANGED <<items, output, encoded, cons, data>>, Added' = Added
  PROVE  FramesInLine'
BY DEF FramesInLine, Held

LEMMA AliveQuiet ==
  ASSUME PacketsAlive, UNCHANGED <<items, output, cons, data>>, live \subseteq live',
         InHand' = 1 => nextPop' - 1 \in live'
  PROVE  PacketsAlive'
BY DEF PacketsAlive

LEMMA StrandedQuiet ==
  ASSUME NoneStranded, UNCHANGED <<items, has>>,
         \A w \in Workers : at[w] \in Working => at'[w] \in Working,
         at'[worker1] = "left" => at[worker1] = "left"
  PROVE  NoneStranded'
BY DEF NoneStranded, Queued

\* The steps of the others leave the producer's frame and the packets alone.
LEMMA OthersLeavePackets ==
  ASSUME QueueInv, SourceWorker \/ Wakeup \/ Main \/ RunOver \/ UNCHANGED vars
  PROVE  /\ UNCHANGED <<live, packet, nextPop>>
         /\ popper'[producer] = "frame" <=> popper[producer] = "frame"
<1> USE ProducerPops DEF QueueInv, TypeOK, Returned, InPop, sharedVars, workerVars, clientVars
<1>1. CASE SourceWorker
  BY <1>1 DEF SourceWorker, Worker, WorkerAcquire, WorkerLoopEnds, WorkerRead, WorkerReadEnd,
    WorkerThrow, WorkerReturnSlot, WorkerPush, WorkerClose, WorkerFinish, NotifyOneConsumer,
    NotifyConsumers, Asleep
<1>2. CASE Wakeup
  BY <1>2 DEF Wakeup, SpuriousWakeup, Asleep
<1>3. CASE MainCancel \/ MainFreeQueue
  BY <1>3 DEF MainCancel, MainFreeQueue, Cancel, DestroyCall, DestroyReturn, StopQueue,
    NotifyConsumers, Asleep
<1>4. CASE RunOver \/ UNCHANGED vars \/ MainJoins \/ MainStop \/ MainFinish \/ MainUnwind
             \/ MainFreePipeline
  BY <1>4 DEF RunOver, vars, MainJoins, MainStop, MainFinish, MainUnwind, MainFreePipeline,
    qvars
<1> QED
  BY <1>1, <1>2, <1>3, <1>4 DEF Main

LEMMA StreamOthers ==
  ASSUME QueueInv, Control, StreamInv,
         SourceWorker \/ Wakeup \/ Main \/ RunOver \/ UNCHANGED vars
  PROVE  StreamInv'
<1> SUFFICES ASSUME exception' = "none"
             PROVE  FramesInLine' /\ PacketsAlive' /\ NoneStranded'
  BY DEF StreamInv
<1>1. exception = "none" /\ UNCHANGED <<prod, cons, data, encoded, has, at>>
  BY DEF SourceWorker, Worker, WorkerAcquire, WorkerLoopEnds, WorkerRead, WorkerReadEnd,
    WorkerThrow, WorkerReturnSlot, WorkerPush, WorkerClose, WorkerFinish, Wakeup,
    SpuriousWakeup, RunOver, vars, qvars, sharedVars, workerVars, pipeVars, consVars,
    prodVars, historyVars, KeepFirst, Main, MainJoins, MainStop, MainFinish, MainUnwind,
    MainFreePipeline, MainCancel, MainFreeQueue, Cancel, DestroyCall, DestroyReturn, OnlyMain,
    ShutPipeline
<1>2. FramesInLine /\ PacketsAlive /\ NoneStranded
  BY <1>1 DEF StreamInv
<1>3. /\ UNCHANGED <<live, packet, nextPop>>
      /\ popper'[producer] = "frame" <=> popper[producer] = "frame"
  BY OthersLeavePackets
<1>4. Added' = Added /\ InHand' = InHand
  BY <1>1, <1>3 DEF Added, InHand
<1>5. UNCHANGED <<items, output>>
  <2>1. CASE MainFreePipeline
    <3>1. cons = "end" /\ ~Failed
      BY <1>1, <2>1 DEF Control, Ending, FailuresShow, MainFreePipeline
    <3>2. output = <<>> /\ AllLeft
      BY <3>1 DEF Control, Ending
    <3>3. items = <<>>
      BY <1>1, <3>2, NothingLeft DEF Control
    <3> QED
      BY <2>1, <3>2, <3>3 DEF MainFreePipeline
  <2>2. CASE ~MainFreePipeline
    BY <2>2 DEF SourceWorker, Wakeup, RunOver, vars, pipeVars, Main, MainJoins, MainStop,
      MainFinish, MainUnwind, MainCancel, MainFreeQueue, ShutPipeline
  <2> QED
    BY <2>1, <2>2
<1>6. FramesInLine'
  BY <1>1, <1>2, <1>4, <1>5, LineQuiet
<1>7. PacketsAlive'
  BY <1>1, <1>2, <1>3, <1>4, <1>5, AliveQuiet DEF PacketsAlive
<1>8. NoneStranded'
  BY <1>1, <1>2, <1>5, StrandedQuiet
<1> QED
  BY <1>6, <1>7, <1>8

LEMMA StreamDestroy ==
  ASSUME QueueInv, Control, StreamInv, LastReference
  PROVE  StreamInv'
<1> SUFFICES ASSUME exception' = "none"
             PROVE  FramesInLine' /\ PacketsAlive' /\ NoneStranded'
  BY DEF StreamInv
<1>1. PICK f \in Unreferenced : DestroyPacket(f)
  BY DEF LastReference
<1>2. /\ UNCHANGED <<exception, popper, nextPop, items, output, encoded, cons, data, prod, at,
                     has>>
      /\ live' = live \ {f}
  BY <1>1 DEF LastReference, DestroyPacket, pipeVars, consVars, prodVars, historyVars
<1>3. FramesInLine /\ PacketsAlive /\ NoneStranded
  BY <1>2 DEF StreamInv
<1>4. Added' = Added /\ InHand' = InHand
  BY <1>2 DEF Added, InHand
<1>5. f # data /\ f \notin Range(output) /\ (InHand = 1 => f # nextPop - 1)
  BY <1>1 DEF Unreferenced, Referenced, InHand
<1>6. \A i \in DOMAIN items : items[i].frame # f
  <2> SUFFICES ASSUME NEW i \in DOMAIN items, items[i].frame = f PROVE FALSE
    OBVIOUS
  <2>1. items[i] \in Item /\ items[i] \in Range(items)
    BY <1>3 DEF FramesInLine, Range
  <2>2. items[i].stage # "null"
    BY <2>1 DEF Item
  <2> QED
    BY <1>1, <2>1, <2>2 DEF Unreferenced, Referenced
<1>7. \A i \in DOMAIN output : output[i] # f
  BY <1>5 DEF Range
<1>8. PacketsAlive'
  BY <1>2, <1>3, <1>4, <1>5, <1>6, <1>7 DEF PacketsAlive
<1> QED
  BY <1>2, <1>3, <1>4, <1>8, LineQuiet, StrandedQuiet

\* A step that leaves the frames of the stream where they are, but for a frame that
\* Pop hands to the producer.
LEMMA StreamQuiet ==
  ASSUME QueueInv, StreamInv, exception' = "none" => exception = "none",
         UNCHANGED <<items, output, encoded, cons, data, has>>, Added' = Added,
         live \subseteq live', InHand' = 1 => nextPop' - 1 \in live',
         \A w \in Workers : at[w] \in Working => at'[w] \in Working,
         at'[worker1] = "left" => at[worker1] = "left"
  PROVE  StreamInv'
BY LineQuiet, AliveQuiet, StrandedQuiet DEF StreamInv

LEMMA PopTakes ==
  ASSUME QueueInv, prod = "pop", prod' = "pop", Pop(producer)
  PROVE  /\ exception' = exception /\ live \subseteq live' /\ Added' = Added
         /\ InHand' = 1 => nextPop' - 1 \in live'
<1> USE ProducerPops DEF QueueInv, TypeOK, Added, InHand, Returned, InPop, sharedVars,
      workerVars, clientVars
<1>1. CASE PopSleep(producer) \/ PopError(producer) \/ PopEof(producer)
  BY <1>1 DEF PopSleep, PopError, PopEof
<1>2. CASE PopFrame(producer)
  <2>1. /\ ready # <<>> /\ nextPop' = ready[1].frame + 1
        /\ live' = live \cup {ready[1].frame}
        /\ popper[producer] = "pop" /\ popper'[producer] = "frame" /\ exception' = exception
    BY <1>2 DEF PopFrame, TakeReady
  <2>2. ready[1].frame = nextPop /\ nextPop \in Int
    <3>1. ready \in Seq([frame : Frames, slot : Slots]) /\ nextPop \in 0..FramesToAttempt
      OBVIOUS
    <3>2. 1 \in DOMAIN ready
      BY <2>1, <3>1
    <3>3. ready[1].frame = nextPop + 1 - 1
      BY <3>2 DEF FramesInOrder
    <3> QED
      BY <3>1, <3>3, QueueAssumption
  <2> QED
    BY <2>1, <2>2
<1> QED
  BY <1>1, <1>2 DEF Pop

\* AddInput gives the frame in hand a place at the end of the line.
LEMMA AddStep ==
  ASSUME QueueInv, Control, StreamInv, ProdAdd
  PROVE  StreamInv'
<1> SUFFICES ASSUME exception' = "none"
             PROVE  FramesInLine' /\ PacketsAlive' /\ NoneStranded'
  BY DEF StreamInv
<1> DEFINE new == [frame |-> nextPop - 1, stage |-> "queued"]
<1>1. /\ items' = Append(items, new) /\ ~inputClosed /\ prod' = "loop"
      /\ InHand = 1
      /\ UNCHANGED <<exception, popper, nextPop, live, output, encoded, cons, data, at, has>>
  BY DEF ProdAdd, ProdGoto, InHand, qvars, sharedVars, clientVars, consVars, historyVars
<1>2. FramesInLine /\ PacketsAlive /\ NoneStranded
  BY <1>1 DEF StreamInv
<1>3. nextPop \in Int /\ new \in Item
  BY QueueAssumption DEF QueueInv, TypeOK, Item
<1>4. Added = nextPop - 1 /\ Added' = nextPop /\ InHand' = 0
  BY <1>1, <1>3 DEF Added, InHand
<1>5. items \in Seq(Item) /\ output \in Seq(Int)
  BY <1>2 DEF FramesInLine
<1>6. /\ items' \in Seq(Item) /\ Len(items) \in Nat /\ Len(items') = Len(items) + 1
      /\ items'[Len(items) + 1] = new /\ \A i \in 1..Len(items) : items'[i] = items[i]
      /\ DOMAIN items = 1..Len(items) /\ DOMAIN items' = 1..Len(items) + 1
  BY <1>1, <1>3, <1>5
<1>7. Len(output) \in Nat /\ DOMAIN output = 1..Len(output)
  BY <1>5
<1>8. new.frame = nextPop - 1 /\ new.stage = "queued"
  OBVIOUS
<1> HIDE DEF new
<1>9. FramesInLine'
  <2>1. ASSUME NEW i \in DOMAIN items'
        PROVE  items'[i].frame = Added' - Len(items') + i - 1
    <3>1. CASE i \in 1..Len(items)
      BY <1>2, <1>3, <1>4, <1>6, <3>1 DEF FramesInLine
    <3>2. CASE i = Len(items) + 1
      BY <1>3, <1>4, <1>6, <1>8, <3>2
    <3> QED
      BY <1>6, <3>1, <3>2
  <2>2. Added' - Len(items') = Added - Len(items)
    BY <1>3, <1>4, <1>6
  <2> QED
    BY <1>1, <1>2, <1>5, <1>6, <2>1, <2>2 DEF FramesInLine, Held
<1>10. PacketsAlive'
  <2>1. nextPop - 1 \in live
    BY <1>1, <1>2 DEF PacketsAlive
  <2> QED
    BY <1>1, <1>2, <1>4, <1>6, <1>8, <2>1 DEF PacketsAlive
<1>11. NoneStranded'
  <2>1. at[worker1] # "left"
    BY <1>1 DEF Control, Stopping
  <2>2. items'[1].stage # "done"
    <3>1. CASE items = <<>>
      BY <1>6, <1>8, <3>1
    <3>2. CASE items # <<>>
      BY <1>2, <1>5, <1>6, <3>2 DEF NoneStranded
    <3> QED
      BY <3>1, <3>2
  <2>3. ASSUME NEW i \in DOMAIN items', items'[i].stage = "busy"
        PROVE  \E w \in Workers : at'[w] \in Working /\ has'[w] = items'[i].frame
    <3>1. i \in DOMAIN items /\ items[i] = items'[i]
      BY <1>6, <1>8, <2>3
    <3> QED
      BY <1>1, <1>2, <2>3, <3>1 DEF NoneStranded
  <2> QED
    BY <1>1, <1>2, <2>1, <2>2, <2>3 DEF NoneStranded
<1> QED
  BY <1>9, <1>10, <1>11

LEMMA StreamProducer ==
  ASSUME QueueInv, Control, StreamInv, Producer
  PROVE  StreamInv'
<1> USE DEF consVars, historyVars, pipeVars, ProdGoto
<1>1. CASE ProdLoop
  BY <1>1, StreamQuiet, ProducerPops DEF ProdLoop, PopCall, Returned, InHand, Added, qvars,
    sharedVars, workerVars, clientVars, QueueInv, TypeOK
<1>2. CASE ProdPop
  BY <1>2, StreamQuiet, PopTakes DEF ProdPop, prodVars
<1>3. CASE ProdEof \/ ProdClose
  BY <1>3, StreamQuiet DEF ProdEof, ProdClose, CloseInput, InHand, Added, qvars, sharedVars,
    workerVars, clientVars
<1>4. CASE ProdAdd
  BY <1>4, AddStep
<1>5. CASE ProdRefused
  <2>1. exception # "none" /\ exception' = exception
    BY <1>5 DEF ProdRefused, Control, Stopping, FailuresShow, qvars, sharedVars
  <2> QED
    BY <2>1 DEF StreamInv
<1>6. CASE ProdCancel
  BY <1>6 DEF ProdCancel, Cancel, KeepFirst, StreamInv
<1>7. CASE ProdFail
  BY <1>7 DEF ProdFail, Control, FailuresShow, Failed, StreamInv, qvars, sharedVars
<1> QED
  BY <1>1, <1>2, <1>3, <1>4, <1>5, <1>6, <1>7 DEF Producer

\* A worker takes the oldest input that nobody has taken.
LEMMA TakeStep ==
  ASSUME QueueInv, Control, StreamInv, NEW w \in Workers, WkPop(w)
  PROVE  StreamInv'
<1> SUFFICES ASSUME exception' = "none"
             PROVE  FramesInLine' /\ PacketsAlive' /\ NoneStranded'
  BY DEF StreamInv
<1> DEFINE i == Min(Queued)
<1>1. /\ at[w] = "pop" /\ Queued # {}
      /\ items' = [items EXCEPT ![i].stage = "busy"]
      /\ has' = [has EXCEPT ![w] = items[i].frame]
      /\ at' = [at EXCEPT ![w] = "check"]
      /\ UNCHANGED <<exception, popper, nextPop, live, output, encoded, cons, data, prod>>
  BY DEF WkPop, WkGoto, OnlyWorkers, qvars, sharedVars, clientVars, consVars, prodVars,
    historyVars
<1>2. FramesInLine /\ PacketsAlive /\ NoneStranded
  BY <1>1 DEF StreamInv
<1>3. items \in Seq(Item) /\ Len(items) \in Nat /\ DOMAIN items = 1..Len(items)
  BY <1>2 DEF FramesInLine
<1>4. Queued \subseteq 1..Len(items)
  BY <1>3 DEF Queued
<1>5. i \in Queued
  BY <1>1, <1>3, <1>4, MinIsLeast
<1>6. i \in 1..Len(items) /\ items[i].stage = "queued"
  BY <1>4, <1>5 DEF Queued
<1> HIDE DEF i
<1>7. \A j \in 1..Len(items) : items[j] \in Item
  BY <1>3
<1>8. DOMAIN items' = 1..Len(items) /\ Len(items') = Len(items) /\ items' \in Seq(Item)
  <2>1. [items[i] EXCEPT !.stage = "busy"] \in Item
    BY <1>6, <1>7 DEF Item
  <2> QED
    BY <1>1, <1>3, <1>6, <2>1
<1>9. /\ \A j \in 1..Len(items) : items'[j].frame = items[j].frame
      /\ items'[i].stage = "busy"
      /\ \A j \in 1..Len(items) : j # i => items'[j] = items[j]
  BY <1>1, <1>3, <1>6, <1>7 DEF Item
<1>10. Added' = Added /\ InHand' = InHand
  BY <1>1 DEF Added, InHand
<1>11. FramesInLine'
  BY <1>1, <1>2, <1>3, <1>8, <1>9, <1>10 DEF FramesInLine, Held
<1>12. PacketsAlive'
  BY <1>1, <1>2, <1>3, <1>8, <1>9, <1>10 DEF PacketsAlive
<1>13. NoneStranded'
  <2>1. items[i].frame \in Int /\ has \in [Workers -> Int] /\ at \in [Workers -> {"pop", "left"} \cup Working]
    BY <1>2, <1>6, <1>7 DEF NoneStranded, Item, Control, ThreadsTyped
  <2>2. has' \in [Workers -> Int] /\ has'[w] = items[i].frame /\ at'[w] = "check"
        /\ \A v \in Workers : v # w => has'[v] = has[v] /\ at'[v] = at[v]
    BY <1>1, <2>1
  <2>3. items'[1].stage # "done"
    BY <1>2, <1>3, <1>6, <1>9 DEF NoneStranded
  <2>4. ASSUME NEW j \in DOMAIN items', items'[j].stage = "busy"
        PROVE  \E v \in Workers : at'[v] \in Working /\ has'[v] = items'[j].frame
    <3>1. CASE j = i
      BY <1>6, <1>9, <2>2, <3>1 DEF Working
    <3>2. CASE j # i
      <4>1. j \in DOMAIN items /\ items'[j] = items[j]
        BY <1>3, <1>8, <1>9, <3>2
      <4>2. PICK v \in Workers : at[v] \in Working /\ has[v] = items[j].frame
        BY <1>2, <2>4, <4>1 DEF NoneStranded
      <4>3. v # w
        BY <1>1, <4>2 DEF Working
      <4> QED
        BY <2>2, <4>1, <4>2, <4>3
    <3> QED
      BY <3>1, <3>2
  <2>5. at'[worker1] # "left"
    <3>1. at[worker1] # "left"
      BY <1>1, <1>2 DEF NoneStranded
    <3> QED
      BY <2>2, <3>1, WorkersThere
  <2> QED
    BY <2>2, <2>3, <2>4, <2>5 DEF NoneStranded
<1> QED
  BY <1>11, <1>12, <1>13

\* What PublishReadyResults leaves and what it adds to the output.
LEMMA PublishedElements ==
  ASSUME NEW its \in Seq(Item), NEW n \in 0..Len(its), output \in Seq(Int),
         items' = SubSeq(its, n + 1, Len(its)),
         output' = output \o [k \in 1..n |-> its[k].frame]
  PROVE  /\ Len(its) \in Nat /\ Len(output) \in Nat
         /\ items' \in Seq(Item) /\ Len(items') = Len(its) - n
         /\ DOMAIN items' = 1..Len(its) - n
         /\ \A j \in 1..Len(its) - n : items'[j] = its[j + n]
         /\ output' \in Seq(Int) /\ Len(output') = Len(output) + n
         /\ DOMAIN output' = 1..Len(output) + n
         /\ \A j \in 1..Len(output) : output'[j] = output[j]
         /\ \A j \in 1..n : output'[Len(output) + j] = its[j].frame
<1>1. Len(its) \in Nat /\ Len(output) \in Nat /\ n \in Nat
      /\ \A j \in 1..Len(its) : its[j] \in Item
  OBVIOUS
<1>2. /\ items' \in Seq(Item) /\ Len(items') = Len(its) - n
      /\ \A j \in 1..Len(its) - n : items'[j] = its[j + n]
  BY <1>1
<1> DEFINE more == [k \in 1..n |-> its[k].frame]
<1>3. more \in Seq(Int) /\ Len(more) = n /\ \A k \in 1..n : more[k] = its[k].frame
  <2>1. ASSUME NEW k \in 1..n PROVE its[k].frame \in Int
    <3>1. k \in 1..Len(its)
      BY <1>1
    <3> QED
      BY <1>1, <3>1 DEF Item
  <2>2. more \in [1..n -> Int]
    BY <2>1
  <2> QED
    BY <1>1, <2>2
<1>4. output' = output \o more
  OBVIOUS
<1> HIDE DEF more
<1>5. /\ output' \in Seq(Int) /\ Len(output') = Len(output) + n
      /\ \A j \in 1..Len(output) : output'[j] = output[j]
      /\ \A j \in 1..n : output'[Len(output) + j] = more[j]
  BY <1>1, <1>3, <1>4, SMTT(60)
<1> QED
  BY <1>1, <1>2, <1>3, <1>5

\* A worker hands in its result, and what is finished at the front goes out.
LEMMA CompleteStep ==
  ASSUME QueueInv, Control, StreamInv, NEW w \in Workers, WkComplete(w)
  PROVE  StreamInv'
<1> SUFFICES ASSUME exception' = "none"
             PROVE  FramesInLine' /\ PacketsAlive' /\ NoneStranded'
  BY DEF StreamInv
<1>1. /\ at[w] \in {"motion", "null"} /\ at' = [at EXCEPT ![w] = "pop"]
      /\ UNCHANGED <<exception, popper, nextPop, live, encoded, cons, data, prod, has,
                     outputClosed>>
  BY DEF WkComplete, WkGoto, OnlyWorkers, qvars, sharedVars, clientVars, consVars, prodVars,
    historyVars
<1>2. FramesInLine /\ PacketsAlive /\ NoneStranded
  BY <1>1 DEF StreamInv
<1>3. at[w] = "motion" /\ ~outputClosed
  BY <1>1 DEF Control, FailuresShow, Stopping, AllLeft
<1>4. items \in Seq(Item) /\ output \in Seq(Int) /\ Len(items) \in Nat
      /\ DOMAIN items = 1..Len(items) /\ Len(output) \in Nat
      /\ DOMAIN output = 1..Len(output)
  BY <1>2 DEF FramesInLine
<1>5. PICK i \in 1..Len(items) :
        items[i].frame = has[w] /\ Publish([items EXCEPT ![i].stage = "done"])
  BY <1>3, <1>4 DEF WkComplete
<1> DEFINE its == [items EXCEPT ![i].stage = "done"]
<1>6. /\ its \in Seq(Item) /\ Len(its) = Len(items)
      /\ its[i].stage = "done"
      /\ \A j \in 1..Len(items) : its[j].frame = items[j].frame
      /\ \A j \in 1..Len(items) : j # i => its[j] = items[j]
  <2>1. \A j \in 1..Len(items) : items[j] \in Item
    BY <1>4
  <2>2. [items[i] EXCEPT !.stage = "done"] \in Item
    BY <2>1 DEF Item
  <2> QED
    BY <1>4, <2>1, <2>2 DEF Item
<1>7. Publish(its)
  BY <1>5
<1> HIDE DEF its
<1> DEFINE n == Finished(its)
<1>8. /\ n \in 0..Len(its) /\ (n < Len(its) => its[n + 1].stage # "done")
      /\ items' = SubSeq(its, n + 1, Len(its))
      /\ output' = output \o [k \in 1..n |-> its[k].frame]
  BY <1>3, <1>6, <1>7, FinishedPrefix, PublishFinished
<1> HIDE DEF n
<1>9. /\ items' \in Seq(Item) /\ Len(items') = Len(items) - n
      /\ DOMAIN items' = 1..Len(items) - n
      /\ \A j \in 1..Len(items) - n : items'[j] = its[j + n]
      /\ output' \in Seq(Int) /\ Len(output') = Len(output) + n
      /\ DOMAIN output' = 1..Len(output) + n
      /\ \A j \in 1..Len(output) : output'[j] = output[j]
      /\ \A j \in 1..n : output'[Len(output) + j] = items[j].frame
  <2>1. n \in Nat /\ \A j \in 1..n : j \in 1..Len(items)
    BY <1>4, <1>6, <1>8
  <2>2. /\ items' \in Seq(Item) /\ Len(items') = Len(its) - n
        /\ DOMAIN items' = 1..Len(its) - n
        /\ \A j \in 1..Len(its) - n : items'[j] = its[j + n]
        /\ output' \in Seq(Int) /\ Len(output') = Len(output) + n
        /\ DOMAIN output' = 1..Len(output) + n
        /\ \A j \in 1..Len(output) : output'[j] = output[j]
        /\ \A j \in 1..n : output'[Len(output) + j] = its[j].frame
    BY <1>4, <1>6, <1>8, PublishedElements
  <2> QED
    BY <1>6, <2>1, <2>2
<1>10. n \in Nat /\ n <= Len(items) /\ Added \in Int
  BY <1>4, <1>6, <1>8, QueueAssumption DEF Added, InHand, QueueInv, TypeOK
<1>11. Added' = Added /\ InHand' = InHand
  BY <1>1 DEF Added, InHand
<1>12. \A j \in 1..Len(items) - n :
         /\ j + n \in 1..Len(items) /\ items'[j].frame = items[j + n].frame
         /\ (j + n # i => items'[j] = items[j + n])
         /\ (j + n = i => items'[j].stage = "done")
  <2> SUFFICES ASSUME NEW j \in 1..Len(items) - n
               PROVE  /\ j + n \in 1..Len(items) /\ items'[j].frame = items[j + n].frame
                      /\ (j + n # i => items'[j] = items[j + n])
                      /\ (j + n = i => items'[j].stage = "done")
    OBVIOUS
  <2>1. j + n \in 1..Len(items)
    BY <1>4, <1>10
  <2> QED
    BY <1>6, <1>9, <2>1
<1>13. ASSUME NEW j \in 1..Len(output) + n
       PROVE  \/ j \in 1..Len(output) /\ output'[j] = output[j]
              \/ \E k \in 1..n : k = j - Len(output) /\ k \in 1..Len(items)
                                 /\ output'[j] = items[k].frame
  <2>1. CASE j \in 1..Len(output)
    BY <1>9, <2>1
  <2>2. CASE j \notin 1..Len(output)
    <3> DEFINE k == j - Len(output)
    <3>1. k \in 1..n /\ k \in 1..Len(items) /\ Len(output) + k = j
      BY <1>4, <1>10, <2>2
    <3>2. output'[Len(output) + k] = items[k].frame
      BY <1>9, <3>1
    <3> QED
      BY <3>1, <3>2
  <2> QED
    BY <2>1, <2>2
<1>14. \A j \in 1..Len(items) : items[j].frame = Added - Len(items) + j - 1
  BY <1>2, <1>4 DEF FramesInLine
<1>15. \A j \in 1..Len(output) : output[j] = Added - Len(items) - Len(output) + j - 1
  BY <1>2, <1>4 DEF FramesInLine
<1>16. FramesInLine'
  <2>1. ASSUME NEW j \in 1..Len(items) - n
        PROVE  items'[j].frame = Added - (Len(items) - n) + j - 1
    <3>1. items'[j].frame = Added - Len(items) + (j + n) - 1
      BY <1>12, <1>14
    <3> QED
      BY <1>4, <1>10, <3>1
  <2>2. ASSUME NEW j \in 1..Len(output) + n
        PROVE  output'[j] = Added - (Len(items) - n) - (Len(output) + n) + j - 1
    <3>1. CASE j \in 1..Len(output) /\ output'[j] = output[j]
      BY <1>4, <1>10, <1>15, <3>1
    <3>2. ASSUME NEW k \in 1..n, k = j - Len(output), k \in 1..Len(items),
                 output'[j] = items[k].frame
          PROVE  output'[j] = Added - (Len(items) - n) - (Len(output) + n) + j - 1
      BY <1>4, <1>10, <1>14, <3>2
    <3> QED
      BY <1>13, <3>1, <3>2
  <2>3. Added - (Len(items) - n) - (Len(output) + n) = Added - Len(items) - Len(output)
    BY <1>4, <1>10
  <2> QED
    BY <1>1, <1>2, <1>9, <1>11, <2>1, <2>2, <2>3 DEF FramesInLine, Held
<1>17. PacketsAlive'
  <2>1. /\ \A j \in 1..Len(items) : items[j].frame \in live
        /\ \A j \in 1..Len(output) : output[j] \in live
        /\ InHand = 1 => nextPop - 1 \in live
        /\ cons = "check" => data \in live
    BY <1>2, <1>4 DEF PacketsAlive
  <2>2. \A j \in 1..Len(items) - n : items'[j].frame \in live
    BY <1>12, <2>1
  <2>3. ASSUME NEW j \in 1..Len(output) + n
        PROVE  output'[j] \in live
    <3>1. \/ j \in 1..Len(output) /\ output'[j] = output[j]
          \/ \E k \in 1..n : k \in 1..Len(items) /\ output'[j] = items[k].frame
      BY <1>13
    <3> QED
      BY <2>1, <3>1
  <2>4. /\ \A j \in DOMAIN items' : items'[j].frame \in live'
        /\ \A j \in DOMAIN output' : output'[j] \in live'
    BY <1>1, <1>9, <2>2, <2>3
  <2>5. (InHand' = 1 => nextPop' - 1 \in live') /\ (cons' = "check" => data' \in live')
    BY <1>1, <1>11, <2>1
  <2> QED
    BY <2>4, <2>5 DEF PacketsAlive
<1>18. NoneStranded'
  <2>1. items' # <<>> => items'[1].stage # "done"
    <3> SUFFICES ASSUME items' # <<>> PROVE items'[1].stage # "done"
      OBVIOUS
    <3>1. 1 \in 1..Len(items) - n /\ n < Len(its)
      BY <1>4, <1>6, <1>9, <1>10
    <3>2. items'[1] = its[1 + n]
      BY <1>9, <3>1
    <3>3. 1 + n = n + 1
      BY <1>10
    <3> QED
      BY <1>8, <3>1, <3>2, <3>3
  <2>2. ASSUME NEW j \in 1..Len(items) - n, items'[j].stage = "busy"
        PROVE  \E v \in Workers : at'[v] \in Working /\ has'[v] = items'[j].frame
    <3>1. j + n \in 1..Len(items) /\ j + n # i /\ items'[j] = items[j + n]
      BY <1>12, <2>2
    <3>2. PICK v \in Workers : at[v] \in Working /\ has[v] = items[j + n].frame
      BY <1>2, <1>4, <2>2, <3>1 DEF NoneStranded
    <3>3. items[j + n].frame # items[i].frame
      <4>1. /\ items[j + n].frame = Added - Len(items) + (j + n) - 1
            /\ items[i].frame = Added - Len(items) + i - 1
        BY <1>14, <3>1
      <4> QED
        BY <1>4, <1>10, <3>1, <4>1
    <3>4. v # w
      BY <1>5, <3>2, <3>3
    <3> QED
      BY <1>1, <3>1, <3>2, <3>4 DEF Control, ThreadsTyped
  <2>3. at'[worker1] # "left" \/ Queued' = {}
    <3>1. CASE worker1 = w
      BY <1>1, <3>1 DEF Control, ThreadsTyped
    <3>2. CASE worker1 # w
      <4>1. at'[worker1] = at[worker1]
        BY <1>1, <3>2, WorkersThere DEF Control, ThreadsTyped
      <4>2. ASSUME at[worker1] = "left", NEW j \in DOMAIN items' PROVE items'[j].stage # "queued"
        <5>1. j \in 1..Len(items) - n
          BY <1>9, <4>2
        <5>2. /\ j + n \in 1..Len(items)
              /\ items'[j] = items[j + n] \/ items'[j].stage = "done"
          BY <1>12, <5>1
        <5>3. \A k \in 1..Len(items) : items[k].stage # "queued"
          BY <1>2, <1>4, <4>2 DEF NoneStranded, Queued
        <5> QED
          BY <5>2, <5>3
      <4> QED
        BY <4>1, <4>2 DEF Queued
    <3> QED
      BY <3>1, <3>2
  <2> QED
    BY <1>1, <1>2, <1>9, <2>1, <2>2, <2>3 DEF NoneStranded
<1> QED
  BY <1>16, <1>17, <1>18

\* A worker leaves a closed input without anything queued.
LEMMA LeaveStep ==
  ASSUME QueueInv, Control, StreamInv, NEW w \in Workers, WkLeave(w)
  PROVE  StreamInv'
<1> SUFFICES ASSUME exception' = "none"
             PROVE  FramesInLine' /\ PacketsAlive' /\ NoneStranded'
  BY DEF StreamInv
<1>1. /\ at[w] = "pop" /\ Queued = {} /\ at' = [at EXCEPT ![w] = "left"]
      /\ has' = [has EXCEPT ![w] = NoFrame]
      /\ UNCHANGED <<exception, popper, nextPop, live, items, output, encoded, cons, data,
                     prod>>
  BY DEF WkLeave, WkGoto, OnlyWorkers, qvars, sharedVars, clientVars, consVars, prodVars,
    historyVars
<1>2. FramesInLine /\ PacketsAlive /\ NoneStranded
  BY <1>1 DEF StreamInv
<1>3. Added' = Added /\ InHand' = InHand
  BY <1>1 DEF Added, InHand
<1>4. NoneStranded'
  <2>1. has \in [Workers -> Int] /\ at \in [Workers -> {"pop", "left"} \cup Working]
    BY <1>2 DEF NoneStranded, Control, ThreadsTyped
  <2>2. has' \in [Workers -> Int]
        /\ \A v \in Workers : v # w => has'[v] = has[v] /\ at'[v] = at[v]
    BY <1>1, <2>1 DEF NoFrame
  <2>3. \A v \in Workers : at[v] \in Working => v # w
    BY <1>1 DEF Working
  <2> QED
    BY <1>1, <1>2, <2>2, <2>3 DEF NoneStranded, Queued
<1> QED
  BY <1>1, <1>2, <1>3, <1>4, LineQuiet, AliveQuiet DEF PacketsAlive

LEMMA StreamPipeline ==
  ASSUME QueueInv, Control, StreamInv, NEW w \in Workers, PipelineWorker(w)
  PROVE  StreamInv'
<1>1. CASE WkPop(w)
  BY <1>1, TakeStep
<1>2. CASE WkCheck(w) \/ WkFlag(w) \/ WkMotionThrow(w)
  <2>1. /\ at[w] # "left"
        /\ at' \in {[at EXCEPT ![w] = label] : label \in {"cancel", "flag", "motion", "null"}}
        /\ UNCHANGED <<exception, popper, nextPop, live, items, output, encoded, cons, data,
                       prod, has>>
    BY <1>2 DEF WkCheck, WkFlag, WkMotionThrow, WkGoto, OnlyWorkers, qvars, sharedVars,
      clientVars, consVars, prodVars, historyVars
  <2>2. Added' = Added /\ InHand' = InHand
    BY <2>1 DEF Added, InHand
  <2>3. /\ \A v \in Workers : at[v] \in Working => at'[v] \in Working
        /\ at'[worker1] = "left" => at[worker1] = "left"
    BY <2>1, WorkersThere DEF Control, ThreadsTyped, Working
  <2>4. exception = "none" => (InHand = 1 => nextPop - 1 \in live)
    BY DEF StreamInv, PacketsAlive
  <2> QED
    BY <2>1, <2>2, <2>3, <2>4, LineQuiet, AliveQuiet, StrandedQuiet DEF StreamInv
<1>3. CASE WkCancel(w)
  BY <1>3 DEF WkCancel, Cancel, KeepFirst, StreamInv
<1>4. CASE WkHalt(w) \/ WkClose(w) \/ WkThrow(w)
  BY <1>4 DEF WkHalt, WkClose, WkThrow, Control, FailuresShow, Failed, StreamInv, qvars,
    sharedVars
<1>5. CASE WkComplete(w)
  BY <1>5, CompleteStep
<1>6. CASE WkLeave(w)
  BY <1>6, LeaveStep
<1> QED
  BY <1>1, <1>2, <1>3, <1>4, <1>5, <1>6 DEF PipelineWorker

\* The consumer takes the next frame, checks for errors and gives it to the codec.
LEMMA StreamConsumer ==
  ASSUME QueueInv, Control, StreamInv, CodecInv, Consumer
  PROVE  StreamInv'
<1> SUFFICES ASSUME exception' = "none"
             PROVE  FramesInLine' /\ PacketsAlive' /\ NoneStranded'
  BY DEF StreamInv
<1> USE DEF ConsGoto, OnlyConsumer, qvars, sharedVars, clientVars, prodVars, pipeVars,
      historyVars
<1>1. exception = "none"
  BY DEF Consumer, ConsGet, ConsEnd, ConsCheckInput, ConsCheckPipeline, ConsProcess,
    ConsProcessThrow, ConsCancel, ConsHalt, ConsClose, ConsFail, ConsJoin, Cancel, KeepFirst,
    ReleasePacket
<1>2. FramesInLine /\ PacketsAlive /\ NoneStranded /\ ~Failed
  BY <1>1 DEF StreamInv, Control, FailuresShow
<1>3. cons \notin {"halt", "close", "fail", "join"} /\ ~firstError
  BY <1>2 DEF Failed
<1>4. ~ConsCancel /\ ~ConsHalt /\ ~ConsClose /\ ~ConsFail /\ ~ConsJoin
  BY <1>3 DEF ConsCancel, ConsHalt, ConsClose, ConsFail, ConsJoin, Cancel, KeepFirst
<1>5. UNCHANGED <<items, at, has, prod, popper, nextPop, live>>
  BY <1>4 DEF Consumer, ConsGet, ConsEnd, ConsCheckInput, ConsCheckPipeline, ConsProcess,
    ConsProcessThrow, ReleasePacket
<1>6. Added' = Added /\ InHand' = InHand /\ Added \in Int
  BY <1>5, QueueAssumption DEF Added, InHand, QueueInv, TypeOK
<1>7. NoneStranded'
  BY <1>2, <1>5, StrandedQuiet
<1>8. items \in Seq(Item) /\ output \in Seq(Int) /\ encoded \in Seq(Int)
      /\ Len(items) \in Nat /\ Len(output) \in Nat /\ Len(encoded) \in Nat
  BY <1>2 DEF FramesInLine, CodecInv
<1>9. CASE ConsGet
  <2>1. /\ cons = "get" /\ cons' = "check" /\ output # <<>> /\ data' = Head(output)
        /\ output' = Tail(output) /\ encoded' = encoded
    BY <1>9 DEF ConsGet
  <2>2. /\ data' = output[1] /\ 1 \in DOMAIN output /\ output' \in Seq(Int)
        /\ Len(output') = Len(output) - 1 /\ DOMAIN output' = 1..Len(output) - 1
        /\ \A i \in 1..Len(output) - 1 : output'[i] = output[i + 1] /\ i + 1 \in DOMAIN output
    BY <1>8, <2>1
  <2>3. \A i \in DOMAIN output : output[i] = Added - Len(items) - Len(output) + i - 1
    BY <1>2 DEF FramesInLine
  <2>4. Len(encoded) = Added - Len(items) - Len(output)
    BY <1>2, <1>8, <2>1 DEF FramesInLine, Held
  <2>5. data' = Len(encoded)
    <3>1. output[1] = Added - Len(items) - Len(output) + 1 - 1
      BY <2>2, <2>3
    <3> QED
      BY <1>6, <1>8, <2>2, <2>4, <3>1
  <2>6. ASSUME NEW i \in DOMAIN output'
        PROVE  output'[i] = Added - Len(items) - Len(output') + i - 1
    <3>1. i \in 1..Len(output) - 1
      BY <2>2
    <3>2. output'[i] = Added - Len(items) - Len(output) + (i + 1) - 1
      BY <2>2, <2>3, <3>1
    <3> QED
      BY <1>6, <1>8, <2>2, <3>1, <3>2
  <2>7. Len(encoded) + 1 = Added - Len(items) - Len(output')
    BY <1>6, <1>8, <2>2, <2>4
  <2>8. FramesInLine'
    BY <1>2, <1>5, <1>6, <1>8, <2>1, <2>2, <2>5, <2>6, <2>7 DEF FramesInLine, Held
  <2>9. PacketsAlive'
    BY <1>2, <1>5, <1>6, <2>1, <2>2 DEF PacketsAlive
  <2> QED
    BY <1>7, <2>8, <2>9
<1>10. CASE ConsEnd \/ ConsCheckInput \/ ConsCheckPipeline \/ ConsProcessThrow
  <2>1. /\ UNCHANGED <<output, encoded>>
        /\ \/ cons = "get" /\ cons' = "end"
           \/ cons = "check" /\ cons' = "check2" /\ data' = data
           \/ cons = "check2" /\ cons' = "process"
           \/ cons' = "cancel"
    BY <1>1, <1>3, <1>10 DEF ConsEnd, ConsCheckInput, ConsCheckPipeline, ConsProcessThrow
  <2>2. FramesInLine'
    BY <1>2, <1>5, <1>6, <2>1 DEF FramesInLine, Held
  <2>3. PacketsAlive'
    BY <1>2, <1>5, <1>6, <2>1 DEF PacketsAlive
  <2> QED
    BY <1>7, <2>2, <2>3
<1>11. CASE ConsProcess
  <2>1. /\ output' = output /\ encoded' = Append(encoded, data) /\ cons = "process"
        /\ cons' \in {"get", "cancel"}
    BY <1>11 DEF ConsProcess
  <2>2. data \in Int
    BY <1>8, <2>1 DEF CodecInv
  <2>3. Len(encoded') = Len(encoded) + 1
    BY <1>8, <2>1, <2>2
  <2>4. Len(encoded) + 1 = Added - Len(items) - Len(output)
    BY <1>2, <1>8, <2>1 DEF FramesInLine, Held
  <2>5. /\ Len(items') = Len(items) /\ Len(output') = Len(output) /\ cons' # "check"
        /\ cons' = "get" => Held' = 0
    BY <1>5, <2>1 DEF Held
  <2>6. FramesInLine'
    <3>1. cons' \in {"get", "check", "check2", "process", "end"} =>
            Len(encoded') + Held' = Added' - Len(items') - Len(output')
      BY <1>6, <1>8, <2>1, <2>3, <2>4, <2>5
    <3> QED
      BY <1>2, <1>5, <1>6, <1>8, <2>1, <2>5, <3>1 DEF FramesInLine
  <2>7. PacketsAlive'
    BY <1>2, <1>5, <1>6, <2>1 DEF PacketsAlive
  <2> QED
    BY <1>7, <2>6, <2>7
<1> QED
  BY <1>4, <1>9, <1>10, <1>11 DEF Consumer
-----------------------------------------------------------------------------
(* The codec's side.                                                       *)

LEMMA CodecQuiet ==
  ASSUME CodecInv, encoded' = encoded,
         cons' \in {"check2", "process"} =>
           cons \in {"check2", "process"} /\ data' = data /\ data \in live',
         \A f \in live' : packet'[f] = NoSlot => f \in live /\ packet[f] = NoSlot
  PROVE  CodecInv'
BY DEF CodecInv

LEMMA CodecDestroy ==
  ASSUME QueueInv, CodecInv, LastReference
  PROVE  CodecInv'
<1>1. PICK f \in Unreferenced : DestroyPacket(f)
  BY DEF LastReference
<1>2. UNCHANGED <<encoded, cons, data>> /\ live' = live \ {f}
  BY <1>1 DEF LastReference, DestroyPacket, consVars, historyVars
<1>3. data # f
  BY <1>1 DEF Unreferenced, Referenced
<1>4. \A g \in live' : packet'[g] = packet[g]
  BY <1>1, <1>2 DEF DestroyPacket, ReleaseSlot, QueueInv, TypeOK
<1>5. cons \in {"check2", "process"} => data \in live'
  BY <1>2, <1>3 DEF CodecInv
<1> QED
  BY <1>2, <1>4, <1>5, CodecQuiet

LEMMA CodecProducer ==
  ASSUME QueueInv, CodecInv, Producer
  PROVE  CodecInv'
<1>1. UNCHANGED <<encoded, cons, data>>
  BY DEF Producer, ProdLoop, ProdPop, ProdEof, ProdAdd, ProdRefused, ProdClose, ProdCancel,
    ProdFail, consVars, historyVars
<1>2. live \subseteq live'
      /\ \A f \in live' : packet'[f] = NoSlot => f \in live /\ packet[f] = NoSlot
  <2>1. CASE PopFrame(producer)
    <3>1. ready # <<>> /\ ready \in Seq(Ready) /\ packet \in [Frames -> Slots \cup {NoSlot}]
          /\ live \subseteq Frames
      BY <2>1 DEF PopFrame, TakeReady, QueueInv, TypeOK, Ready
    <3>2. Head(ready) \in Ready
      BY <3>1
    <3>3. Head(ready).frame \in Frames /\ Head(ready).slot # NoSlot
      BY <3>2, SlotIsNoNoSlot DEF Ready
    <3> QED
      BY <2>1, <3>1, <3>3 DEF PopFrame, TakeReady
  <2>2. CASE ~PopFrame(producer)
    <3>1. UNCHANGED <<live, packet>>
      BY <2>2 DEF Producer, ProdLoop, PopCall, ProdPop, Pop, PopSleep, PopError, PopEof,
        ProdEof, ProdAdd, ProdRefused, ProdClose, ProdCancel, ProdFail, Cancel, qvars,
        clientVars
    <3> QED
      BY <3>1
  <2> QED
    BY <2>1, <2>2
<1>3. cons \in {"check2", "process"} => data \in live'
  BY <1>2 DEF CodecInv
<1> QED
  BY <1>1, <1>2, <1>3, CodecQuiet

LEMMA CodecConsumer ==
  ASSUME QueueInv, Control, StreamInv, CodecInv, Consumer
  PROVE  CodecInv'
<1> USE DEF ConsGoto, OnlyConsumer, qvars, sharedVars, clientVars, consVars, prodVars,
      pipeVars, historyVars
<1>1. CASE ConsCheckInput
  <2>1. /\ cons = "check" /\ UNCHANGED <<encoded, data, live, packet>>
        /\ cons' = IF exception # "none" THEN "cancel" ELSE "check2"
    BY <1>1 DEF ConsCheckInput
  <2>2. exception = "none" => data = Len(encoded) /\ data \in live
    BY <2>1 DEF StreamInv, FramesInLine, PacketsAlive
  <2> QED
    BY <2>1, <2>2 DEF CodecInv
<1>2. CASE ConsProcess
  <2>1. /\ cons = "process" /\ cons' \in {"get", "cancel"} /\ live' = live
        /\ encoded' = Append(encoded, data) /\ packet' = [packet EXCEPT ![data] = NoSlot]
    BY <1>2 DEF ConsProcess, ReleasePacket, ReleaseSlot
  <2>2. encoded \in Seq(Int) /\ Len(encoded) \in Nat /\ data = Len(encoded)
    BY <2>1 DEF CodecInv
  <2>3. /\ encoded' \in Seq(Int) /\ Len(encoded') = Len(encoded) + 1
        /\ encoded'[Len(encoded) + 1] = data /\ DOMAIN encoded' = 1..Len(encoded) + 1
        /\ \A i \in 1..Len(encoded) : encoded'[i] = encoded[i] /\ i \in DOMAIN encoded
    BY <2>1, <2>2
  <2>4. ASSUME NEW i \in DOMAIN encoded' PROVE encoded'[i] = i - 1
    <3>1. CASE i \in 1..Len(encoded)
      BY <2>3, <3>1 DEF CodecInv
    <3>2. CASE i = Len(encoded) + 1
      BY <2>2, <2>3, <3>2
    <3> QED
      BY <2>2, <2>3, <3>1, <3>2
  <2>5. ASSUME NEW f \in live', packet'[f] = NoSlot PROVE f < Len(encoded')
    <3>1. f \in Int
      BY <2>1, QueueAssumption DEF QueueInv, TypeOK, Frames
    <3>2. CASE f = data
      BY <2>2, <2>3, <3>2
    <3>3. CASE f # data
      <4>1. packet[f] = NoSlot
        BY <2>1, <2>5, <3>3 DEF QueueInv, TypeOK
      <4> QED
        BY <2>1, <2>2, <2>3, <3>1, <4>1 DEF CodecInv
    <3> QED
      BY <3>2, <3>3
  <2> QED
    BY <2>1, <2>3, <2>4, <2>5 DEF CodecInv
<1>3. CASE ~ConsCheckInput /\ ~ConsProcess
  <2>1. /\ UNCHANGED <<encoded, live, packet>>
        /\ cons' \in {"check2", "process"} => cons \in {"check2", "process"} /\ data' = data
    BY <1>3 DEF Consumer, ConsGet, ConsEnd, ConsCheckPipeline, ConsProcessThrow, ConsCancel,
      ConsHalt, ConsClose, ConsFail, ConsJoin, Cancel
  <2> QED
    BY <2>1, CodecQuiet DEF CodecInv
<1> QED
  BY <1>1, <1>2, <1>3

LEMMA CodecOthers ==
  ASSUME QueueInv, CodecInv,
         \/ SourceWorker \/ Wakeup \/ Main \/ RunOver \/ UNCHANGED vars
         \/ \E w \in Workers : PipelineWorker(w)
  PROVE  CodecInv'
<1>1. UNCHANGED <<live, packet>>
  <2>1. CASE \E w \in Workers : PipelineWorker(w)
    BY <2>1 DEF PipelineWorker, WkPop, WkCheck, WkFlag, WkMotionThrow, WkCancel, WkHalt,
      WkClose, WkThrow, WkComplete, WkLeave, Cancel, qvars, clientVars
  <2> QED
    BY <2>1, OthersLeavePackets
<1>2. UNCHANGED <<encoded, cons, data>>
  BY DEF SourceWorker, Wakeup, RunOver, vars, consVars, historyVars, Main, MainJoins, MainStop,
    MainFinish, MainUnwind, MainFreePipeline, MainCancel, MainFreeQueue, OnlyMain,
    PipelineWorker, WkPop, WkCheck, WkFlag, WkMotionThrow, WkCancel, WkHalt, WkClose, WkThrow,
    WkComplete, WkLeave, OnlyWorkers
<1> QED
  BY <1>1, <1>2, CodecQuiet DEF CodecInv
-----------------------------------------------------------------------------
(* The theorems.                                                           *)

LEMMA FrontInit ==
  ASSUME Init
  PROVE  FrontInv
<1> USE WorkersThere DEF Init, QInit
<1>1. /\ worker = "acquire" /\ exception = "none" /\ nextPop = 0 /\ popper[producer] = "idle"
  BY ProducerPops
<1>2. Control
  <2>1. /\ at \in [Workers -> {"pop", "left"}] /\ at[worker1] = "pop"
        /\ \A w \in Workers : at[w] \in {"pop", "left"}
    OBVIOUS
  <2>2. ThreadsTyped
    BY <2>1 DEF ThreadsTyped
  <2>3. ~Failed /\ FailuresShow
    BY <2>1 DEF Failed, FailuresShow
  <2>4. Stopping /\ Ending
    BY <2>1, <2>3 DEF Stopping, Ending
  <2> QED
    BY <2>2, <2>3, <2>4 DEF Control
<1>3. FramesInLine
  <2>1. Held = 0 /\ Added = 0
    BY <1>1 DEF Held, InHand, Added
  <2>2. items = <<>> /\ output = <<>> /\ encoded = <<>> /\ cons = "get"
    OBVIOUS
  <2> HIDE DEF Init, QInit
  <2>3. items \in Seq(Item) /\ output \in Seq(Int) /\ Len(items) = 0 /\ Len(output) = 0
        /\ Len(encoded) = 0 /\ DOMAIN items = {} /\ DOMAIN output = {} /\ cons = "get"
    BY <2>2
  <2>4. Len(encoded) + Held = Added - Len(items) - Len(output)
    BY <2>1, <2>3
  <2> QED
    BY <2>3, <2>4, Zenon DEF FramesInLine
<1>4. PacketsAlive
  BY <1>1 DEF PacketsAlive, InHand
<1>5. NoneStranded
  <2>1. at[worker1] = "pop" /\ has \in [Workers -> Int] /\ items = <<>>
    BY DEF NoFrame
  <2> QED
    BY <2>1 DEF NoneStranded
<1>6. CodecInv
  BY DEF CodecInv
<1> QED
  BY <1>2, <1>3, <1>4, <1>5, <1>6 DEF FrontInv, StreamInv

LEMMA FrontStep ==
  ASSUME QueueInv, FrontInv, [Next]_vars
  PROVE  FrontInv'
<1>1. Control /\ StreamInv /\ CodecInv
  BY DEF FrontInv
<1>2. CASE LastReference
  BY <1>1, <1>2, ControlOthers, StreamDestroy, CodecDestroy DEF FrontInv
<1>3. CASE SourceWorker \/ Wakeup \/ RunOver \/ UNCHANGED vars
  BY <1>1, <1>3, ControlOthers, StreamOthers, CodecOthers DEF FrontInv
<1>4. CASE Producer
  BY <1>1, <1>4, ControlProducer, StreamProducer, CodecProducer DEF FrontInv
<1>5. CASE Consumer
  BY <1>1, <1>5, ControlConsumer, StreamConsumer, CodecConsumer DEF FrontInv
<1>6. CASE Main
  BY <1>1, <1>6, ControlMain, StreamOthers, CodecOthers DEF FrontInv
<1>7. CASE \E w \in Workers : PipelineWorker(w)
  BY <1>1, <1>7, ControlPipeline, StreamPipeline, CodecOthers DEF FrontInv
<1> QED
  BY <1>2, <1>3, <1>4, <1>5, <1>6, <1>7 DEF Next

LEMMA FrontCorrect == Spec => [](QueueInv /\ FrontInv)
<1>1. Init => QueueInv /\ FrontInv
  BY InitInv, FrontInit DEF Init
<1>2. QueueInv /\ FrontInv /\ [Next]_vars => (QueueInv /\ FrontInv)'
  BY QueueStep, InvStep, FrontStep
<1> QED
  BY <1>1, <1>2, PTL DEF Spec

\* A run that reports success has encoded every frame of the source and no thread
\* failed: whoever throws, and wherever the others are, the error is found by a join
\* or by RethrowIfFailed (RunEncode), for any number of pipeline workers.
THEOREM OkCorrect == Spec => []OkMeansComplete
<1>1. FrontInv => OkMeansComplete
  BY DEF FrontInv, Control, Ending, OkMeansComplete
<1> QED
  BY <1>1, FrontCorrect, PTL

\* The codec gets frame 0, 1, 2, ..., and the buffer it reads holds the frame it is
\* told to encode (CallbackDataConsumer::Consume, PublishReadyResults).
THEOREM CodecCorrect == Spec => []CodecTakesFrames
<1>1. QueueInv /\ FrontInv => CodecTakesFrames
  <2> SUFFICES ASSUME QueueInv, FrontInv PROVE CodecTakesFrames
    OBVIOUS
  <2>1. CASE cons = "process"
    <3>1. data \in live /\ packet[data] # NoSlot
      BY <2>1 DEF FrontInv, CodecInv
    <3> QED
      BY <3>1 DEF FrontInv, CodecInv, QueueInv, FramesIntact, CodecTakesFrames
  <2>2. CASE cons # "process"
    BY <2>2 DEF FrontInv, CodecInv, CodecTakesFrames
  <2> QED
    BY <2>1, <2>2
<1> QED
  BY <1>1, FrontCorrect, PTL
=============================================================================
