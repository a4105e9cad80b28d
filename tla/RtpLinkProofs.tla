---------------------------- MODULE RtpLinkProofs ----------------------------
(***************************************************************************)
(* Proofs about RtpLink: the types of the sender, the account of the bytes *)
(* in its queue, that nothing RTCP asks for is done twice, and that a      *)
(* switch of configuration starts at its random-access frame.  Each holds  *)
(* for every script of calls, every limit and whatever the network does    *)
(* within the budgets; the receiver only matters through what it sends.    *)
(*                                                                         *)
(* The sums of bytes and the batch of packets to send again are recursive  *)
(* functions: what an induction would show of them is shown by the least   *)
(* place at which it would fail.                                           *)
(***************************************************************************)
EXTENDS RtpLink, SequenceTheorems, FiniteSetTheorems, NaturalsInduction,
        WellFoundedInduction, TLAPS

\* RTP sequence numbers, and what is made of units and packets.
Slots == 0..(SeqSpace - 1)
Media == [time : Nat, unit : Units]
Packet == [seq : Slots, media : Media, frag : Nat, bytes : Nat]
Sessions == [scu : Units, gate : Nat]
AppLabels == {"idle", "flush", "reserve", "enqueue", "leave", "stop", "join", "joinRtcp", "gone"}

\* The state of the sender; a call is under way only while there is one to make.
SendTyped ==
  /\ app \in [at : AppLabels, todo : Seq(Calls), held : Nat, saved : Sessions]
  /\ app.at \in {"flush", "reserve", "enqueue"} => app.todo # <<>>
  /\ session \in Sessions /\ nextSeq \in Slots
  /\ queue \in Seq(Packet) /\ queuedBytes \in Int
  /\ sender \in [at : {"wait", "send", "sent", "done"}, packet : Seq(Packet)]
  /\ failed \in BOOLEAN /\ stopping \in BOOLEAN
  /\ history \in Seq(Packet) /\ marked \subseteq Slots
  /\ rtcp \in [at : {"idle", "requeue"}, batch : Seq(Packet)]
  /\ controls \in [seen : SUBSET Nat, queue : Seq(Nat), popped : Seq(Nat)]
  /\ accepted \in Seq(Media)
  /\ requeued \in [again : SUBSET Slots, forgotten : SUBSET Slots]

\* Of the network and the receiver only what reaches the sender.
LinkTyped ==
  /\ net \subseteq Packet
  /\ \A m \in feedback :
       m.index \in Nat /\ m.control \in Nat /\ \E S : m.nacks \in Seq(S)
  /\ endpoint \in [tx : Nat, highest : Nat, window : SUBSET Nat, heard : Seq(Nat)]
  /\ budget \in [BudgetFields -> Nat]
  /\ DOMAIN seqs = {"have", "highest", "seen", "gaps", "order", "lost"}
  /\ seqs.highest \in Slots /\ seqs.gaps \subseteq Slots

Typed == SendTyped /\ LinkTyped

-----------------------------------------------------------------------------
(* Functions defined by recursion on a number.  What an induction would     *)
(* show, the least counterexample shows.                                    *)

LEMMA LeastNumber ==
  ASSUME NEW S \in SUBSET Nat, S # {}
  PROVE  \E n \in S : \A m \in S : n <= m
PROOF
  <1>1. PICK n \in S : \A m \in Nat : <<m, n>> \in OpToRel(<, Nat) => m \notin S
    BY NatLessThanWellFounded, WFMin, Zenon
  <1>2. \A m \in S : ~(m < n)
    BY <1>1 DEF OpToRel
  <1>. QED
    BY <1>2

LEMMA SumExists ==
  ASSUME NEW b \in Seq(Nat)
  PROVE  \E f \in [0..Len(b) -> Nat] :
           f[0] = 0 /\ \A i \in 1..Len(b) : f[i] = f[i - 1] + b[i]
PROOF
  <1> DEFINE Upto(m, f) == f[0] = 0 /\ \A i \in 1..m : f[i] = f[i - 1] + b[i]
             Has(m) == \E f \in [0..m -> Nat] : Upto(m, f)
             Bad == {m \in 0..Len(b) : ~ Has(m)}
  <1>1. SUFFICES ASSUME Bad # {} PROVE FALSE
    <2>1. Bad = {}
      BY <1>1
    <2>2. Len(b) \in 0..Len(b)
      BY LenProperties
    <2>3. Has(Len(b))
      <3> HIDE DEF Has
      <3>. QED
        BY <2>1, <2>2
    <2>. QED
      BY <2>3
  <1>2. PICK m \in Bad : \A k \in Bad : m <= k
    BY <1>1, LeastNumber, Bad \in SUBSET Nat
  <1>3. m # 0
    <2>1. [i \in 0..0 |-> 0] \in [0..0 -> Nat] /\ Upto(0, [i \in 0..0 |-> 0])
      OBVIOUS
    <2>. QED
      BY <1>2, <2>1
  <1>4. m \in 1..Len(b) /\ m - 1 \in 0..Len(b) /\ ~ (m <= m - 1)
    BY <1>2, <1>3
  <1>5. Has(m - 1)
    BY <1>2, <1>4
  <1>6. PICK f \in [0..(m - 1) -> Nat] : Upto(m - 1, f)
    BY <1>5
  <1> DEFINE g == [i \in 0..m |-> IF i = m THEN f[m - 1] + b[m] ELSE f[i]]
  <1>7. g \in [0..m -> Nat] /\ g[0] = 0
    BY <1>4, <1>6
  <1>8. ASSUME NEW i \in 1..m PROVE g[i] = g[i - 1] + b[i]
    <2>1. i \in 0..m /\ i - 1 \in 0..m /\ i - 1 # m
      BY <1>4
    <2>2. CASE i = m
      BY <2>1, <2>2
    <2>3. CASE i # m
      <3>1. i \in 1..(m - 1)
        BY <2>3, <1>4
      <3>. QED
        BY <3>1, <2>1, <2>3, <1>6
    <2>. QED
      BY <2>2, <2>3
  <1>. QED
    BY <1>2, <1>7, <1>8

\* SumOf is the last value of any such function.
LEMMA SumIs ==
  ASSUME NEW b \in Seq(Nat), NEW f, f[0] = 0,
         \A i \in 1..Len(b) : f[i] = f[i - 1] + b[i]
  PROVE  SumOf(b) = f[Len(b)]
PROOF
  <1> DEFINE Fitting(t) == t = [n \in 0..Len(b) |-> IF n = 0 THEN 0 ELSE t[n - 1] + b[n]]
             total == CHOOSE t : Fitting(t)
  <1>1. SumOf(b) = total[Len(b)]
    BY Zenon DEF SumOf
  <1>2. Fitting([n \in 0..Len(b) |-> f[n]])
    OBVIOUS
  <1>3. Fitting(total)
    BY <1>2, Zenon
  <1> HIDE DEF total
  <1> DEFINE Bad == {n \in 0..Len(b) : total[n] # f[n]}
  <1>4. Bad = {}
    <2>1. SUFFICES ASSUME Bad # {} PROVE FALSE
      OBVIOUS
    <2>2. PICK n \in Bad : \A k \in Bad : n <= k
      BY <2>1, LeastNumber, Bad \in SUBSET Nat
    <2>3. n # 0
      BY <1>3
    <2>4. n \in 1..Len(b) /\ n - 1 \in 0..Len(b) /\ n - 1 \notin Bad
      BY <2>2, <2>3
    <2>5. total[n] = total[n - 1] + b[n]
      BY <2>4, <1>3
    <2>. QED
      BY <2>2, <2>4, <2>5
  <1>. QED
    BY <1>1, <1>4

LEMMA SumType ==
  ASSUME NEW b \in Seq(Nat)
  PROVE  SumOf(b) \in Nat
PROOF
  <1>1. PICK f \in [0..Len(b) -> Nat] :
          f[0] = 0 /\ \A i \in 1..Len(b) : f[i] = f[i - 1] + b[i]
    BY SumExists
  <1>2. SumOf(b) = f[Len(b)]
    BY <1>1, SumIs
  <1>. QED
    BY <1>2, LenProperties

LEMMA SumConcat ==
  ASSUME NEW b \in Seq(Nat), NEW c \in Seq(Nat)
  PROVE  SumOf(b \o c) = SumOf(b) + SumOf(c)
PROOF
  <1>1. PICK f \in [0..Len(b) -> Nat] :
          f[0] = 0 /\ \A i \in 1..Len(b) : f[i] = f[i - 1] + b[i]
    BY SumExists
  <1>2. PICK g \in [0..Len(c) -> Nat] :
          g[0] = 0 /\ \A i \in 1..Len(c) : g[i] = g[i - 1] + c[i]
    BY SumExists
  <1> DEFINE n == Len(b)
             h == [i \in 0..(n + Len(c)) |-> IF i <= n THEN f[i] ELSE f[n] + g[i - n]]
  <1>3. n \in Nat /\ Len(c) \in Nat /\ f[n] \in Nat
    <2>1. Len(b) \in Nat /\ Len(c) \in Nat /\ Len(b) \in 0..Len(b)
      BY LenProperties
    <2>. QED
      BY <2>1
  <1>4. b \o c \in Seq(Nat) /\ Len(b \o c) = n + Len(c)
    OBVIOUS
  <1>5. h[0] = 0
    BY <1>1, <1>3
  <1>6. ASSUME NEW i \in 1..(n + Len(c)) PROVE h[i] = h[i - 1] + (b \o c)[i]
    <2>1. i \in 0..(n + Len(c)) /\ i - 1 \in 0..(n + Len(c))
      BY <1>3
    <2>2. CASE i <= n
      <3>1. i \in 1..n /\ i - 1 <= n /\ (b \o c)[i] = b[i]
        BY <2>2, <1>3
      <3>. QED
        BY <3>1, <2>1, <2>2, <1>1
    <2>3. CASE i = n + 1
      <3>1. 1 \in 1..Len(c) /\ i - 1 = n /\ i - n = 1 /\ ~ (i <= n) /\ (b \o c)[i] = c[1]
        BY <2>3, <1>3
      <3>2. g[1] = c[1]
        <4>1. g[1] = g[0] + c[1] /\ c[1] \in Nat
          BY <3>1, <1>2
        <4>. QED
          BY <4>1, <1>2
      <3>3. h[i] = f[n] + g[1] /\ h[i - 1] = f[n]
        BY <3>1, <2>1
      <3>. QED
        BY <3>1, <3>2, <3>3
    <2>4. CASE i > n + 1
      <3> DEFINE k == i - n
      <3>1. k \in 2..Len(c) /\ (b \o c)[i] = c[k]
        BY <2>4, <1>3
      <3>2. g[k] = g[k - 1] + c[k] /\ g[k - 1] \in Nat /\ c[k] \in Nat
        <4>1. k \in 1..Len(c) /\ k - 1 \in 0..Len(c)
          BY <3>1
        <4> HIDE DEF k
        <4>2. g[k] = g[k - 1] + c[k]
          BY <4>1, <1>2
        <4>3. g[k - 1] \in Nat
          BY <4>1
        <4>4. c[k] \in Nat
          BY <4>1, ElementOfSeq
        <4>. QED
          BY <4>2, <4>3, <4>4
      <3>3. h[i] = f[n] + g[k]
        BY <2>1, <2>4, <1>3
      <3>4. h[i - 1] = f[n] + g[k - 1]
        <4>1. i - 1 - n = k - 1 /\ ~ (i - 1 <= n)
          BY <2>4, <1>3
        <4>. QED
          BY <4>1, <2>1
      <3> HIDE DEF k, h, n
      <3>5. f[n] + g[k] = (f[n] + g[k - 1]) + c[k]
        BY <3>2, <1>3
      <3>. QED
        BY <3>1, <3>3, <3>4, <3>5, Zenon
    <2>. QED
      BY <2>2, <2>3, <2>4, <1>3
  <1>7. SumOf(b) = f[Len(b)]
    BY <1>1, SumIs
  <1>8. SumOf(c) = g[Len(c)]
    BY <1>2, SumIs
  <1>9. SumOf(b \o c) = h[n + Len(c)]
    <2> HIDE DEF h, n
    <2>. QED
      BY <1>4, <1>5, <1>6, SumIs
  <1>10. h[n + Len(c)] = f[n] + g[Len(c)]
    <2>1. CASE Len(c) = 0
      BY <2>1, <1>2, <1>3
    <2>2. CASE Len(c) # 0
      <3>1. ~ (n + Len(c) <= n) /\ n + Len(c) - n = Len(c) /\ n + Len(c) \in 0..(n + Len(c))
        BY <2>2, <1>3
      <3>. QED
        BY <3>1
    <2>. QED
      BY <2>1, <2>2
  <1>. QED
    BY <1>7, <1>8, <1>9, <1>10

LEMMA SumOne ==
  ASSUME NEW x \in Nat
  PROVE  SumOf(<<x>>) = x
PROOF
  <1> DEFINE f == [i \in 0..1 |-> IF i = 0 THEN 0 ELSE x]
  <1>1. <<x>> \in Seq(Nat) /\ Len(<<x>>) = 1 /\ <<x>>[1] = x
    OBVIOUS
  <1>2. f[0] = 0 /\ f[1] = x
    OBVIOUS
  <1>3. \A i \in 1..1 : f[i] = f[i - 1] + <<x>>[i]
    BY <1>1, <1>2
  <1> HIDE DEF f
  <1>. QED
    BY <1>1, <1>2, <1>3, SumIs

LEMMA SumNone == SumOf(<<>>) = 0
PROOF
  <1> DEFINE f == [i \in 0..0 |-> 0]
  <1>1. <<>> \in Seq(Nat) /\ Len(<<>>) = 0
    OBVIOUS
  <1>2. f[0] = 0
    OBVIOUS
  <1>3. \A i \in 1..Len(<<>>) : f[i] = f[i - 1] + <<>>[i]
    BY <1>1
  <1> HIDE DEF f
  <1>. QED
    BY <1>1, <1>2, <1>3, SumIs

-----------------------------------------------------------------------------
(* The bytes of packets.                                                    *)

LEMMA SlotFacts == SeqSpace \in Nat /\ SeqSpace > 1 /\ Slots \subseteq Nat
BY SeqSpaceAssumption DEF Slots

LEMMA Modulo ==
  ASSUME NEW a \in Int
  PROVE  a % SeqSpace \in Slots
BY SlotFacts DEF Slots

LEMMA BytesSequence ==
  ASSUME NEW s \in Seq(Packet)
  PROVE  [i \in 1..Len(s) |-> s[i].bytes] \in Seq(Nat)
PROOF
  <1>1. \A i \in 1..Len(s) : s[i].bytes \in Nat
    <2>1. \A i \in 1..Len(s) : s[i] \in Packet
      BY ElementOfSeq
    <2>. QED
      BY <2>1 DEF Packet
  <1>. QED
    BY <1>1, LenProperties, IsASeq

LEMMA BytesType ==
  ASSUME NEW s \in Seq(Packet)
  PROVE  BytesOf(s) \in Nat
BY BytesSequence, SumType DEF BytesOf

LEMMA BytesConcat ==
  ASSUME NEW s \in Seq(Packet), NEW t \in Seq(Packet)
  PROVE  BytesOf(s \o t) = BytesOf(s) + BytesOf(t)
PROOF
  <1> DEFINE b == [i \in 1..Len(s) |-> s[i].bytes]
             c == [i \in 1..Len(t) |-> t[i].bytes]
             both == [i \in 1..Len(s \o t) |-> (s \o t)[i].bytes]
  <1>1. b \in Seq(Nat) /\ c \in Seq(Nat) /\ s \o t \in Seq(Packet) /\ both \in Seq(Nat)
    BY BytesSequence, ConcatProperties
  <1>2. both = b \o c
    <2>1. Len(both) = Len(b \o c)
      BY <1>1
    <2>2. \A i \in 1..Len(both) : both[i] = (b \o c)[i]
      OBVIOUS
    <2>3. b \o c \in Seq(Nat)
      BY <1>1, ConcatProperties
    <2> HIDE DEF b, c, both
    <2>. QED
      BY <1>1, <2>1, <2>2, <2>3, SeqEqual
  <1>3. BytesOf(s) = SumOf(b) /\ BytesOf(t) = SumOf(c) /\ BytesOf(s \o t) = SumOf(both)
    BY DEF BytesOf
  <1> HIDE DEF b, c, both
  <1>. QED
    BY <1>1, <1>2, <1>3, SumConcat

LEMMA BytesHeadTail ==
  ASSUME NEW s \in Seq(Packet), s # <<>>
  PROVE  /\ Head(s) \in Packet /\ Tail(s) \in Seq(Packet) /\ <<Head(s)>> \in Seq(Packet)
         /\ BytesOf(s) = BytesOf(<<Head(s)>>) + BytesOf(Tail(s))
PROOF
  <1>1. Head(s) \in Packet /\ Tail(s) \in Seq(Packet) /\ <<Head(s)>> \in Seq(Packet)
    BY HeadTailProperties
  <1>2. s = <<Head(s)>> \o Tail(s)
    OBVIOUS
  <1>. QED
    BY <1>1, <1>2, BytesConcat

LEMMA BytesNone == BytesOf(<<>>) = 0
PROOF
  <1>1. [i \in 1..Len(<<>>) |-> <<>>[i].bytes] = <<>>
    OBVIOUS
  <1>. QED
    BY <1>1, SumNone DEF BytesOf

\* A unit's packets weigh what was reserved for it.
LEMMA PacketsWeigh ==
  ASSUME NEW m \in Media, NEW n \in Slots
  PROVE  /\ Packets(m, n) \in Seq(Packet)
         /\ BytesOf(Packets(m, n)) = WireBytes(m.unit)
         /\ WireBytes(m.unit) \in Nat
PROOF
  <1> DEFINE frags == m.unit.frags
             packet(i) == [seq |-> (n + i - 1) % SeqSpace, media |-> m, frag |-> i,
                           bytes |-> frags[i]]
  <1>1. frags \in Seq(Nat) /\ Len(frags) \in Nat
    BY LenProperties DEF Media, Units
  <1>2. \A i \in 1..Len(frags) : packet(i) \in Packet
    <2>1. ASSUME NEW i \in 1..Len(frags) PROVE packet(i) \in Packet
      <3>1. frags[i] \in Nat
        BY <1>1, ElementOfSeq
      <3>2. n + i - 1 \in Int
        BY <1>1, SlotFacts
      <3>3. (n + i - 1) % SeqSpace \in Slots
        BY <3>2, Modulo
      <3> HIDE DEF frags
      <3>. QED
        BY <3>1, <3>3, <1>1 DEF Packet
    <2>. QED
      BY <2>1
  <1>3. Packets(m, n) = [i \in 1..Len(frags) |-> packet(i)]
    BY DEF Packets
  <1>4. Packets(m, n) \in Seq(Packet) /\ Len(Packets(m, n)) = Len(frags)
    BY <1>1, <1>2, <1>3, IsASeq
  <1>5. [i \in 1..Len(Packets(m, n)) |-> Packets(m, n)[i].bytes] = frags
    <2>1. \A i \in 1..Len(frags) : Packets(m, n)[i].bytes = frags[i]
      BY <1>3
    <2>. QED
      BY <2>1, <1>4, <1>1
  <1>. QED
    BY <1>1, <1>4, <1>5, SumType DEF BytesOf, WireBytes

-----------------------------------------------------------------------------
(* What QueueRetransmissions picks.                                         *)

LEMMA KnownPacket ==
  ASSUME history \in Seq(Packet), NEW n, Known(n)
  PROVE  LET p == CHOOSE q \in ToSet(history) : q.seq = n IN p \in Packet /\ p.seq = n
PROOF
  <1>1. PICK i \in 1..Len(history) : history[i].seq = n
    BY DEF Known, Sequences
  <1>2. history[i] \in ToSet(history)
    BY DEF ToSet
  <1>3. ToSet(history) \subseteq Packet
    BY ElementOfSeq DEF ToSet
  <1>. QED
    BY <1>1, <1>2, <1>3, Zenon

\* A batch contains packets of the history, none of them marked before.
LEMMA BatchPicks ==
  ASSUME history \in Seq(Packet), NEW S, NEW nacks \in Seq(S)
  PROVE  /\ Batch(nacks) \in Seq(Packet)
         /\ \A i \in 1..Len(Batch(nacks)) : Due(Batch(nacks)[i].seq)
PROOF
  <1> DEFINE N == Len(nacks)
             packet(k) == CHOOSE q \in ToSet(history) : q.seq = nacks[k]
             pick(v, k) == IF Len(v) < BatchLimit /\ Due(nacks[k]) THEN Append(v, packet(k)) ELSE v
             Good == {v \in Seq(Packet) : \A i \in 1..Len(v) : Due(v[i].seq)}
             Fitting(t) == t = [k \in 0..N |-> IF k = 0 THEN <<>> ELSE pick(t[k - 1], k)]
             picked == CHOOSE t : Fitting(t)
  <1>1. N \in Nat
    BY LenProperties
  <1>2. Batch(nacks) = picked[N]
    BY Zenon DEF Batch
  <1>3. ASSUME NEW v \in Good, NEW k \in 1..N
        PROVE  pick(v, k) \in Good
    <2>1. CASE ~ Due(nacks[k])
      BY <2>1
    <2>2. CASE Due(nacks[k])
      <3>1. packet(k) \in Packet /\ packet(k).seq = nacks[k]
        BY <2>2, KnownPacket DEF Due
      <3> DEFINE w == Append(v, packet(k))
      <3>2. /\ w \in Seq(Packet) /\ Len(w) = Len(v) + 1 /\ Len(v) \in Nat
            /\ \A i \in 1..Len(v) : w[i] = v[i]
            /\ w[Len(v) + 1] = packet(k)
        BY <3>1, AppendProperties, LenProperties
      <3> HIDE DEF w, packet
      <3>3. \A i \in 1..Len(w) : Due(w[i].seq)
        <4>1. ASSUME NEW i \in 1..Len(w) PROVE Due(w[i].seq)
          <5>1. CASE i \in 1..Len(v)
            BY <5>1, <3>2
          <5>2. CASE i = Len(v) + 1
            BY <5>2, <3>1, <3>2, <2>2
          <5>. QED
            BY <5>1, <5>2, <3>2
        <4>. QED
          BY <4>1
      <3>4. w \in Good
        BY <3>2, <3>3
      <3>. QED
        BY <3>4 DEF w
    <2>. QED
      BY <2>1, <2>2
  <1>4. <<>> \in Good
    OBVIOUS
  <1> HIDE DEF Good, pick, N
  <1> DEFINE Upto(m, f) == f[0] = <<>> /\ \A k \in 1..m : f[k] = pick(f[k - 1], k)
             Has(m) == \E f \in [0..m -> Good] : Upto(m, f)
             Bad == {m \in 0..N : ~ Has(m)}
  <1>5. Bad = {}
    <2>1. SUFFICES ASSUME Bad # {} PROVE FALSE
      OBVIOUS
    <2>2. PICK m \in Bad : \A k \in Bad : m <= k
      BY <2>1, LeastNumber, Bad \in SUBSET Nat
    <2>3. m # 0
      <3>1. [k \in 0..0 |-> <<>>] \in [0..0 -> Good] /\ Upto(0, [k \in 0..0 |-> <<>>])
        BY <1>4
      <3>. QED
        BY <2>2, <3>1
    <2>4. m \in 1..N /\ m - 1 \in 0..N /\ ~ (m <= m - 1)
      BY <2>2, <2>3, <1>1
    <2>5. Has(m - 1)
      BY <2>2, <2>4
    <2>6. PICK f \in [0..(m - 1) -> Good] : Upto(m - 1, f)
      BY <2>5
    <2> DEFINE g == [k \in 0..m |-> IF k = m THEN pick(f[m - 1], m) ELSE f[k]]
    <2>7. g \in [0..m -> Good] /\ g[0] = <<>>
      <3>1. f[m - 1] \in Good
        BY <2>4
      <3>2. pick(f[m - 1], m) \in Good
        BY <3>1, <2>4, <1>3
      <3>. QED
        BY <3>2, <2>4, <2>6
    <2>8. ASSUME NEW k \in 1..m PROVE g[k] = pick(g[k - 1], k)
      <3>1. k \in 0..m /\ k - 1 \in 0..m /\ k - 1 # m
        BY <2>4
      <3>2. CASE k = m
        <4>1. g[k - 1] = f[m - 1]
          BY <3>1, <3>2
        <4>2. g[k] = pick(f[m - 1], m)
          BY <3>1, <3>2
        <4>. QED
          BY <4>1, <4>2, <3>2
      <3>3. CASE k # m
        <4>1. k \in 1..(m - 1)
          BY <3>3, <2>4
        <4>2. g[k] = f[k] /\ g[k - 1] = f[k - 1]
          BY <3>1, <3>3
        <4>. QED
          BY <4>1, <4>2, <2>6
      <3>. QED
        BY <3>2, <3>3
    <2>. QED
      BY <2>2, <2>7, <2>8
  <1>6. PICK f \in [0..N -> Good] : Upto(N, f)
    <2>1. N \in 0..N
      BY <1>1
    <2>2. Has(N)
      <3> HIDE DEF Has
      <3>. QED
        BY <2>1, <1>5
    <2>. QED
      BY <2>2
  <1>7. Fitting(f)
    <2>1. ASSUME NEW k \in 0..N PROVE f[k] = IF k = 0 THEN <<>> ELSE pick(f[k - 1], k)
      BY <1>1, <1>6
    <2>. QED
      BY <2>1
  <1>8. Fitting(picked)
    BY <1>7, Zenon
  <1> HIDE DEF picked
  <1> DEFINE Wrong == {k \in 0..N : picked[k] # f[k]}
  <1>9. Wrong = {}
    <2>1. SUFFICES ASSUME Wrong # {} PROVE FALSE
      OBVIOUS
    <2>2. PICK k \in Wrong : \A j \in Wrong : k <= j
      BY <2>1, LeastNumber, Wrong \in SUBSET Nat
    <2>3. k # 0
      BY <1>6, <1>8, <1>1
    <2>4. k \in 1..N /\ k - 1 \in 0..N /\ ~ (k <= k - 1)
      BY <2>2, <2>3, <1>1
    <2>5. picked[k - 1] = f[k - 1]
      BY <2>2, <2>4
    <2>6. picked[k] = pick(picked[k - 1], k)
      BY <2>4, <1>8
    <2>7. f[k] = pick(f[k - 1], k)
      BY <2>4, <1>6
    <2>. QED
      BY <2>2, <2>5, <2>6, <2>7
  <1>10. picked[N] = f[N] /\ f[N] \in Good
    BY <1>9, <1>1
  <1>. QED
    BY <1>2, <1>10 DEF Good

-----------------------------------------------------------------------------
(* Types.                                                                   *)

\* What the application is about to send.
LEMMA CallType ==
  ASSUME SendTyped, app.todo # <<>>
  PROVE  /\ Call \in Calls /\ Call.op \in {"config", "unit", "resend", "flush"}
         /\ Tail(app.todo) \in Seq(Calls)
         /\ CallUnit \in Units /\ Call.unit \in Units /\ Medium \in Media
         /\ WireBytes(CallUnit) \in Nat /\ Len(CallUnit.frags) \in Nat
         /\ CallUnit.config \in Nat
PROOF
  <1>1. app.todo \in Seq(Calls) /\ session.scu \in Units
    BY DEF SendTyped, Sessions
  <1>2. Call \in Calls /\ Tail(app.todo) \in Seq(Calls)
    BY <1>1, HeadTailProperties DEF Call
  <1>3. NoUnit \in Units
    <2>1. <<>> \in Seq(Nat)
      OBVIOUS
    <2>. QED
      BY <2>1 DEF NoUnit, Units
  <1>4. /\ Call.unit \in Units /\ Call.time \in Nat
        /\ Call.op \in {"config", "unit", "resend", "flush"}
    BY <1>2, <1>3 DEF Calls
  <1>5. CallUnit \in Units
    BY <1>1, <1>4 DEF CallUnit
  <1>6. Medium \in Media
    BY <1>4, <1>5 DEF Medium, Media
  <1>7. CallUnit.frags \in Seq(Nat) /\ CallUnit.config \in Nat
    BY <1>5 DEF Units
  <1>. QED
    BY <1>2, <1>4, <1>5, <1>6, <1>7, SumType, LenProperties DEF WireBytes

\* A call that throws leaves the application's record in its type.
LEMMA ThrowsType ==
  ASSUME SendTyped, app.todo # <<>>, Throws
  PROVE  /\ app' \in [at : AppLabels, todo : Seq(Calls), held : Nat, saved : Sessions]
         /\ app'.at = "idle" /\ app'.held = 0 /\ app'.saved = app.saved
         /\ app'.todo \in {Tail(app.todo), <<>>}
PROOF
  <1>1. PICK rest \in {Tail(app.todo), <<>>} :
          app' = [app EXCEPT !.at = "idle", !.todo = rest, !.held = 0]
    BY DEF Throws
  <1>2. rest \in Seq(Calls)
    <2>1. <<>> \in Seq(Calls)
      OBVIOUS
    <2>. QED
      BY <2>1, CallType
  <1>3. app \in [at : AppLabels, todo : Seq(Calls), held : Nat, saved : Sessions]
    BY DEF SendTyped
  <1>4. "idle" \in AppLabels /\ 0 \in Nat
    BY DEF AppLabels
  <1>. QED
    BY <1>1, <1>2, <1>3, <1>4

LEMMA SessionType ==
  ASSUME SendTyped, app.todo # <<>>
  PROVE  /\ SessionDuring(CallUnit) \in Sessions
         /\ GateAfter(CallUnit) \in Nat
         /\ [session EXCEPT !.gate = GateAfter(CallUnit)] \in Sessions
PROOF
  <1>1. CallUnit \in Units /\ CallUnit.config \in Nat
    BY CallType
  <1>2. session \in Sessions /\ app.saved \in Sessions
    BY DEF SendTyped
  <1>3. session.gate \in Nat /\ app.saved.gate \in Nat
    BY <1>2 DEF Sessions
  <1>4. SessionDuring(CallUnit) \in Sessions
    BY <1>1, <1>2 DEF SessionDuring, Sessions
  <1>5. GateAfter(CallUnit) \in Nat
    BY <1>1, <1>3 DEF GateAfter
  <1>. QED
    BY <1>2, <1>4, <1>5 DEF Sessions

LEMMA BeginTyped ==
  ASSUME SendTyped, Begin
  PROVE  SendTyped'
PROOF
  <1> DEFINE App == [at : AppLabels, todo : Seq(Calls), held : Nat, saved : Sessions]
  <1>1. app.todo # <<>> /\ app \in App /\ session \in Sessions
    BY DEF SendTyped, Begin
  <1>2. {"idle", "flush", "reserve"} \subseteq AppLabels
    BY DEF AppLabels
  <1>3. app' \in App /\ session' \in Sessions /\ (app'.at \in {"flush", "reserve", "enqueue"} => app'.todo # <<>>)
    <2>1. CASE Call.op = "flush"
      <3>1. app' = [app EXCEPT !.at = "flush"] /\ session' = session
        BY <2>1 DEF Begin
      <3>. QED
        BY <3>1, <1>1, <1>2
    <2>2. CASE Call.op # "flush" /\ session' = SessionDuring(CallUnit)
                /\ app' = [app EXCEPT !.at = "reserve", !.saved = session]
      BY <2>2, <1>1, <1>2, SessionType
    <2>3. CASE Throws /\ session' = session
      <3>1. app' \in App /\ app'.at = "idle"
        BY <2>3, <1>1, ThrowsType
      <3>. QED
        BY <3>1, <2>3, <1>1
    <2>. QED
      BY <2>1, <2>2, <2>3 DEF Begin
  <1> HIDE DEF App
  <1>4. UNCHANGED <<nextSeq, queue, queuedBytes, sender, failed, stopping, waiting, history,
                    marked, rtcp, remote, controls, accepted, requeued>>
    BY DEF Begin
  <1>. QED
    BY <1>3, <1>4 DEF SendTyped, App

LEMMA ReserveTyped ==
  ASSUME SendTyped, ReserveQueueBytes
  PROVE  SendTyped'
PROOF
  <1> DEFINE App == [at : AppLabels, todo : Seq(Calls), held : Nat, saved : Sessions]
  <1>1. app.todo # <<>> /\ app \in App /\ session \in Sessions /\ queuedBytes \in Int
    BY DEF SendTyped, ReserveQueueBytes
  <1>2. WireBytes(CallUnit) \in Nat
    BY <1>1, CallType
  <1>3. "enqueue" \in AppLabels
    BY DEF AppLabels
  <1>4. app' \in App /\ session' \in Sessions /\ queuedBytes' \in Int
          /\ (app'.at \in {"flush", "reserve", "enqueue"} => app'.todo # <<>>)
    <2>1. CASE Throws /\ session' = app.saved /\ queuedBytes' = queuedBytes
      <3>1. app' \in App /\ app'.at = "idle"
        BY <2>1, <1>1, ThrowsType
      <3>. QED
        BY <3>1, <2>1, <1>1
    <2>2. CASE queuedBytes' = queuedBytes + WireBytes(CallUnit) /\ session' = session
                /\ app' = [app EXCEPT !.at = "enqueue", !.held = WireBytes(CallUnit)]
      <3>1. queuedBytes + WireBytes(CallUnit) \in Int
        BY <1>1, <1>2
      <3>2. app' \in App /\ app'.todo = app.todo
        BY <2>2, <1>1, <1>2, <1>3
      <3>. QED
        BY <3>1, <3>2, <2>2, <1>1
    <2>3. CASE UNCHANGED <<app, session, queuedBytes>>
      BY <2>3, <1>1 DEF SendTyped
    <2>. QED
      BY <2>1, <2>2, <2>3 DEF ReserveQueueBytes
  <1> HIDE DEF App
  <1>5. UNCHANGED <<nextSeq, queue, sender, failed, stopping, history, marked, rtcp, remote,
                    controls, accepted, requeued>>
    BY DEF ReserveQueueBytes
  <1>. QED
    BY <1>4, <1>5 DEF SendTyped, App

LEMMA EnqueueTyped ==
  ASSUME SendTyped, EnqueueReserved
  PROVE  SendTyped'
PROOF
  <1> DEFINE App == [at : AppLabels, todo : Seq(Calls), held : Nat, saved : Sessions]
  <1>1. /\ app.todo # <<>> /\ app \in App /\ session \in Sessions /\ queuedBytes \in Int
        /\ queue \in Seq(Packet) /\ accepted \in Seq(Media) /\ nextSeq \in Slots
    BY DEF SendTyped, EnqueueReserved
  <1>2. /\ Medium \in Media /\ Len(CallUnit.frags) \in Nat /\ Tail(app.todo) \in Seq(Calls)
    BY <1>1, CallType
  <1>3. "idle" \in AppLabels
    BY DEF AppLabels
  <1>4. nextSeq' \in Slots
    <2>1. nextSeq' = (nextSeq + Len(CallUnit.frags)) % SeqSpace
      BY DEF EnqueueReserved
    <2>2. nextSeq + Len(CallUnit.frags) \in Int
      BY <1>1, <1>2, SlotFacts
    <2>. QED
      BY <2>1, <2>2, Modulo
  <1>5. /\ app' \in App /\ session' \in Sessions /\ queuedBytes' \in Int
        /\ queue' \in Seq(Packet) /\ accepted' \in Seq(Media)
        /\ app'.at = "idle"
    <2>1. CASE failed \/ stopping
      <3>1. /\ Throws /\ session' = app.saved /\ ReleaseQueueReservation
            /\ queue' = queue /\ accepted' = accepted
        BY <2>1 DEF EnqueueReserved
      <3>2. app' \in App /\ app'.at = "idle"
        BY <3>1, <1>1, ThrowsType
      <3>3. queuedBytes' \in Int
        BY <3>1, <1>1 DEF ReleaseQueueReservation
      <3>. QED
        BY <3>1, <3>2, <3>3, <1>1
    <2>2. CASE ~ (failed \/ stopping)
      <3>1. /\ queue' = queue \o Packets(Medium, nextSeq)
            /\ accepted' = Append(accepted, Medium)
            /\ session' = [session EXCEPT !.gate = GateAfter(CallUnit)]
            /\ app' = [app EXCEPT !.at = "idle", !.todo = Tail(app.todo), !.held = 0]
            /\ queuedBytes' = queuedBytes
        BY <2>2 DEF EnqueueReserved
      <3>2. queue' \in Seq(Packet)
        BY <3>1, <1>1, <1>2, PacketsWeigh, ConcatProperties
      <3>3. accepted' \in Seq(Media)
        BY <3>1, <1>1, <1>2, AppendProperties
      <3>4. session' \in Sessions
        BY <3>1, <1>1, SessionType
      <3>5. app' \in App /\ app'.at = "idle"
        BY <3>1, <1>1, <1>2, <1>3
      <3>. QED
        BY <3>1, <3>2, <3>3, <3>4, <3>5, <1>1
    <2>. QED
      BY <2>1, <2>2
  <1> HIDE DEF App
  <1>6. UNCHANGED <<sender, failed, stopping, history, marked, rtcp, remote, controls, requeued>>
    BY DEF EnqueueReserved
  <1>. QED
    BY <1>4, <1>5, <1>6 DEF SendTyped, App

LEMMA FlushTyped ==
  ASSUME SendTyped, Flush
  PROVE  SendTyped'
PROOF
  <1> DEFINE App == [at : AppLabels, todo : Seq(Calls), held : Nat, saved : Sessions]
  <1>1. app \in App /\ (app.at = "flush" => app.todo # <<>>)
    BY DEF SendTyped
  <1>2. {"idle", "stop"} \subseteq AppLabels
    BY DEF AppLabels
  <1>3. app' \in App /\ (app'.at \in {"flush", "reserve", "enqueue"} => app'.todo # <<>>)
    <2>1. CASE app' = app
      BY <2>1, <1>1 DEF SendTyped
    <2>2. CASE app.at = "flush" /\ Throws
      BY <2>2, <1>1, ThrowsType
    <2>3. CASE app.at = "flush" /\ app' = [app EXCEPT !.at = "idle", !.todo = Tail(app.todo)]
      BY <2>3, <1>1, <1>2, CallType
    <2>4. CASE app' = [app EXCEPT !.at = "stop"]
      BY <2>4, <1>1, <1>2
    <2>. QED
      BY <2>1, <2>2, <2>3, <2>4 DEF Flush
  <1> HIDE DEF App
  <1>4. UNCHANGED <<session, nextSeq, queue, queuedBytes, sender, failed, stopping, history,
                    marked, rtcp, remote, controls, accepted, requeued>>
    BY DEF Flush
  <1>. QED
    BY <1>3, <1>4 DEF SendTyped, App

LEMMA DestroyTyped ==
  ASSUME SendTyped, Destroy
  PROVE  SendTyped'
PROOF
  <1> DEFINE App == [at : AppLabels, todo : Seq(Calls), held : Nat, saved : Sessions]
  <1>1. app \in App /\ stopping \in BOOLEAN
    BY DEF SendTyped
  <1>2. /\ \E l \in {"leave", "join", "joinRtcp", "gone"} : app' = [app EXCEPT !.at = l]
        /\ stopping' \in {stopping, TRUE}
    BY DEF Destroy
  <1>3. /\ app' \in App /\ stopping' \in BOOLEAN
        /\ (app'.at \in {"flush", "reserve", "enqueue"} => app'.todo # <<>>)
    BY <1>1, <1>2 DEF AppLabels
  <1> HIDE DEF App
  <1>4. UNCHANGED <<session, nextSeq, queue, queuedBytes, sender, failed, history, marked, rtcp,
                    remote, controls, accepted, requeued>>
    BY DEF Destroy
  <1>. QED
    BY <1>3, <1>4 DEF SendTyped, App

LEMMA PopTyped ==
  ASSUME SendTyped, PopMlvcControl
  PROVE  SendTyped'
PROOF
  <1> DEFINE Controls == [seen : SUBSET Nat, queue : Seq(Nat), popped : Seq(Nat)]
  <1>1. controls \in Controls /\ controls.queue # <<>>
    BY DEF SendTyped, PopMlvcControl
  <1>2. /\ Tail(controls.queue) \in Seq(Nat)
        /\ Append(controls.popped, Head(controls.queue)) \in Seq(Nat)
    <2>1. controls.queue \in Seq(Nat) /\ controls.popped \in Seq(Nat)
      BY <1>1
    <2>2. Tail(controls.queue) \in Seq(Nat) /\ Head(controls.queue) \in Nat
      BY <1>1, <2>1, HeadTailProperties
    <2>. QED
      BY <2>1, <2>2, AppendProperties
  <1>3. controls' \in Controls
    <2>1. controls' = [controls EXCEPT !.queue = Tail(controls.queue),
                         !.popped = Append(controls.popped, Head(controls.queue))]
      BY DEF PopMlvcControl
    <2>. QED
      BY <2>1, <1>1, <1>2
  <1> HIDE DEF Controls
  <1>4. UNCHANGED <<app, session, nextSeq, queue, queuedBytes, sender, failed, stopping, waiting,
                    history, marked, rtcp, remote, accepted, requeued>>
    BY DEF PopMlvcControl
  <1>. QED
    BY <1>3, <1>4 DEF SendTyped, Controls

LEMMA LoopPopTyped ==
  ASSUME SendTyped, SendLoopPop
  PROVE  SendTyped'
PROOF
  <1> DEFINE Sender == [at : {"wait", "send", "sent", "done"}, packet : Seq(Packet)]
  <1>1. queue \in Seq(Packet) /\ sender \in Sender
    BY DEF SendTyped
  <1>2. queue' \in Seq(Packet) /\ sender' \in Sender
    <2>1. CASE queue' = queue /\ sender' = sender
      BY <2>1, <1>1
    <2>2. CASE queue' = queue /\ sender' = [sender EXCEPT !.at = "done"]
      BY <2>2, <1>1
    <2>3. CASE /\ queue # <<>>
               /\ queue' = Tail(queue) /\ sender' = [at |-> "send", packet |-> <<Head(queue)>>]
      BY <2>3, <1>1, BytesHeadTail
    <2>. QED
      BY <2>1, <2>2, <2>3 DEF SendLoopPop
  <1> HIDE DEF Sender
  <1>3. UNCHANGED <<app, session, nextSeq, queuedBytes, failed, stopping, history, marked, rtcp,
                    remote, controls, accepted, requeued>>
    BY DEF SendLoopPop
  <1>. QED
    BY <1>2, <1>3 DEF SendTyped, Sender

\* The packet the send thread holds and the history that takes it in.
LEMMA RememberType ==
  ASSUME SendTyped, NEW p, SendLoopSend(p)
  PROVE  /\ p \in Packet /\ history' \in Seq(Packet)
         /\ Sequences(history') \subseteq Slots
PROOF
  <1>1. sender.packet \in Seq(Packet) /\ sender.packet = <<p>> /\ history \in Seq(Packet)
    BY DEF SendTyped, SendLoopSend
  <1>2. p \in Packet
    <2>1. sender.packet[1] \in Packet
      BY <1>1, ElementOfSeq
    <2>. QED
      BY <2>1, <1>1
  <1> DEFINE changed == [i \in 1..Len(history) |-> IF history[i].seq = p.seq THEN p ELSE history[i]]
             longer == IF Known(p.seq) THEN changed ELSE Append(history, p)
  <1>3. longer \in Seq(Packet)
    <2>1. changed \in Seq(Packet)
      <3>1. \A i \in 1..Len(history) : history[i] \in Packet
        BY <1>1, ElementOfSeq
      <3>. QED
        BY <3>1, <1>1, <1>2, LenProperties, IsASeq
    <2>2. Append(history, p) \in Seq(Packet)
      BY <1>1, <1>2, AppendProperties
    <2> HIDE DEF changed
    <2>. QED
      BY <2>1, <2>2
  <1>4. history' = IF Len(longer) > HistoryLimit THEN Tail(longer) ELSE longer
    BY DEF SendLoopSend, Remember
  <1>5. history' \in Seq(Packet)
    <2> HIDE DEF longer
    <2>1. CASE Len(longer) > HistoryLimit
      <3>1. longer # <<>>
        BY <2>1, SendQueueAssumption
      <3>. QED
        BY <3>1, <2>1, <1>3, <1>4, HeadTailProperties
    <2>2. CASE ~ (Len(longer) > HistoryLimit)
      BY <2>2, <1>3, <1>4
    <2>. QED
      BY <2>1, <2>2
  <1>6. Sequences(history') \subseteq Slots
    <2>1. ASSUME NEW i \in 1..Len(history') PROVE history'[i].seq \in Slots
      <3>1. history'[i] \in Packet
        BY <1>5, ElementOfSeq
      <3>. QED
        BY <3>1 DEF Packet
    <2>. QED
      BY <2>1 DEF Sequences
  <1>. QED
    BY <1>2, <1>5, <1>6

LEMMA SequencesType ==
  ASSUME NEW s \in Seq(Packet)
  PROVE  Sequences(s) \subseteq Slots
PROOF
  <1>1. ASSUME NEW i \in 1..Len(s) PROVE s[i].seq \in Slots
    <2>1. s[i] \in Packet
      BY ElementOfSeq
    <2>. QED
      BY <2>1 DEF Packet
  <1>. QED
    BY <1>1 DEF Sequences

LEMMA LoopSendTyped ==
  ASSUME SendTyped, NEW p, SendLoopSend(p)
  PROVE  SendTyped'
PROOF
  <1> DEFINE Sender == [at : {"wait", "send", "sent", "done"}, packet : Seq(Packet)]
             Requeued == [again : SUBSET Slots, forgotten : SUBSET Slots]
  <1>1. sender \in Sender /\ requeued \in Requeued /\ marked \subseteq Slots
    BY DEF SendTyped
  <1>2. sender' \in Sender
    BY <1>1 DEF SendLoopSend
  <1>3. history' \in Seq(Packet) /\ Sequences(history) \subseteq Slots
    BY RememberType, SequencesType DEF SendTyped
  <1>4. marked' \subseteq Slots
    BY <1>1 DEF SendLoopSend
  <1>5. requeued' \in Requeued
    <2>1. requeued' = [requeued EXCEPT !.forgotten =
                         requeued.forgotten \cup (Sequences(history) \ Sequences(history'))]
      BY DEF SendLoopSend
    <2>2. requeued.forgotten \cup (Sequences(history) \ Sequences(history')) \in SUBSET Slots
      BY <1>1, <1>3
    <2>. QED
      BY <2>1, <2>2, <1>1
  <1> HIDE DEF Sender, Requeued
  <1>6. UNCHANGED <<app, session, nextSeq, queue, queuedBytes, failed, stopping, waiting, rtcp,
                    remote, controls, accepted>>
    BY DEF SendLoopSend
  <1>. QED
    BY <1>2, <1>3, <1>4, <1>5, <1>6 DEF SendTyped, Sender, Requeued

LEMMA LoopFinishTyped ==
  ASSUME SendTyped, SendLoopFinish
  PROVE  SendTyped'
PROOF
  <1>1. queuedBytes \in Int /\ BytesOf(sender.packet) \in Nat
    BY BytesType DEF SendTyped
  <1>2. queuedBytes' \in Int
    BY <1>1 DEF SendLoopFinish
  <1>3. sender' \in [at : {"wait", "send", "sent", "done"}, packet : Seq(Packet)]
    <2>1. <<>> \in Seq(Packet)
      OBVIOUS
    <2>. QED
      BY <2>1 DEF SendLoopFinish
  <1>4. UNCHANGED <<app, session, nextSeq, queue, failed, stopping, history, marked, rtcp, remote,
                    controls, accepted, requeued>>
    BY DEF SendLoopFinish
  <1>. QED
    BY <1>2, <1>3, <1>4 DEF SendTyped

LEMMA LoopFailTyped ==
  ASSUME SendTyped, SendLoopFail
  PROVE  SendTyped'
PROOF
  <1>1. <<>> \in Seq(Packet)
    OBVIOUS
  <1>2. sender' \in [at : {"wait", "send", "sent", "done"}, packet : Seq(Packet)]
    BY <1>1 DEF SendLoopFail
  <1>3. queuedBytes' \in Int /\ queue' \in Seq(Packet) /\ failed' \in BOOLEAN /\ stopping' \in BOOLEAN
    BY <1>1 DEF SendLoopFail
  <1>4. UNCHANGED <<app, session, nextSeq, history, marked, rtcp, remote, controls, accepted,
                    requeued>>
    BY DEF SendLoopFail
  <1>. QED
    BY <1>2, <1>3, <1>4 DEF SendTyped

\* The commands kept are the newest of the queue.
LEMMA LatestType ==
  ASSUME NEW S, NEW s \in Seq(S), NEW n \in Nat
  PROVE  Latest(s, n) \in Seq(S)
PROOF
  <1>1. Len(s) \in Nat
    BY LenProperties
  <1>2. CASE Len(s) > n
    <2>1. \A i \in (Len(s) - n + 1)..Len(s) : s[i] \in S
      <3>1. \A i \in (Len(s) - n + 1)..Len(s) : i \in 1..Len(s)
        BY <1>1, <1>2
      <3>. QED
        BY <3>1, ElementOfSeq
    <2>2. SubSeq(s, Len(s) - n + 1, Len(s)) \in Seq(S)
      BY <2>1, <1>1, <1>2, SubSeqProperties
    <2>. QED
      BY <2>2, <1>2 DEF Latest
  <1>3. CASE ~ (Len(s) > n)
    BY <1>3 DEF Latest
  <1>. QED
    BY <1>2, <1>3

LEMMA HandleTyped ==
  ASSUME SendTyped, NEW m, NEW S, m.nacks \in Seq(S), m.control \in Nat, HandleRtcpPacket(m)
  PROVE  SendTyped'
PROOF
  <1> DEFINE Controls == [seen : SUBSET Nat, queue : Seq(Nat), popped : Seq(Nat)]
             Rtcp == [at : {"idle", "requeue"}, batch : Seq(Packet)]
  <1>1. controls \in Controls /\ rtcp \in Rtcp /\ marked \subseteq Slots
    BY DEF SendTyped
  <1>2. Batch(m.nacks) \in Seq(Packet)
    BY BatchPicks DEF SendTyped
  <1>3. /\ controls' \in Controls /\ rtcp' \in Rtcp /\ marked' \subseteq Slots
    <2>1. CASE ~ m.report
      BY <2>1, <1>1 DEF HandleRtcpPacket
    <2>2. CASE m.report
      <3>1. controls' \in Controls
        <4>1. Append(controls.queue, m.control) \in Seq(Nat)
          BY <1>1, AppendProperties
        <4>2. Latest(Append(controls.queue, m.control), ControlLimit) \in Seq(Nat)
          BY <4>1, LatestType, SendQueueAssumption
        <4>3. controls.seen \cup {m.control} \in SUBSET Nat
          BY <1>1
        <4>4. controls' = IF Fresh(m)
                          THEN [controls EXCEPT !.seen = controls.seen \cup {m.control},
                                  !.queue = Latest(Append(controls.queue, m.control), ControlLimit)]
                          ELSE controls
          BY <2>2 DEF HandleRtcpPacket
        <4>. QED
          BY <4>2, <4>3, <4>4, <1>1
      <3>2. rtcp' \in Rtcp
        BY <2>2, <1>1, <1>2 DEF HandleRtcpPacket
      <3>3. marked' \subseteq Slots
        BY <2>2, <1>1, <1>2, SequencesType DEF HandleRtcpPacket
      <3>. QED
        BY <3>1, <3>2, <3>3
    <2>. QED
      BY <2>1, <2>2
  <1> HIDE DEF Controls, Rtcp
  <1>4. UNCHANGED <<app, session, nextSeq, queue, queuedBytes, sender, failed, stopping, waiting,
                    history, accepted, requeued>>
    BY DEF HandleRtcpPacket
  <1>. QED
    BY <1>3, <1>4 DEF SendTyped, Controls, Rtcp

LEMMA RequeueTyped ==
  ASSUME SendTyped, QueueRetransmissions
  PROVE  SendTyped'
PROOF
  <1> DEFINE Requeued == [again : SUBSET Slots, forgotten : SUBSET Slots]
             Rtcp == [at : {"idle", "requeue"}, batch : Seq(Packet)]
  <1>1. /\ rtcp.batch \in Seq(Packet) /\ queue \in Seq(Packet) /\ queuedBytes \in Int
        /\ requeued \in Requeued
    BY DEF SendTyped
  <1>2. BytesOf(rtcp.batch) \in Nat /\ Sequences(rtcp.batch) \subseteq Slots
    BY <1>1, BytesType, SequencesType
  <1>3. queuedBytes' \in Int /\ queue' \in Seq(Packet) /\ requeued' \in Requeued
    <2>1. CASE UNCHANGED <<queue, queuedBytes, requeued>>
      BY <2>1, <1>1
    <2>2. CASE /\ queuedBytes' = queuedBytes + BytesOf(rtcp.batch)
               /\ queue' = queue \o rtcp.batch
               /\ requeued' = [requeued EXCEPT !.again = requeued.again \cup Sequences(rtcp.batch)]
      <3>1. queuedBytes' \in Int
        BY <2>2, <1>1, <1>2
      <3>2. queue' \in Seq(Packet)
        BY <2>2, <1>1, ConcatProperties
      <3>3. requeued.again \cup Sequences(rtcp.batch) \in SUBSET Slots
        BY <1>1, <1>2
      <3>4. requeued' \in Requeued
        BY <3>3, <2>2, <1>1
      <3>. QED
        BY <3>1, <3>2, <3>4
    <2>. QED
      BY <2>1, <2>2 DEF QueueRetransmissions
  <1>4. rtcp' \in Rtcp
    <2>1. <<>> \in Seq(Packet)
      OBVIOUS
    <2>. QED
      BY <2>1 DEF QueueRetransmissions
  <1> HIDE DEF Requeued, Rtcp
  <1>5. UNCHANGED <<app, session, nextSeq, sender, failed, stopping, history, marked, remote,
                    controls, accepted>>
    BY DEF QueueRetransmissions
  <1>. QED
    BY <1>3, <1>4, <1>5 DEF SendTyped, Requeued, Rtcp

LEMMA TimeTyped ==
  ASSUME SendTyped, RetransmitTimePasses
  PROVE  SendTyped'
BY DEF SendTyped, RetransmitTimePasses

LEMMA DeltaType ==
  ASSUME NEW s \in Int, NEW t \in Int
  PROVE  Delta(s, t) \in Slots
PROOF
  <1>1. s - t \in Int
    OBVIOUS
  <1>. QED
    BY <1>1, Modulo DEF Delta

LEMMA SkippedType ==
  ASSUME LinkTyped, NEW s \in Slots
  PROVE  ToSet(Skipped(s)) \subseteq Slots
PROOF
  <1> DEFINE gap == Delta(s, seqs.highest) - 1
             tracked == IF gap > SeqHistory THEN SeqHistory ELSE gap
  <1>1. s \in Int /\ seqs.highest \in Int
    BY SlotFacts DEF LinkTyped, Slots
  <1>2. Delta(s, seqs.highest) \in Int
    <2>1. Delta(s, seqs.highest) \in Slots
      BY <1>1, DeltaType
    <2>. QED
      BY <2>1 DEF Slots
  <1>3. tracked \in Int
    BY <1>2, ReceiverAssumption
  <1>4. Skipped(s) = [i \in 1..tracked |-> (s - tracked + i - 1) % SeqSpace]
    BY DEF Skipped
  <1> HIDE DEF tracked
  <1>5. ASSUME NEW i \in 1..tracked PROVE (s - tracked + i - 1) % SeqSpace \in Slots
    <2>1. s - tracked + i - 1 \in Int
      BY <1>1, <1>3
    <2>. QED
      BY <2>1, Modulo
  <1>6. Len(Skipped(s)) \in Nat /\ DOMAIN Skipped(s) = 1..tracked
        /\ \A i \in DOMAIN Skipped(s) : Skipped(s)[i] \in Slots
    <2>1. \A i \in DOMAIN Skipped(s) : Skipped(s)[i] \in Slots
      BY <1>4, <1>5
    <2>2. DOMAIN Skipped(s) = 1..tracked
      BY <1>4
    <2>3. Len(Skipped(s)) \in Nat
      <3>1. CASE tracked \in Nat
        BY <3>1, <1>4
      <3>2. CASE tracked \notin Nat
        <4>1. 1..tracked = 1..0
          BY <3>2, <1>3
        <4>2. Skipped(s) = [i \in 1..0 |-> (s - tracked + i - 1) % SeqSpace]
          BY <4>1, <1>4
        <4>. QED
          BY <4>2
      <3>. QED
        BY <3>1, <3>2
    <2>. QED
      BY <2>1, <2>2, <2>3
  <1>7. ToSet(Skipped(s)) = {Skipped(s)[i] : i \in DOMAIN Skipped(s)}
    BY Zenon DEF ToSet
  <1>. QED
    BY <1>6, <1>7

LEMMA TrackType ==
  ASSUME LinkTyped, NEW s \in Slots
  PROVE  LET r == TrackSequence(s) IN
         /\ DOMAIN r = {"have", "highest", "seen", "gaps", "order", "lost"}
         /\ r.highest \in Slots /\ r.gaps \subseteq Slots
PROOF
  <1>1. /\ DOMAIN seqs = {"have", "highest", "seen", "gaps", "order", "lost"}
        /\ seqs.highest \in Slots /\ seqs.gaps \subseteq Slots
    BY DEF LinkTyped
  <1>2. ToSet(Skipped(s)) \subseteq Slots
    BY SkippedType
  <1> DEFINE old == [seqs EXCEPT !.seen = Newest(Append(seqs.seen, s))]
             order == seqs.order \o Skipped(s)
             expired == ToSet(SubSeq(order, 1, Len(order) - Len(Newest(order))))
             lost == seqs.lost + IF s = seqs.highest THEN 0 ELSE Delta(s, seqs.highest) - 1
             fewer == IF s \in seqs.gaps /\ seqs.lost > 0 THEN seqs.lost - 1 ELSE seqs.lost
             first == [old EXCEPT !.have = TRUE, !.highest = s]
             ahead == [old EXCEPT !.highest = s, !.lost = lost, !.order = Newest(order),
                                  !.gaps = (seqs.gaps \cup ToSet(Skipped(s))) \ expired]
             late == [old EXCEPT !.gaps = seqs.gaps \ {s}, !.lost = fewer]
  <1>3. /\ DOMAIN old = {"have", "highest", "seen", "gaps", "order", "lost"}
        /\ old.highest = seqs.highest /\ old.gaps = seqs.gaps /\ old.lost = seqs.lost
        /\ old.order = seqs.order
    BY <1>1
  <1>4. TrackSequence(s) \in {first, ahead, late}
    <2>1. CASE ~ seqs.have
      <3>1. TrackSequence(s) = first
        BY <2>1 DEF TrackSequence
      <3>. QED
        BY <3>1
    <2>2. CASE seqs.have /\ Ahead(s, seqs.highest)
      <3>1. TrackSequence(s) = ahead
        BY <2>2, <1>3 DEF TrackSequence
      <3> HIDE DEF ahead
      <3>. QED
        BY <3>1
    <2>3. CASE ~ (~ seqs.have) /\ ~ (seqs.have /\ Ahead(s, seqs.highest))
      <3>1. TrackSequence(s) = late
        BY <2>3, <1>3 DEF TrackSequence
      <3> HIDE DEF late
      <3>. QED
        BY <3>1
    <2>. QED
      BY <2>1, <2>2, <2>3
  <1> HIDE DEF old, order, expired, lost, fewer
  <1>5. DOMAIN first = DOMAIN old /\ first.highest = s /\ first.gaps = seqs.gaps
    BY <1>3
  <1>6. /\ DOMAIN ahead = DOMAIN old /\ ahead.highest = s
        /\ ahead.gaps = (seqs.gaps \cup ToSet(Skipped(s))) \ expired
    BY <1>3
  <1>7. DOMAIN late = DOMAIN old /\ late.highest = seqs.highest /\ late.gaps = seqs.gaps \ {s}
    BY <1>3
  <1> HIDE DEF first, ahead, late
  <1>8. CASE TrackSequence(s) = first
    BY <1>8, <1>1, <1>3, <1>5
  <1>9. CASE TrackSequence(s) = ahead
    BY <1>9, <1>1, <1>2, <1>3, <1>6
  <1>10. CASE TrackSequence(s) = late
    BY <1>10, <1>1, <1>3, <1>7
  <1>. QED
    BY <1>4, <1>8, <1>9, <1>10

\* A round of NACKs is a sequence of numbers, of whatever kind.
LEMMA NackType ==
  ASSUME LinkTyped, NEW oldest
  PROVE  \E S : PendingNacks(oldest) \in Seq(S)
PROOF
  <1> DEFINE due == seqs.gaps \cap ToSet(SubSeq(seqs.order, 1, oldest))
             count == IF Cardinality(due) > NackLimit THEN NackLimit ELSE Cardinality(due)
             pick(k) == CHOOSE n \in due : Cardinality({m \in due : m < n}) = k - 1
             S == {pick(k) : k \in 1..count}
  <1>1. Cardinality(due) \in Nat
    <2>1. due \in SUBSET Slots
      BY DEF LinkTyped
    <2>2. IsFiniteSet(Slots)
      <3>1. 0 \in Int /\ SeqSpace - 1 \in Int
        BY SlotFacts
      <3>. QED
        BY <3>1, FS_Interval DEF Slots
    <2>3. IsFiniteSet(due)
      <3> HIDE DEF due
      <3>. QED
        BY <2>1, <2>2, FS_Subset
    <2>. QED
      BY <2>3, FS_CardinalityType
  <1>2. count \in Nat
    BY <1>1, ReceiverAssumption
  <1>3. PendingNacks(oldest) = [k \in 1..count |-> pick(k)]
    BY DEF PendingNacks
  <1> HIDE DEF count, pick
  <1>4. \A k \in 1..count : pick(k) \in S
    OBVIOUS
  <1> HIDE DEF S
  <1>5. PendingNacks(oldest) \in Seq(S)
    BY <1>2, <1>3, <1>4, IsASeq
  <1>. QED
    BY <1>5

LEMMA SpendType ==
  ASSUME LinkTyped, NEW what \in BudgetFields, Spend(what)
  PROVE  budget' \in [BudgetFields -> Nat]
PROOF
  <1>1. budget \in [BudgetFields -> Nat] /\ budget[what] > 0
        /\ budget' = [budget EXCEPT ![what] = budget[what] - 1]
    BY DEF LinkTyped, Spend
  <1>2. budget[what] - 1 \in Nat
    BY <1>1
  <1>. QED
    BY <1>1, <1>2

LEMMA SendOutType ==
  ASSUME LinkTyped, NEW from, NEW report, NEW nacks, NEW control \in Nat,
         \E S : nacks \in Seq(S), Send(from, report, nacks, control)
  PROVE  /\ \A m \in feedback' :
              m.index \in Nat /\ m.control \in Nat /\ \E S : m.nacks \in Seq(S)
         /\ endpoint' \in [tx : Nat, highest : Nat, window : SUBSET Nat, heard : Seq(Nat)]
         /\ UNCHANGED <<endpoint.highest, endpoint.window, endpoint.heard>>
PROOF
  <1>1. /\ endpoint \in [tx : Nat, highest : Nat, window : SUBSET Nat, heard : Seq(Nat)]
        /\ budget.keyed \in Nat
    BY DEF LinkTyped, BudgetFields
  <1>2. endpoint.tx + budget.keyed \in Nat
    BY <1>1
  <1>3. endpoint' = [endpoint EXCEPT !.tx = endpoint.tx + budget.keyed]
    BY DEF Send
  <1>4. /\ endpoint' \in [tx : Nat, highest : Nat, window : SUBSET Nat, heard : Seq(Nat)]
        /\ UNCHANGED <<endpoint.highest, endpoint.window, endpoint.heard>>
    BY <1>1, <1>2, <1>3
  <1>5. ASSUME NEW m \in feedback'
        PROVE  m.index \in Nat /\ m.control \in Nat /\ \E S : m.nacks \in Seq(S)
    <2>1. CASE m \in feedback
      BY <2>1 DEF LinkTyped
    <2>2. CASE m = [index |-> endpoint.tx, from |-> from, report |-> report,
                    nacks |-> nacks, control |-> control]
      <3>1. m.index = endpoint.tx /\ m.control = control /\ m.nacks = nacks
        BY <2>2
      <3>. QED
        BY <3>1, <1>1
    <2>. QED
      BY <2>1, <2>2 DEF Send
  <1>. QED
    BY <1>4, <1>5

LEMMA VerifiedType ==
  ASSUME LinkTyped, NEW index \in Nat
  PROVE  Verified(index) \in [tx : Nat, highest : Nat, window : SUBSET Nat, heard : Seq(Nat)]
PROOF
  <1> DEFINE high == IF index > endpoint.highest THEN index ELSE endpoint.highest
             win == {i \in endpoint.window \cup {index} : i > high - ReplayWindow}
  <1>1. endpoint \in [tx : Nat, highest : Nat, window : SUBSET Nat, heard : Seq(Nat)]
    BY DEF LinkTyped
  <1>2. high \in Nat /\ win \in SUBSET Nat
    BY <1>1
  <1>3. Append(endpoint.heard, index) \in Seq(Nat)
    BY <1>1, AppendProperties
  <1>4. Verified(index) = [endpoint EXCEPT !.highest = high,
                             !.heard = Append(endpoint.heard, index), !.window = win]
    BY DEF Verified
  <1> HIDE DEF high, win
  <1>. QED
    BY <1>1, <1>2, <1>3, <1>4

\* A received packet changes the receiver alone.
LEMMA ReceiveTyped ==
  ASSUME LinkTyped, NEW p \in net, NEW expired, ReceivePacket(p, expired)
  PROVE  /\ DOMAIN seqs' = {"have", "highest", "seen", "gaps", "order", "lost"}
         /\ seqs'.highest \in Slots /\ seqs'.gaps \subseteq Slots
PROOF
  <1>1. p \in Packet
    BY DEF LinkTyped
  <1>2. p.seq \in Slots
    BY <1>1 DEF Packet
  <1>3. CASE seqs' = seqs
    BY <1>3 DEF LinkTyped
  <1>4. CASE seqs' = TrackSequence(p.seq)
    BY <1>2, <1>4, TrackType
  <1>. QED
    BY <1>3, <1>4 DEF ReceivePacket

\* What a step of the link does to the sender.
LEMMA SenderCases ==
  ASSUME [Next]_vars
  PROVE  \/ UNCHANGED sendVars
         \/ Begin \/ ReserveQueueBytes \/ EnqueueReserved \/ Flush \/ Destroy
         \/ PopMlvcControl \/ SendLoopPop \/ SendLoopFinish \/ SendLoopFail
         \/ \E p : SendLoopSend(p)
         \/ \E m \in feedback : HandleRtcpPacket(m)
         \/ QueueRetransmissions \/ RetransmitTimePasses
PROOF
  <1>1. CASE SenderSteps
    BY <1>1 DEF SenderSteps, ApplicationNext, SendLoopQuiet
  <1>2. CASE Transmit
    BY <1>2 DEF Transmit
  <1>3. CASE SendFails
    BY <1>3 DEF SendFails
  <1>4. CASE MarkExpires
    BY <1>4 DEF MarkExpires
  <1>5. CASE Hear
    BY <1>5 DEF Hear, IgnoreRtcpPacket
  <1>6. CASE Deliver \/ DeliverLate \/ Lose \/ ReceiverSteps \/ ReceiverStops \/ Answer \/ Nack
                \/ Command \/ UNCHANGED vars
    BY <1>6 DEF Deliver, DeliverLate, Lose, ReceiverSteps, ReceiverStops, Answer, Nack, Command,
                vars
  <1>. QED
    BY <1>1, <1>2, <1>3, <1>4, <1>5, <1>6 DEF Next

LEMMA SendStepTyped ==
  ASSUME Typed, [Next]_vars
  PROVE  SendTyped'
PROOF
  <1>1. SendTyped
    BY DEF Typed
  <1>2. CASE UNCHANGED sendVars
    BY <1>1, <1>2 DEF sendVars, SendTyped
  <1>3. CASE Begin \/ ReserveQueueBytes \/ EnqueueReserved \/ Flush \/ Destroy
    BY <1>1, <1>3, BeginTyped, ReserveTyped, EnqueueTyped, FlushTyped, DestroyTyped
  <1>4. CASE PopMlvcControl \/ SendLoopPop \/ SendLoopFinish \/ SendLoopFail
    BY <1>1, <1>4, PopTyped, LoopPopTyped, LoopFinishTyped, LoopFailTyped
  <1>5. CASE \E p : SendLoopSend(p)
    BY <1>1, <1>5, LoopSendTyped
  <1>6. ASSUME NEW m \in feedback, HandleRtcpPacket(m) PROVE SendTyped'
    <2>1. m.control \in Nat /\ \E S : m.nacks \in Seq(S)
      BY DEF Typed, LinkTyped
    <2>. QED
      BY <1>1, <1>6, <2>1, HandleTyped
  <1>7. CASE QueueRetransmissions \/ RetransmitTimePasses
    BY <1>1, <1>7, RequeueTyped, TimeTyped
  <1>. QED
    BY <1>2, <1>3, <1>4, <1>5, <1>6, <1>7, SenderCases

LEMMA LinkStepTyped ==
  ASSUME Typed, [Next]_vars
  PROVE  LinkTyped'
PROOF
  <1> DEFINE Endpoint == [tx : Nat, highest : Nat, window : SUBSET Nat, heard : Seq(Nat)]
             Heard(all) == \A m \in all : m.index \in Nat /\ m.control \in Nat /\ \E S : m.nacks \in Seq(S)
             Tracked(s) == /\ DOMAIN s = {"have", "highest", "seen", "gaps", "order", "lost"}
                           /\ s.highest \in Slots /\ s.gaps \subseteq Slots
  <1>1. LinkTyped /\ SendTyped
    BY DEF Typed
  <1>2. SUFFICES /\ net' \subseteq Packet /\ Heard(feedback') /\ endpoint' \in Endpoint
                 /\ budget' \in [BudgetFields -> Nat] /\ Tracked(seqs')
    BY <1>2 DEF LinkTyped
  <1>3. /\ net \subseteq Packet /\ Heard(feedback) /\ endpoint \in Endpoint
        /\ budget \in [BudgetFields -> Nat] /\ Tracked(seqs)
    BY <1>1 DEF LinkTyped
  <1>4. {"keyed", "losses", "copies", "failures", "rounds", "commands", "timeouts", "stops"}
          \subseteq BudgetFields
    BY DEF BudgetFields
  <1> HIDE DEF Endpoint, Tracked
  <1>5. CASE SenderSteps
    <2>1. UNCHANGED <<rxVars, netVars>>
      BY <1>5 DEF SenderSteps
    <2>. QED
      BY <2>1, <1>3 DEF rxVars, netVars
  <1>6. CASE Transmit
    <2>1. PICK p \in ToSet(sender.packet) :
            /\ SendLoopSend(p)
            /\ net' = {q \in net \cup {p}: Delta(p.seq, q.seq) < SeqHistory \div 2 \/ Ahead(q.seq, p.seq)}
      BY <1>6 DEF Transmit
    <2>2. p \in Packet
      BY <1>1, <2>1, RememberType
    <2>3. net' \subseteq Packet
      BY <2>1, <2>2, <1>3
    <2>4. UNCHANGED <<rxVars, feedback, endpoint, budget>>
      BY <1>6 DEF Transmit
    <2>. QED
      BY <2>3, <2>4, <1>3 DEF rxVars
  <1>7. CASE SendFails \/ MarkExpires
    <2>1. budget' \in [BudgetFields -> Nat]
      BY <1>7, <1>1, <1>4, SpendType DEF SendFails, MarkExpires
    <2>2. UNCHANGED <<rxVars, net, feedback, endpoint>>
      BY <1>7 DEF SendFails, MarkExpires
    <2>. QED
      BY <2>1, <2>2, <1>3 DEF rxVars
  <1>8. CASE Hear
    <2>1. PICK m \in feedback :
            /\ endpoint' \in {endpoint, Verified(m.index)}
            /\ \/ feedback' = feedback \ {m} /\ UNCHANGED budget
               \/ Spend("copies") /\ UNCHANGED feedback
      BY <1>8 DEF Hear
    <2>2. endpoint' \in Endpoint
      <3>1. m.index \in Nat
        BY <1>3
      <3>. QED
        BY <3>1, <2>1, <1>1, <1>3, VerifiedType DEF Endpoint
    <2>3. Heard(feedback')
      BY <2>1, <1>3
    <2>4. budget' \in [BudgetFields -> Nat]
      BY <2>1, <1>1, <1>3, <1>4, SpendType
    <2>5. UNCHANGED <<rxVars, net>>
      BY <1>8 DEF Hear
    <2>. QED
      BY <2>2, <2>3, <2>4, <2>5, <1>3 DEF rxVars
  <1>9. CASE Deliver \/ DeliverLate
    <2>1. PICK p \in net, expired \in {0, 1} : ReceivePacket(p, expired) /\ net' \subseteq net
      BY <1>9 DEF Deliver, DeliverLate
    <2>2. Tracked(seqs')
      BY <2>1, <1>1, ReceiveTyped DEF Tracked
    <2>3. budget' \in [BudgetFields -> Nat]
      BY <1>9, <1>1, <1>3, <1>4, SpendType DEF Deliver, DeliverLate
    <2>4. UNCHANGED <<feedback, endpoint>>
      BY <1>9 DEF Deliver, DeliverLate
    <2>. QED
      BY <2>1, <2>2, <2>3, <2>4, <1>3
  <1>10. CASE Lose
    <2>1. budget' \in [BudgetFields -> Nat]
      BY <1>10, <1>1, <1>4, SpendType DEF Lose
    <2>2. net' \subseteq net /\ feedback' \subseteq feedback /\ UNCHANGED <<rxVars, endpoint>>
      BY <1>10 DEF Lose
    <2>. QED
      BY <2>1, <2>2, <1>3 DEF rxVars
  <1>11. CASE ReceiverSteps \/ ReceiverStops
    <2>1. budget' \in [BudgetFields -> Nat]
      BY <1>11, <1>1, <1>3, <1>4, SpendType DEF ReceiverSteps, ReceiverStops, netVars
    <2>2. UNCHANGED <<seqs, net, feedback, endpoint>>
      BY <1>11 DEF ReceiverSteps, ReceiverStops, netVars, PublishUnit, Receive, StopReceiver,
                   ReceiveEnds
    <2>. QED
      BY <2>1, <2>2, <1>3
  <1>12. CASE Answer \/ Nack \/ Command
    <2>1. UNCHANGED <<seqs, net>>
      BY <1>12 DEF Answer, Nack, Command, HearSenderReport, rxVars
    <2>2. budget' \in [BudgetFields -> Nat]
      BY <1>12, <1>1, <1>3, <1>4, SpendType DEF Answer, Nack, Command
    <2>3. \E from, report, nacks : \E control \in Nat :
            Send(from, report, nacks, control) /\ \E S : nacks \in Seq(S)
      <3>1. <<>> \in Seq(Nat)
        OBVIOUS
      <3>2. CASE Answer
        BY <3>1, <3>2 DEF Answer
      <3>3. CASE Nack
        <4>1. PICK oldest : Send(ReceiverSsrc, TRUE, PendingNacks(oldest), 0)
          BY <3>3 DEF Nack
        <4>. QED
          BY <4>1, <1>1, NackType
      <3>4. CASE Command
        <4>1. PICK c \in Commands : Send(c.from, c.report, <<>>, c.transaction)
          BY <3>4 DEF Command
        <4>2. c.transaction \in Nat
          BY LinkAssumption
        <4>. QED
          BY <3>1, <4>1, <4>2
      <3>. QED
        BY <1>12, <3>2, <3>3, <3>4
    <2>4. Heard(feedback') /\ endpoint' \in Endpoint
      BY <2>3, <1>1, SendOutType DEF Endpoint
    <2>. QED
      BY <2>1, <2>2, <2>4, <1>3
  <1>13. CASE UNCHANGED vars
    BY <1>13, <1>3 DEF vars, rxVars, netVars
  <1>. QED
    BY <1>5, <1>6, <1>7, <1>8, <1>9, <1>10, <1>11, <1>12, <1>13 DEF Next

LEMMA InitTyped ==
  ASSUME Init
  PROVE  Typed
PROOF
  <1>1. PICK scenario \in Scenarios :
          /\ SendInit({scenario.script}) /\ ReceiveInit
          /\ net = {} /\ feedback = {}
          /\ endpoint = [tx |-> 0, highest |-> 0, window |-> {}, heard |-> <<>>]
          /\ budget = [what \in BudgetFields |-> scenario[what]]
    BY DEF Init
  <1>2. /\ <<>> \in Seq(Packet) /\ <<>> \in Seq(Nat) /\ <<>> \in Seq(Media)
        /\ 0 \in Slots
    BY SlotFacts DEF Slots
  <1>3. [scu |-> NoUnit, gate |-> 0] \in Sessions
    BY <1>2 DEF Sessions, NoUnit, Units
  <1>4. /\ app \in [at : AppLabels, todo : Seq(Calls), held : Nat, saved : Sessions]
        /\ app.at = "idle"
    <2>1. scenario.script \in Seq(Calls)
      BY LinkAssumption
    <2>2. app \in [at : {"idle"}, todo : {scenario.script}, held : {0},
                   saved : {[scu |-> NoUnit, gate |-> 0]}]
      BY <1>1 DEF SendInit
    <2>. QED
      BY <2>1, <2>2, <1>3 DEF AppLabels
  <1>5. SendTyped
    <2>1. session \in Sessions /\ nextSeq \in Slots
      BY <1>1, <1>3, SendQueueAssumption DEF SendInit, Slots
    <2>2. /\ queue = <<>> /\ queuedBytes = 0 /\ sender = [at |-> "wait", packet |-> <<>>]
          /\ failed = FALSE /\ stopping = FALSE /\ history = <<>> /\ marked = {}
          /\ rtcp = [at |-> "idle", batch |-> <<>>]
          /\ controls = [seen |-> {}, queue |-> <<>>, popped |-> <<>>]
          /\ accepted = <<>> /\ requeued = [again |-> {}, forgotten |-> {}]
      BY <1>1 DEF SendInit
    <2>3. /\ sender \in [at : {"wait", "send", "sent", "done"}, packet : Seq(Packet)]
          /\ rtcp \in [at : {"idle", "requeue"}, batch : Seq(Packet)]
      BY <2>2, <1>2
    <2>4. /\ controls \in [seen : SUBSET Nat, queue : Seq(Nat), popped : Seq(Nat)]
          /\ requeued \in [again : SUBSET Slots, forgotten : SUBSET Slots]
      BY <2>2, <1>2
    <2>5. queue \in Seq(Packet) /\ history \in Seq(Packet) /\ accepted \in Seq(Media)
      BY <2>2, <1>2, Zenon
    <2>6. failed \in BOOLEAN /\ stopping \in BOOLEAN
      BY <2>2, Zenon
    <2>7. queuedBytes = 0 /\ marked = {}
      BY <2>2, Zenon
    <2>8. queuedBytes \in Int /\ marked \subseteq Slots
      BY <2>7
    <2>. QED
      BY <2>1, <2>3, <2>4, <2>5, <2>6, <2>8, <1>4 DEF SendTyped
  <1>6. budget \in [BudgetFields -> Nat]
    BY <1>1, LinkAssumption
  <1>7. LinkTyped
    BY <1>1, <1>2, <1>6 DEF ReceiveInit, LinkTyped
  <1>. QED
    BY <1>5, <1>7 DEF Typed

\* Every variable of the sender, and what the proofs need of the others, stays
\* in its type.
THEOREM SenderTypes == Spec => []Typed
PROOF
  <1>1. Init => Typed
    BY InitTyped
  <1>2. Typed /\ [Next]_vars => Typed'
    BY SendStepTyped, LinkStepTyped DEF Typed
  <1>. QED
    BY <1>1, <1>2, PTL DEF Spec

-----------------------------------------------------------------------------
(* The bytes of the send queue.                                             *)

\* The bytes counted are those of the packets queued, of the one being sent and of
\* the reservation of the call between ReserveQueueBytes and EnqueueReserved; once
\* sending has failed there is no send thread to count them down.
Account ==
  /\ queuedBytes \in 0..QueueBytes
  /\ ~failed => queuedBytes = BytesOf(queue) + BytesOf(sender.packet) + app.held
  /\ app.held = IF app.at = "enqueue" THEN WireBytes(CallUnit) ELSE 0
  /\ sender.at \notin {"send", "sent"} => sender.packet = <<>>
  /\ failed => sender.at = "done"

LEMMA AccountTypes ==
  ASSUME SendTyped
  PROVE  /\ BytesOf(queue) \in Nat /\ BytesOf(sender.packet) \in Nat /\ app.held \in Nat
         /\ queuedBytes \in Int /\ QueueBytes \in Nat
BY BytesType, SendQueueAssumption DEF SendTyped

LEMMA BeginAccount ==
  ASSUME SendTyped, Account, Begin
  PROVE  Account'
PROOF
  <1>1. UNCHANGED <<queue, queuedBytes, sender, failed>>
    BY DEF Begin
  <1>2. app.at = "idle" /\ app.todo # <<>> /\ app.held = 0
    BY DEF Begin, Account
  <1>3. app'.held = 0 /\ app'.at # "enqueue"
    <2>1. CASE Throws
      BY <2>1, <1>2, ThrowsType
    <2>2. CASE ~ Throws
      <3>1. \/ app' = [app EXCEPT !.at = "flush"]
            \/ app' = [app EXCEPT !.at = "reserve", !.saved = session]
        BY <2>2 DEF Begin
      <3>2. app \in [at : AppLabels, todo : Seq(Calls), held : Nat, saved : Sessions]
        BY DEF SendTyped
      <3>. QED
        BY <3>1, <3>2, <1>2
    <2>. QED
      BY <2>1, <2>2
  <1>. QED
    BY <1>1, <1>2, <1>3 DEF Account

LEMMA ReserveAccount ==
  ASSUME SendTyped, Account, ReserveQueueBytes
  PROVE  Account'
PROOF
  <1>1. UNCHANGED <<queue, sender, failed>>
    BY DEF ReserveQueueBytes
  <1>2. app.at = "reserve" /\ app.todo # <<>> /\ app.held = 0
    BY DEF ReserveQueueBytes, Account, SendTyped
  <1>3. /\ app \in [at : AppLabels, todo : Seq(Calls), held : Nat, saved : Sessions]
        /\ WireBytes(CallUnit) \in Nat
    BY <1>2, CallType DEF SendTyped
  <1>4. CASE Throws /\ queuedBytes' = queuedBytes
    <2>1. app'.held = 0 /\ app'.at = "idle"
      BY <1>2, <1>4, ThrowsType
    <2>. QED
      BY <1>1, <1>2, <1>4, <2>1 DEF Account
  <1>5. CASE /\ Fits(WireBytes(CallUnit)) /\ session' = session /\ ~failed
             /\ queuedBytes' = queuedBytes + WireBytes(CallUnit)
             /\ app' = [app EXCEPT !.at = "enqueue", !.held = WireBytes(CallUnit)]
    <2>1. app'.at = "enqueue" /\ app'.held = WireBytes(CallUnit) /\ app'.todo = app.todo
      BY <1>3, <1>5
    <2>2. WireBytes(CallUnit)' = WireBytes(CallUnit)
      BY <1>5, <2>1 DEF CallUnit, Call
    <2>3. queuedBytes' \in 0..QueueBytes
      BY <1>3, <1>5, AccountTypes DEF Fits, Account
    <2>4. queuedBytes' = BytesOf(queue) + BytesOf(sender.packet) + WireBytes(CallUnit)
      BY <1>2, <1>3, <1>5, AccountTypes DEF Account
    <2>. QED
      BY <1>1, <1>5, <2>1, <2>2, <2>3, <2>4 DEF Account
  <1>6. CASE UNCHANGED <<app, session, queuedBytes>>
    BY <1>1, <1>6 DEF Account, CallUnit, Call
  <1>. QED
    BY <1>4, <1>5, <1>6 DEF ReserveQueueBytes

LEMMA EnqueueAccount ==
  ASSUME SendTyped, Account, EnqueueReserved
  PROVE  Account'
PROOF
  <1>1. UNCHANGED <<sender, failed>>
    BY DEF EnqueueReserved
  <1>2. app.at = "enqueue" /\ app.todo # <<>> /\ app.held = WireBytes(CallUnit)
    BY DEF EnqueueReserved, Account, SendTyped
  <1>3. /\ app \in [at : AppLabels, todo : Seq(Calls), held : Nat, saved : Sessions]
        /\ Medium \in Media /\ Medium.unit = CallUnit
    BY <1>2, CallType DEF SendTyped, Medium
  <1>4. CASE Throws /\ ReleaseQueueReservation /\ queue' = queue
    <2>1. app'.held = 0 /\ app'.at = "idle"
      BY <1>2, <1>4, ThrowsType
    <2>2. queuedBytes' = IF app.held <= queuedBytes THEN queuedBytes - app.held ELSE queuedBytes
      BY <1>4 DEF ReleaseQueueReservation
    <2>3. queuedBytes' \in 0..QueueBytes
      BY <2>2, AccountTypes DEF Account
    <2>4. ~failed => queuedBytes' = BytesOf(queue) + BytesOf(sender.packet)
      BY <2>2, AccountTypes DEF Account
    <2>5. BytesOf(queue) + BytesOf(sender.packet) + 0 = BytesOf(queue) + BytesOf(sender.packet)
      BY AccountTypes
    <2>. QED
      BY <1>1, <1>4, <2>1, <2>3, <2>4, <2>5 DEF Account
  <1>5. CASE /\ ~failed
             /\ queue' = queue \o Packets(Medium, nextSeq) /\ queuedBytes' = queuedBytes
             /\ app' = [app EXCEPT !.at = "idle", !.todo = Tail(app.todo), !.held = 0]
    <2>1. app'.at = "idle" /\ app'.held = 0
      BY <1>3, <1>5
    <2>2. BytesOf(queue') = BytesOf(queue) + app.held
      <3>1. /\ Packets(Medium, nextSeq) \in Seq(Packet)
            /\ BytesOf(Packets(Medium, nextSeq)) = WireBytes(CallUnit)
        BY <1>3, PacketsWeigh DEF SendTyped
      <3>2. queue \in Seq(Packet)
        BY DEF SendTyped
      <3>. QED
        BY <3>1, <3>2, <1>2, <1>5, BytesConcat
    <2>3. queuedBytes' = BytesOf(queue') + BytesOf(sender.packet) + 0
      BY <2>2, <1>5, AccountTypes DEF Account
    <2>. QED
      BY <1>1, <1>5, <2>1, <2>3 DEF Account
  <1>. QED
    BY <1>4, <1>5 DEF EnqueueReserved

LEMMA FlushAccount ==
  ASSUME SendTyped, Account, Flush \/ Destroy
  PROVE  Account'
PROOF
  <1>1. UNCHANGED <<session, queue, queuedBytes, sender, failed>>
    BY DEF Flush, Destroy
  <1>2. app.at # "enqueue" /\ app.held = 0
    BY DEF Flush, Destroy, Account
  <1>3. app'.at # "enqueue" /\ app'.held = 0
    <2>1. app \in [at : AppLabels, todo : Seq(Calls), held : Nat, saved : Sessions]
      BY DEF SendTyped
    <2>2. CASE app.at = "flush" /\ Throws
      <3>1. app.todo # <<>>
        BY <2>2 DEF SendTyped
      <3>. QED
        BY <2>2, <3>1, ThrowsType
    <2>3. CASE app' = app
      BY <2>3, <1>2
    <2>4. CASE app' = [app EXCEPT !.at = "idle", !.todo = Tail(app.todo)]
      BY <2>1, <2>4, <1>2
    <2>5. ASSUME NEW l \in {"leave", "stop", "join", "joinRtcp", "gone"},
                 app' = [app EXCEPT !.at = l]
          PROVE  app'.at # "enqueue" /\ app'.held = 0
      BY <2>1, <2>5, <1>2
    <2>. QED
      BY <2>2, <2>3, <2>4, <2>5 DEF Flush, Destroy
  <1>. QED
    BY <1>1, <1>2, <1>3 DEF Account

LEMMA SenderAccount ==
  ASSUME SendTyped, Account, SendLoopPop \/ SendLoopFinish \/ SendLoopFail \/ \E p : SendLoopSend(p)
  PROVE  Account'
PROOF
  <1>1. UNCHANGED <<app, session>>
    BY DEF SendLoopPop, SendLoopFinish, SendLoopFail, SendLoopSend
  <1>2. app'.held = app.held /\ app.held = IF app'.at = "enqueue" THEN WireBytes(CallUnit)' ELSE 0
    BY <1>1 DEF Account, CallUnit, Call
  <1>3. queue \in Seq(Packet)
        /\ sender \in [at : {"wait", "send", "sent", "done"}, packet : Seq(Packet)]
    BY DEF SendTyped
  <1>4. CASE SendLoopPop
    <2>1. sender.at = "wait" /\ sender.packet = <<>> /\ ~failed /\ failed' = failed
          /\ queuedBytes' = queuedBytes
      BY <1>4 DEF SendLoopPop, Account
    <2>2. CASE queue' = queue /\ sender' \in {sender, [sender EXCEPT !.at = "done"]}
      <3>1. sender'.packet = <<>>
        BY <2>1, <2>2, <1>3
      <3>. QED
        BY <3>1, <2>1, <2>2, <1>2 DEF Account
    <2>3. CASE /\ queue # <<>>
               /\ queue' = Tail(queue) /\ sender' = [at |-> "send", packet |-> <<Head(queue)>>]
      <3>1. BytesOf(queue) = BytesOf(sender'.packet) + BytesOf(queue')
        BY <2>3, <1>3, BytesHeadTail
      <3>2. BytesOf(queue') \in Nat /\ BytesOf(sender'.packet) \in Nat
        BY <2>3, <1>3, BytesHeadTail, BytesType
      <3>3. queuedBytes' = BytesOf(queue') + BytesOf(sender'.packet) + app'.held
        BY <3>1, <3>2, <2>1, <1>2, BytesNone, AccountTypes DEF Account
      <3>. QED
        BY <3>3, <2>1, <2>3, <1>2 DEF Account
    <2>. QED
      BY <1>4, <2>2, <2>3 DEF SendLoopPop
  <1>5. CASE SendLoopFinish
    <2>1. /\ sender.at = "sent" /\ ~failed /\ failed' = failed /\ queue' = queue
          /\ queuedBytes' = queuedBytes - BytesOf(sender.packet)
          /\ sender' = [at |-> "wait", packet |-> <<>>]
      BY <1>5 DEF SendLoopFinish, Account
    <2>2. queuedBytes' = BytesOf(queue) + 0 + app.held /\ queuedBytes' \in 0..QueueBytes
      BY <2>1, AccountTypes DEF Account
    <2>. QED
      BY <2>1, <2>2, <1>2, BytesNone DEF Account
  <1>6. CASE SendLoopFail
    <2>1. /\ failed' = TRUE /\ queuedBytes' = 0 /\ sender' = [at |-> "done", packet |-> <<>>]
      BY <1>6 DEF SendLoopFail
    <2>2. 0 \in 0..QueueBytes
      BY AccountTypes
    <2>. QED
      BY <2>1, <2>2, <1>2 DEF Account
  <1>7. CASE \E p : SendLoopSend(p)
    <2>1. /\ sender.at = "send" /\ sender' = [sender EXCEPT !.at = "sent"]
          /\ UNCHANGED <<queue, queuedBytes, failed>>
      BY <1>7 DEF SendLoopSend
    <2>2. sender'.packet = sender.packet /\ sender'.at = "sent" /\ ~failed
      BY <2>1, <1>3 DEF Account
    <2>. QED
      BY <2>1, <2>2, <1>2 DEF Account
  <1>. QED
    BY <1>4, <1>5, <1>6, <1>7

LEMMA RequeueAccount ==
  ASSUME SendTyped, Account, QueueRetransmissions
  PROVE  Account'
PROOF
  <1>1. UNCHANGED <<app, session, sender, failed>>
    BY DEF QueueRetransmissions
  <1>2. app'.held = app.held /\ app.held = IF app'.at = "enqueue" THEN WireBytes(CallUnit)' ELSE 0
    BY <1>1 DEF Account, CallUnit, Call
  <1>3. CASE UNCHANGED <<queue, queuedBytes>>
    BY <1>1, <1>2, <1>3 DEF Account
  <1>4. CASE /\ Fits(BytesOf(rtcp.batch)) /\ queuedBytes' = queuedBytes + BytesOf(rtcp.batch)
             /\ queue' = queue \o rtcp.batch
    <2>1. queue \in Seq(Packet) /\ rtcp.batch \in Seq(Packet)
      BY DEF SendTyped
    <2>2. BytesOf(queue') = BytesOf(queue) + BytesOf(rtcp.batch) /\ BytesOf(rtcp.batch) \in Nat
      BY <2>1, <1>4, BytesConcat, BytesType
    <2>3. ~failed => queuedBytes' = BytesOf(queue') + BytesOf(sender.packet) + app.held
      BY <2>2, <1>4, AccountTypes DEF Account
    <2>4. queuedBytes' \in 0..QueueBytes
      BY <2>2, <1>4, AccountTypes DEF Account, Fits
    <2>. QED
      BY <2>3, <2>4, <1>1, <1>2 DEF Account
  <1>. QED
    BY <1>3, <1>4 DEF QueueRetransmissions

LEMMA AccountStep ==
  ASSUME SendTyped, Account, [Next]_vars
  PROVE  Account'
PROOF
  <1>1. CASE \/ UNCHANGED sendVars \/ PopMlvcControl \/ RetransmitTimePasses
             \/ \E m \in feedback : HandleRtcpPacket(m)
    <2>1. UNCHANGED <<app, session, queue, queuedBytes, sender, failed>>
      BY <1>1 DEF sendVars, PopMlvcControl, RetransmitTimePasses, HandleRtcpPacket
    <2>. QED
      BY <2>1 DEF Account, CallUnit, Call
  <1>. QED
    BY <1>1, SenderCases, BeginAccount, ReserveAccount, EnqueueAccount, FlushAccount,
       SenderAccount, RequeueAccount

\* What queued_bytes counts is in the queue, being sent or reserved, and it never
\* exceeds the limit: for every limit, every sequence of calls, and whatever the
\* network and the receiver do.
THEOREM QueueAccountedAlways == Spec => []QueueAccounted
PROOF
  <1>1. Init => Account
    <2>1. SUFFICES ASSUME Init PROVE Account
      OBVIOUS
    <2>2. PICK script : SendInit({script})
      BY <2>1 DEF Init
    <2>3. /\ queue = <<>> /\ queuedBytes = 0 /\ sender = [at |-> "wait", packet |-> <<>>]
          /\ failed = FALSE /\ app.at = "idle" /\ app.held = 0
      BY <2>2 DEF SendInit
    <2>4. 0 \in 0..QueueBytes
      BY SendQueueAssumption
    <2>. QED
      BY <2>3, <2>4, BytesNone DEF Account
  <1>2. Account => QueueAccounted
    BY DEF Account, QueueAccounted
  <1>3. Typed /\ Account /\ [Next]_vars => Account'
    BY AccountStep DEF Typed
  <1>. QED
    BY <1>1, <1>2, <1>3, SenderTypes, PTL DEF Spec

-----------------------------------------------------------------------------
(* What RTCP asks for is done once.                                         *)

\* The commands taken and the commands waiting are told apart, and all have been
\* seen: CommandsOnce, place by place.
Separate(P, Q, seen) ==
  /\ \A i, j \in 1..Len(P) : P[i] = P[j] => i = j
  /\ \A i, j \in 1..Len(Q) : Q[i] = Q[j] => i = j
  /\ \A i \in 1..Len(P), j \in 1..Len(Q) : P[i] # Q[j]
  /\ \A i \in 1..Len(P) : P[i] \in seen
  /\ \A j \in 1..Len(Q) : Q[j] \in seen

LEMMA SeparateOnce ==
  ASSUME SendTyped, Separate(controls.popped, controls.queue, controls.seen)
  PROVE  CommandsOnce
PROOF
  <1> DEFINE P == controls.popped
             Q == controls.queue
             both == P \o Q
  <1>1. P \in Seq(Nat) /\ Q \in Seq(Nat)
    BY DEF SendTyped
  <1>2. /\ Len(P) \in Nat /\ Len(Q) \in Nat /\ DOMAIN both = 1..(Len(P) + Len(Q))
        /\ \A i \in 1..Len(P) : both[i] = P[i]
        /\ \A i \in 1..(Len(P) + Len(Q)) : i > Len(P) => both[i] = Q[i - Len(P)]
    <2>1. Len(P) \in Nat /\ Len(Q) \in Nat
      BY <1>1, LenProperties
    <2>2. both \in Seq(Nat) /\ Len(both) = Len(P) + Len(Q)
      BY <1>1, ConcatProperties
    <2>3. DOMAIN both = 1..Len(both)
      BY <2>2, LenProperties
    <2>4. \A i \in 1..(Len(P) + Len(Q)) :
            both[i] = IF i <= Len(P) THEN P[i] ELSE Q[i - Len(P)]
      BY <1>1, ConcatProperties
    <2> HIDE DEF both, P, Q
    <2>5. \A i \in 1..Len(P) : both[i] = P[i]
      BY <2>1, <2>4
    <2>6. \A i \in 1..(Len(P) + Len(Q)) : i > Len(P) => both[i] = Q[i - Len(P)]
      BY <2>1, <2>4
    <2>. QED
      BY <2>1, <2>2, <2>3, <2>5, <2>6
  <1>3. /\ \A i, j \in 1..Len(P) : P[i] = P[j] => i = j
        /\ \A i, j \in 1..Len(Q) : Q[i] = Q[j] => i = j
        /\ \A i \in 1..Len(P), j \in 1..Len(Q) : P[i] # Q[j]
        /\ \A i \in 1..Len(P) : P[i] \in controls.seen
        /\ \A j \in 1..Len(Q) : Q[j] \in controls.seen
    BY DEF Separate
  <1> HIDE DEF P, Q, both
  <1>4. ASSUME NEW i \in DOMAIN both
        PROVE  \/ i \in 1..Len(P) /\ both[i] = P[i]
               \/ i - Len(P) \in 1..Len(Q) /\ both[i] = Q[i - Len(P)]
    BY <1>2
  <1>5. ASSUME NEW i \in DOMAIN both, NEW j \in DOMAIN both, both[i] = both[j]
        PROVE  i = j
    <2>1. i \in Int /\ j \in Int
      BY <1>2
    <2>2. CASE i \in 1..Len(P) /\ both[i] = P[i]
      <3>1. j \in 1..Len(P) /\ both[j] = P[j]
        BY <1>3, <1>4, <1>5, <2>2
      <3>. QED
        BY <3>1, <1>3, <1>5, <2>2
    <2>3. CASE i - Len(P) \in 1..Len(Q) /\ both[i] = Q[i - Len(P)]
      <3>1. j - Len(P) \in 1..Len(Q) /\ both[j] = Q[j - Len(P)]
        BY <1>3, <1>4, <1>5, <2>3
      <3>2. i - Len(P) = j - Len(P)
        BY <3>1, <1>3, <1>5, <2>3
      <3>. QED
        BY <3>2, <2>1, <1>2
    <2>. QED
      BY <1>4, <2>2, <2>3
  <1>6. ASSUME NEW i \in DOMAIN both PROVE both[i] \in controls.seen
    BY <1>3, <1>4
  <1>. QED
    BY <1>5, <1>6 DEF both, P, Q, CommandsOnce, IsInjective, ToSet

LEMMA PopSeparate ==
  ASSUME NEW P \in Seq(Nat), NEW Q \in Seq(Nat), NEW seen, Q # <<>>, Separate(P, Q, seen)
  PROVE  Separate(Append(P, Head(Q)), Tail(Q), seen)
PROOF
  <1> DEFINE n == Len(P)
             P2 == Append(P, Head(Q))
             Q2 == Tail(Q)
  <1>1. /\ n \in Nat /\ Len(Q) \in Nat /\ 1 \in 1..Len(Q)
        /\ Len(P2) = n + 1 /\ P2[n + 1] = Q[1] /\ \A i \in 1..n : P2[i] = P[i]
    BY LenProperties, EmptySeq, AppendProperties, HeadTailProperties
  <1>2. Len(Q2) = Len(Q) - 1 /\ \A j \in 1..Len(Q2) : Q2[j] = Q[j + 1] /\ j + 1 \in 2..Len(Q)
    BY <1>1, HeadTailProperties
  <1>3. /\ \A i, j \in 1..n : P[i] = P[j] => i = j
        /\ \A i, j \in 1..Len(Q) : Q[i] = Q[j] => i = j
        /\ \A i \in 1..n, j \in 1..Len(Q) : P[i] # Q[j]
        /\ \A i \in 1..n : P[i] \in seen
        /\ \A j \in 1..Len(Q) : Q[j] \in seen
    BY DEF Separate
  <1> HIDE DEF n, P2, Q2
  <1>4. ASSUME NEW i \in 1..Len(P2), NEW j \in 1..Len(P2), P2[i] = P2[j] PROVE i = j
    <2>1. /\ i \in 1..n \/ i = n + 1
          /\ j \in 1..n \/ j = n + 1
      BY <1>1
    <2>. QED
      BY <2>1, <1>1, <1>3, <1>4
  <1>5. ASSUME NEW i \in 1..Len(Q2), NEW j \in 1..Len(Q2), Q2[i] = Q2[j] PROVE i = j
    <2>1. /\ Q2[i] = Q[i + 1] /\ i + 1 \in 2..Len(Q)
          /\ Q2[j] = Q[j + 1] /\ j + 1 \in 2..Len(Q)
      BY <1>2
    <2>2. i + 1 \in 1..Len(Q) /\ j + 1 \in 1..Len(Q)
      BY <2>1, <1>1
    <2>3. i + 1 = j + 1
      BY <2>1, <2>2, <1>3, <1>5
    <2>4. i \in Int /\ j \in Int
      OBVIOUS
    <2>. QED
      BY <2>3, <2>4
  <1>6. ASSUME NEW i \in 1..Len(P2), NEW j \in 1..Len(Q2) PROVE P2[i] # Q2[j]
    <2>1. j + 1 \in 1..Len(Q) /\ j + 1 # 1 /\ Q2[j] = Q[j + 1]
      BY <1>1, <1>2
    <2>2. i \in 1..n \/ i = n + 1
      BY <1>1
    <2>. QED
      BY <2>1, <2>2, <1>1, <1>3
  <1>7. ASSUME NEW i \in 1..Len(P2) PROVE P2[i] \in seen
    <2>1. i \in 1..n \/ i = n + 1
      BY <1>1
    <2>. QED
      BY <2>1, <1>1, <1>3
  <1>8. ASSUME NEW j \in 1..Len(Q2) PROVE Q2[j] \in seen
    <2>1. j + 1 \in 1..Len(Q) /\ Q2[j] = Q[j + 1]
      BY <1>1, <1>2
    <2>. QED
      BY <2>1, <1>3
  <1>. QED
    BY <1>4, <1>5, <1>6, <1>7, <1>8 DEF Separate, P2, Q2

\* The places Latest keeps are places of the sequence, in the same order.
LEMMA LatestPlaces ==
  ASSUME NEW s \in Seq(Nat), NEW limit \in Nat
  PROVE  \E d \in Nat : /\ Len(Latest(s, limit)) + d = Len(s) /\ Len(Latest(s, limit)) \in Nat
                        /\ \A k \in 1..Len(Latest(s, limit)) :
                             k + d \in 1..Len(s) /\ Latest(s, limit)[k] = s[k + d]
PROOF
  <1>1. Len(s) \in Nat
    BY LenProperties
  <1>2. CASE Len(s) > limit
    <2> DEFINE d == Len(s) - limit
               t == SubSeq(s, d + 1, Len(s))
    <2>1. d \in Nat /\ Latest(s, limit) = t
      BY <1>1, <1>2 DEF Latest
    <2>2. Len(t) = limit /\ \A k \in 1..limit : t[k] = s[k + d] /\ k + d \in 1..Len(s)
      BY <1>1, <1>2
    <2>3. Len(t) + d = Len(s)
      BY <2>2, <1>1
    <2> HIDE DEF d, t
    <2>. QED
      BY <2>1, <2>2, <2>3
  <1>3. CASE ~ (Len(s) > limit)
    <2>1. Latest(s, limit) = s
      BY <1>3 DEF Latest
    <2>2. \A k \in 1..Len(s) : k + 0 = k
      BY <1>1
    <2>. QED
      BY <2>1, <2>2, <1>1
  <1>. QED
    BY <1>2, <1>3

LEMMA NewSeparate ==
  ASSUME NEW P \in Seq(Nat), NEW Q \in Seq(Nat), NEW seen, NEW c \in Nat, c \notin seen,
         NEW limit \in Nat, Separate(P, Q, seen)
  PROVE  Separate(P, Latest(Append(Q, c), limit), seen \cup {c})
PROOF
  <1> DEFINE w == Append(Q, c)
             L == Latest(w, limit)
             n == Len(Q)
  <1>1. /\ n \in Nat /\ w \in Seq(Nat) /\ Len(w) = n + 1 /\ w[n + 1] = c
        /\ \A i \in 1..n : w[i] = Q[i]
    BY LenProperties, AppendProperties
  <1>2. PICK d \in Nat : /\ Len(L) + d = Len(w) /\ Len(L) \in Nat
                         /\ \A k \in 1..Len(L) : k + d \in 1..Len(w) /\ L[k] = w[k + d]
    BY <1>1, LatestPlaces
  <1>3. /\ \A i, j \in 1..Len(P) : P[i] = P[j] => i = j
        /\ \A i, j \in 1..n : Q[i] = Q[j] => i = j
        /\ \A i \in 1..Len(P), j \in 1..n : P[i] # Q[j]
        /\ \A i \in 1..Len(P) : P[i] \in seen
        /\ \A j \in 1..n : Q[j] \in seen
    BY DEF Separate
  <1> HIDE DEF w, L, n
  <1>4. ASSUME NEW i \in 1..Len(w)
        PROVE  \/ i \in 1..n /\ w[i] = Q[i] /\ w[i] \in seen
               \/ i = n + 1 /\ w[i] = c
    BY <1>1, <1>3
  <1>5. ASSUME NEW i \in 1..Len(w), NEW j \in 1..Len(w), w[i] = w[j] PROVE i = j
    BY <1>4, <1>5, <1>3
  <1>6. ASSUME NEW i \in 1..Len(L), NEW j \in 1..Len(L), L[i] = L[j] PROVE i = j
    <2>1. i + d = j + d
      BY <1>2, <1>5, <1>6
    <2>2. i \in Int /\ j \in Int
      OBVIOUS
    <2>. QED
      BY <2>1, <2>2, <1>2
  <1>7. ASSUME NEW i \in 1..Len(P), NEW j \in 1..Len(L) PROVE P[i] # L[j]
    <2>1. j + d \in 1..Len(w) /\ L[j] = w[j + d]
      BY <1>2
    <2>2. \/ j + d \in 1..n /\ L[j] = Q[j + d]
          \/ L[j] = c
      BY <2>1, <1>4
    <2>3. P[i] \in seen
      BY <1>3
    <2>4. CASE j + d \in 1..n /\ L[j] = Q[j + d]
      BY <2>4, <1>3
    <2>5. CASE L[j] = c
      BY <2>3, <2>5
    <2>. QED
      BY <2>2, <2>4, <2>5
  <1>8. ASSUME NEW j \in 1..Len(L) PROVE L[j] \in seen \cup {c}
    <2>1. j + d \in 1..Len(w) /\ L[j] = w[j + d]
      BY <1>2
    <2>. QED
      BY <2>1, <1>4
  <1>. QED
    BY <1>3, <1>6, <1>7, <1>8 DEF Separate, L, w

CommandsApart == Separate(controls.popped, controls.queue, controls.seen)

LEMMA CommandsStep ==
  ASSUME Typed, CommandsApart, [Next]_vars
  PROVE  CommandsApart'
PROOF
  <1>1. /\ controls \in [seen : SUBSET Nat, queue : Seq(Nat), popped : Seq(Nat)]
        /\ \A m \in feedback : m.control \in Nat
    BY DEF Typed, SendTyped, LinkTyped
  <1>2. CASE PopMlvcControl
    <2>1. controls' = [controls EXCEPT !.queue = Tail(controls.queue),
                         !.popped = Append(controls.popped, Head(controls.queue))]
          /\ controls.queue # <<>>
      BY <1>2 DEF PopMlvcControl
    <2>2. /\ controls'.queue = Tail(controls.queue) /\ controls'.seen = controls.seen
          /\ controls'.popped = Append(controls.popped, Head(controls.queue))
      BY <2>1, <1>1
    <2>3. controls.queue \in Seq(Nat) /\ controls.popped \in Seq(Nat)
      BY <1>1
    <2>. QED
      BY <2>1, <2>2, <2>3, PopSeparate DEF CommandsApart
  <1>3. ASSUME NEW m \in feedback, HandleRtcpPacket(m) PROVE CommandsApart'
    <2>1. CASE controls' = controls
      BY <2>1 DEF CommandsApart
    <2>2. CASE /\ Fresh(m)
               /\ controls' = [controls EXCEPT !.seen = controls.seen \cup {m.control},
                     !.queue = Latest(Append(controls.queue, m.control), ControlLimit)]
      <3>1. /\ controls'.queue = Latest(Append(controls.queue, m.control), ControlLimit)
            /\ controls'.seen = controls.seen \cup {m.control}
            /\ controls'.popped = controls.popped
        BY <2>2, <1>1
      <3>2. controls.queue \in Seq(Nat) /\ controls.popped \in Seq(Nat) /\ m.control \in Nat
            /\ m.control \notin controls.seen /\ ControlLimit \in Nat
        BY <1>1, <2>2, SendQueueAssumption DEF Fresh
      <3>3. Separate(controls.popped, Latest(Append(controls.queue, m.control), ControlLimit),
                     controls.seen \cup {m.control})
        BY <3>2, NewSeparate DEF CommandsApart
      <3>. QED
        BY <3>1, <3>3, Zenon DEF CommandsApart
    <2>. QED
      BY <1>3, <2>1, <2>2 DEF HandleRtcpPacket
  <1>4. CASE controls' = controls
    BY <1>4 DEF CommandsApart
  <1>5. \/ PopMlvcControl \/ \E m \in feedback : HandleRtcpPacket(m)
        \/ controls' = controls
    BY SenderCases DEF sendVars, Begin, ReserveQueueBytes, EnqueueReserved, Flush, Destroy,
       SendLoopPop, SendLoopFinish, SendLoopFail, SendLoopSend, QueueRetransmissions,
       RetransmitTimePasses
  <1>. QED
    BY <1>2, <1>3, <1>4, <1>5

\* Within 100 ms what has been queued again, or is about to be, is marked, unless the
\* history has let it go; and only what the history holds is marked.
Marks ==
  /\ marked \subseteq Sequences(history)
  /\ Sequences(rtcp.batch) \cup requeued.again \subseteq marked \cup requeued.forgotten
  /\ rtcp.at = "idle" => rtcp.batch = <<>>
  /\ NacksOnce

LEMMA NoSequences == Sequences(<<>>) = {}
BY DEF Sequences

LEMMA MarksStep ==
  ASSUME Typed, Marks, [Next]_vars
  PROVE  Marks'
PROOF
  <1>1. /\ rtcp \in [at : {"idle", "requeue"}, batch : Seq(Packet)]
        /\ requeued \in [again : SUBSET Slots, forgotten : SUBSET Slots]
        /\ history \in Seq(Packet)
        /\ \A m \in feedback : \E S : m.nacks \in Seq(S)
    BY DEF Typed, SendTyped, LinkTyped
  <1>2. ASSUME NEW p, SendLoopSend(p) PROVE Marks'
    <2>1. /\ marked' = marked \cap Sequences(history') /\ rtcp' = rtcp
          /\ requeued' = [requeued EXCEPT !.forgotten =
                             requeued.forgotten \cup (Sequences(history) \ Sequences(history'))]
      BY <1>2 DEF SendLoopSend
    <2>2. /\ requeued'.again = requeued.again
          /\ requeued'.forgotten = requeued.forgotten \cup (Sequences(history) \ Sequences(history'))
      BY <2>1, <1>1
    <2>3. marked \subseteq marked' \cup requeued'.forgotten
      BY <2>1, <2>2 DEF Marks
    <2>. QED
      BY <2>1, <2>2, <2>3 DEF Marks, NacksOnce
  <1>3. ASSUME NEW m \in feedback, HandleRtcpPacket(m) PROVE Marks'
    <2> DEFINE batch == Batch(m.nacks)
    <2>1. rtcp.at = "idle" /\ rtcp.batch = <<>> /\ history' = history /\ requeued' = requeued
      BY <1>3 DEF HandleRtcpPacket, Marks
    <2>2. CASE UNCHANGED <<marked, rtcp>>
      BY <2>1, <2>2 DEF Marks, NacksOnce
    <2>3. CASE /\ marked' = marked \cup Sequences(batch)
               /\ rtcp' = IF batch = <<>> THEN rtcp ELSE [at |-> "requeue", batch |-> batch]
      <3>1. \A i \in 1..Len(batch) : Due(batch[i].seq)
        BY <1>1, BatchPicks
      <3>2. Sequences(batch) \subseteq Sequences(history) /\ Sequences(batch) \cap marked = {}
        BY <3>1 DEF Sequences, Due, Known
      <3> HIDE DEF batch
      <3>3. rtcp'.batch = batch /\ (rtcp'.at = "idle" => batch = <<>>)
        BY <2>1, <2>3
      <3>. QED
        BY <3>2, <3>3, <2>1, <2>3 DEF Marks, NacksOnce
    <2>. QED
      BY <1>3, <2>2, <2>3 DEF HandleRtcpPacket
  <1>4. CASE QueueRetransmissions
    <2>1. rtcp' = [at |-> "idle", batch |-> <<>>] /\ UNCHANGED <<history, marked>>
      BY <1>4 DEF QueueRetransmissions
    <2>2. requeued' = requeued
            \/ requeued' = [requeued EXCEPT !.again = requeued.again \cup Sequences(rtcp.batch)]
      BY <1>4 DEF QueueRetransmissions
    <2>3. /\ requeued'.again \subseteq requeued.again \cup Sequences(rtcp.batch)
          /\ requeued'.forgotten = requeued.forgotten
      BY <2>2, <1>1
    <2>4. Sequences(rtcp'.batch) = {}
      BY <2>1, NoSequences
    <2>. QED
      BY <2>1, <2>3, <2>4 DEF Marks, NacksOnce
  <1>5. CASE RetransmitTimePasses
    <2>1. rtcp.batch = <<>> /\ rtcp' = rtcp /\ marked' = {}
          /\ requeued' = [again |-> {}, forgotten |-> {}]
      BY <1>5 DEF RetransmitTimePasses, Marks
    <2>. QED
      BY <2>1, NoSequences DEF Marks, NacksOnce
  <1>6. CASE UNCHANGED <<history, marked, rtcp, requeued>>
    BY <1>6 DEF Marks, NacksOnce
  <1>7. \/ \E p : SendLoopSend(p)
        \/ \E m \in feedback : HandleRtcpPacket(m)
        \/ QueueRetransmissions \/ RetransmitTimePasses
        \/ UNCHANGED <<history, marked, rtcp, requeued>>
    BY SenderCases DEF sendVars, Begin, ReserveQueueBytes, EnqueueReserved, Flush, Destroy,
       PopMlvcControl, SendLoopPop, SendLoopFinish, SendLoopFail
  <1>. QED
    BY <1>2, <1>3, <1>4, <1>5, <1>6, <1>7

\* The replay window: what was let in is below the highest index, and in the window if
\* it is near.
Replay ==
  /\ \A i, j \in 1..Len(endpoint.heard) : endpoint.heard[i] = endpoint.heard[j] => i = j
  /\ \A i \in 1..Len(endpoint.heard) :
       /\ endpoint.heard[i] <= endpoint.highest
       /\ endpoint.heard[i] > endpoint.highest - ReplayWindow => endpoint.heard[i] \in endpoint.window

LEMMA EndpointCases ==
  ASSUME Typed, [Next]_vars
  PROVE  \/ UNCHANGED <<endpoint.highest, endpoint.window, endpoint.heard>>
         \/ \E m \in feedback : LetIn(m.index) /\ endpoint' = Verified(m.index)
PROOF
  <1>1. LinkTyped
    BY DEF Typed
  <1>2. CASE endpoint' = endpoint
    BY <1>2
  <1>3. CASE Hear
    BY <1>3 DEF Hear
  <1>4. CASE Answer \/ Nack \/ Command
    <2>1. \E from, report, nacks, control : Send(from, report, nacks, control)
      BY <1>4 DEF Answer, Nack, Command
    <2>2. endpoint' = [endpoint EXCEPT !.tx = endpoint.tx + budget.keyed]
      BY <2>1 DEF Send
    <2>3. endpoint \in [tx : Nat, highest : Nat, window : SUBSET Nat, heard : Seq(Nat)]
      BY <1>1 DEF LinkTyped
    <2>. QED
      BY <2>2, <2>3
  <1>5. Hear \/ Answer \/ Nack \/ Command \/ endpoint' = endpoint
    BY DEF Next, SenderSteps, Transmit, SendFails, MarkExpires, Deliver, DeliverLate, Lose,
       ReceiverSteps, ReceiverStops, vars, netVars
  <1>. QED
    BY <1>2, <1>3, <1>4, <1>5

LEMMA ReplayStep ==
  ASSUME Typed, Replay, [Next]_vars
  PROVE  Replay'
PROOF
  <1>1. CASE UNCHANGED <<endpoint.highest, endpoint.window, endpoint.heard>>
    BY <1>1 DEF Replay
  <1>2. ASSUME NEW m \in feedback, LetIn(m.index), endpoint' = Verified(m.index)
        PROVE  Replay'
    <2> DEFINE index == m.index
               heard == endpoint.heard
               high == IF index > endpoint.highest THEN index ELSE endpoint.highest
               win == {i \in endpoint.window \cup {index} : i > high - ReplayWindow}
               n == Len(heard)
    <2>1. /\ endpoint \in [tx : Nat, highest : Nat, window : SUBSET Nat, heard : Seq(Nat)]
          /\ index \in Nat
      BY DEF Typed, LinkTyped
    <2>2. ReplayWindow \in Nat
      BY LinkAssumption
    <2>3. /\ endpoint'.highest = high /\ endpoint'.window = win
          /\ endpoint'.heard = Append(heard, index)
      BY <1>2, <2>1 DEF Verified
    <2>4. /\ n \in Nat /\ Len(endpoint'.heard) = n + 1 /\ endpoint'.heard[n + 1] = index
          /\ \A i \in 1..n : endpoint'.heard[i] = heard[i]
      BY <2>1, <2>3, LenProperties, AppendProperties
    <2>5. \A i \in 1..n : heard[i] \in Nat
      BY <2>1, ElementOfSeq
    <2>6. /\ \A i, j \in 1..n : heard[i] = heard[j] => i = j
          /\ \A i \in 1..n : /\ heard[i] <= endpoint.highest
                             /\ heard[i] > endpoint.highest - ReplayWindow => heard[i] \in endpoint.window
      BY DEF Replay
    <2>7. /\ \/ index > endpoint.highest
             \/ index > endpoint.highest - ReplayWindow /\ index \notin endpoint.window
          /\ endpoint.highest \in Nat
      BY <1>2, <2>1 DEF LetIn
    <2> HIDE DEF heard, n, index
    <2>8. ASSUME NEW i \in 1..n PROVE heard[i] # index
      BY <2>1, <2>2, <2>5, <2>6, <2>7
    <2>9. high \in Nat /\ high >= endpoint.highest /\ high >= index
      BY <2>1, <2>7
    <2>10. ASSUME NEW i \in 1..n
           PROVE  heard[i] <= high /\ (heard[i] > high - ReplayWindow => heard[i] \in win)
      <3>1. heard[i] <= high
        BY <2>5, <2>6, <2>7, <2>9
      <3>2. ASSUME heard[i] > high - ReplayWindow PROVE heard[i] \in win
        <4>1. heard[i] > endpoint.highest - ReplayWindow
          BY <3>2, <2>2, <2>5, <2>7, <2>9
        <4>. QED
          BY <4>1, <3>2, <2>6
      <3>. QED
        BY <3>1, <3>2
    <2>11. index > high - ReplayWindow => index \in win
      OBVIOUS
    <2> HIDE DEF high, win
    <2>12. ASSUME NEW i \in 1..(n + 1)
           PROVE  \/ i \in 1..n /\ endpoint'.heard[i] = heard[i]
                  \/ i = n + 1 /\ endpoint'.heard[i] = index
      BY <2>4
    <2>13. ASSUME NEW i \in 1..(n + 1), NEW j \in 1..(n + 1), endpoint'.heard[i] = endpoint'.heard[j]
           PROVE  i = j
      BY <2>6, <2>8, <2>12, <2>13
    <2>14. ASSUME NEW i \in 1..(n + 1)
           PROVE  /\ endpoint'.heard[i] <= high
                  /\ endpoint'.heard[i] > high - ReplayWindow => endpoint'.heard[i] \in win
      BY <2>9, <2>10, <2>11, <2>12
    <2>. QED
      BY <2>3, <2>4, <2>13, <2>14 DEF Replay
  <1>. QED
    BY <1>1, <1>2, EndpointCases

\* A transaction reaches the application at most once, a number asked for again within
\* 100 ms is not queued again unless the history has forgotten it meanwhile, and a
\* numbered RTCP packet passes the replay window at most once: for every limit and
\* window, and whatever RTCP packets the network brings, in whatever order.
THEOREM RtcpActsOnceAlways == Spec => []RtcpActsOnce
PROOF
  <1>1. Init => CommandsApart /\ Marks /\ Replay
    <2>1. SUFFICES ASSUME Init PROVE CommandsApart /\ Marks /\ Replay
      OBVIOUS
    <2>2. PICK script : SendInit({script})
      BY <2>1 DEF Init
    <2>3. /\ controls.queue = <<>> /\ controls.popped = <<>> /\ marked = {}
          /\ rtcp.batch = <<>> /\ requeued.again = {}
      BY <2>2 DEF SendInit
    <2>4. endpoint.heard = <<>>
      BY <2>1 DEF Init
    <2>5. CommandsApart
      BY <2>3 DEF CommandsApart, Separate
    <2>6. Marks
      BY <2>3, NoSequences DEF Marks, NacksOnce
    <2>7. Replay
      BY <2>4 DEF Replay
    <2>. QED
      BY <2>5, <2>6, <2>7
  <1>2. Typed /\ CommandsApart /\ Marks /\ Replay /\ [Next]_vars
          => CommandsApart' /\ Marks' /\ Replay'
    BY CommandsStep, MarksStep, ReplayStep
  <1>3. Typed /\ CommandsApart /\ Marks /\ Replay => RtcpActsOnce
    <2>1. SUFFICES ASSUME Typed, CommandsApart, Marks, Replay PROVE RtcpActsOnce
      OBVIOUS
    <2>2. CommandsOnce
      BY <2>1, SeparateOnce DEF Typed, CommandsApart
    <2>3. PacketsHeardOnce
      <3>1. DOMAIN endpoint.heard = 1..Len(endpoint.heard)
        BY <2>1, LenProperties DEF Typed, LinkTyped
      <3>. QED
        BY <3>1, <2>1 DEF PacketsHeardOnce, IsInjective, Replay
    <2>. QED
      BY <2>1, <2>2, <2>3 DEF RtcpActsOnce, Marks
  <1>. QED
    BY <1>1, <1>2, <1>3, SenderTypes, PTL DEF Spec

-----------------------------------------------------------------------------
(* A switch of configuration starts at a random-access frame.               *)

\* The session as the accepted media leave it: a call that is under way has changed
\* session, and puts saved back if it throws.
Committed == IF app.at \in {"reserve", "enqueue"} THEN app.saved ELSE session

\* What the checks of a call that is under way have established of the session before it.
Checked ==
  app.at \in {"reserve", "enqueue"} =>
    \/ /\ Call.op = "config" /\ session = [scu |-> CallUnit, gate |-> 0]
       /\ app.saved.scu.config \in {0, CallUnit.config} \/ CallUnit.config > app.saved.scu.config
       /\ app.saved.gate # 0 => CallUnit.config <= app.saved.scu.config
    \/ /\ Call.op \in {"unit", "resend"} /\ session = app.saved
       /\ UnitAllowed(CallUnit, session)

IsScu(media, i) == media[i].unit.kind = "SCU"

\* j is the last SCU up to i, or the last other medium up to i.
LastScu(media, j, i) == IsScu(media, j) /\ \A k \in (j + 1)..i : ~ IsScu(media, k)
LastOther(media, j, i) == ~ IsScu(media, j) /\ \A k \in (j + 1)..i : IsScu(media, k)

\* The media agree with the session they leave behind.
Agree(media, s) ==
  \/ /\ media = <<>> /\ s = [scu |-> NoUnit, gate |-> 0]
  \/ /\ s.scu.kind = "SCU" /\ s.scu.config # 0 /\ s.gate \in {0, s.scu.config}
     /\ \E j \in 1..Len(media) :
          LastScu(media, j, Len(media)) /\ media[j].unit.config = s.scu.config
     /\ \A j \in 1..Len(media) :
          LastOther(media, j, Len(media)) => media[j].unit.config = s.scu.config \/ s.gate # 0

\* Medium i came at its place: SwitchStartsAtRandomAccess, without its choices.
InPlace(media, i) ==
  /\ \E j \in 1..i : LastScu(media, j, i) /\ media[j].unit.config = media[i].unit.config
  /\ ~ IsScu(media, i) =>
       \A j \in 1..(i - 1) :
         LastOther(media, j, i - 1) /\ media[j].unit.config # media[i].unit.config
           => media[i].unit.kind = "EFU" /\ media[i].unit.ra

Story == Checked /\ Agree(accepted, Committed) /\ \A i \in 1..Len(accepted) : InPlace(accepted, i)

\* A medium more leaves the places before it as they are.
LEMMA PlacesBefore ==
  ASSUME NEW media \in Seq(Media), NEW m \in Media
  PROVE  LET more == Append(media, m)
             n == Len(media)
         IN /\ n \in Nat /\ Len(more) = n + 1 /\ more[n + 1] = m
            /\ \A i \in 1..n : more[i] = media[i]
            /\ \A i \in 0..n, j \in 1..n :
                 /\ LastScu(more, j, i) <=> LastScu(media, j, i)
                 /\ LastOther(more, j, i) <=> LastOther(media, j, i)
            /\ \A i \in 1..n : InPlace(media, i) => InPlace(more, i)
PROOF
  <1> DEFINE more == Append(media, m)
             n == Len(media)
  <1>1. /\ n \in Nat /\ Len(more) = n + 1 /\ more[n + 1] = m
        /\ \A i \in 1..n : more[i] = media[i]
    BY LenProperties, AppendProperties
  <1> HIDE DEF more, n
  <1>2. ASSUME NEW i \in 0..n, NEW j \in 1..n
        PROVE  /\ LastScu(more, j, i) <=> LastScu(media, j, i)
               /\ LastOther(more, j, i) <=> LastOther(media, j, i)
    <2>1. \A k \in (j + 1)..i : k \in 1..n
      BY <1>1
    <2>2. \A k \in 1..n : IsScu(more, k) <=> IsScu(media, k)
      BY <1>1 DEF IsScu
    <2>. QED
      BY <2>1, <2>2 DEF LastScu, LastOther
  <1>3. ASSUME NEW i \in 1..n, InPlace(media, i) PROVE InPlace(more, i)
    <2>1. i \in 0..n /\ i - 1 \in 0..n /\ (\A j \in 1..i : j \in 1..n) /\ (\A j \in 1..(i - 1) : j \in 1..n)
      BY <1>1
    <2>2. IsScu(more, i) <=> IsScu(media, i)
      BY <1>1 DEF IsScu
    <2>3. \E j \in 1..i : LastScu(more, j, i) /\ more[j].unit.config = more[i].unit.config
      BY <2>1, <1>1, <1>2, <1>3 DEF InPlace
    <2>4. ASSUME ~ IsScu(more, i), NEW j \in 1..(i - 1), LastOther(more, j, i - 1),
                 more[j].unit.config # more[i].unit.config
          PROVE  more[i].unit.kind = "EFU" /\ more[i].unit.ra
      <3>1. j \in 1..n /\ more[j] = media[j] /\ more[i] = media[i]
        BY <2>1, <1>1
      <3>2. LastOther(media, j, i - 1)
        BY <3>1, <2>1, <2>4, <1>2
      <3>. QED
        BY <3>1, <3>2, <2>2, <2>4, <1>3 DEF InPlace
    <2>. QED
      BY <2>3, <2>4 DEF InPlace
  <1>. QED
    BY <1>1, <1>2, <1>3 DEF more, n

\* An SCU more, of a call that has been checked against the session before it.
LEMMA ScuInPlace ==
  ASSUME NEW media \in Seq(Media), NEW m \in Media, NEW s \in Sessions, NEW t \in Sessions,
         Agree(media, s), \A i \in 1..Len(media) : InPlace(media, i),
         m.unit.kind = "SCU", m.unit.config # 0,
         t.scu.kind = "SCU", t.scu.config = m.unit.config, t.gate \in {0, t.scu.config},
         media # <<>> => t.gate # 0 \/ (s.gate = 0 /\ s.scu.config = t.scu.config)
  PROVE  /\ Agree(Append(media, m), t)
         /\ \A i \in 1..Len(Append(media, m)) : InPlace(Append(media, m), i)
PROOF
  <1> DEFINE more == Append(media, m)
             n == Len(media)
  <1>1. /\ n \in Nat /\ Len(more) = n + 1 /\ more[n + 1] = m
        /\ \A i \in 1..n : more[i] = media[i]
        /\ \A i \in 0..n, j \in 1..n :
             /\ LastScu(more, j, i) <=> LastScu(media, j, i)
             /\ LastOther(more, j, i) <=> LastOther(media, j, i)
        /\ \A i \in 1..n : InPlace(media, i) => InPlace(more, i)
    BY PlacesBefore
  <1>2. media = <<>> => n = 0
    OBVIOUS
  <1> HIDE DEF more, n
  <1>3. IsScu(more, n + 1) /\ n + 1 \in 1..(n + 1)
    BY <1>1 DEF IsScu
  <1>4. LastScu(more, n + 1, n + 1) /\ more[n + 1].unit.config = t.scu.config
    <2>1. (n + 1 + 1)..(n + 1) = {}
      BY <1>1
    <2>. QED
      BY <2>1, <1>1, <1>3 DEF LastScu
  <1>5. ASSUME NEW j \in 1..(n + 1), LastOther(more, j, n + 1)
        PROVE  more[j].unit.config = t.scu.config \/ t.gate # 0
    <2>1. j \in 1..n
      BY <1>1, <1>3, <1>5 DEF LastOther
    <2>2. LastOther(media, j, n)
      <3>1. (j + 1)..n \subseteq (j + 1)..(n + 1) /\ n \in 0..n
        BY <1>1
      <3>2. LastOther(more, j, n)
        BY <3>1, <1>5 DEF LastOther
      <3>. QED
        BY <3>1, <3>2, <2>1, <1>1
    <2>3. media[j].unit.config = s.scu.config \/ s.gate # 0
      BY <2>1, <2>2, <1>1, <1>2 DEF Agree, n
    <2>4. media # <<>>
      BY <2>1, <1>1, <1>2
    <2>. QED
      BY <2>1, <2>3, <2>4, <1>1 DEF Agree, n
  <1>6. Agree(more, t)
    BY <1>1, <1>3, <1>4, <1>5 DEF Agree
  <1>7. InPlace(more, n + 1)
    BY <1>3, <1>4, <1>1 DEF InPlace
  <1>8. \A i \in 1..(n + 1) : i \in 1..n \/ i = n + 1
    BY <1>1
  <1>9. \A i \in 1..n : InPlace(media, i)
    BY DEF n
  <1>. QED
    BY <1>1, <1>6, <1>7, <1>8, <1>9 DEF more

\* A frame or an end of stream more, allowed by the session.
LEMMA UnitInPlace ==
  ASSUME NEW media \in Seq(Media), NEW m \in Media, NEW s \in Sessions, NEW t \in Sessions,
         Agree(media, s), \A i \in 1..Len(media) : InPlace(media, i),
         m.unit.kind \in {"EFU", "EOS"}, UnitAllowed(m.unit, s),
         t.scu = s.scu, t.gate = 0
  PROVE  /\ Agree(Append(media, m), t)
         /\ \A i \in 1..Len(Append(media, m)) : InPlace(Append(media, m), i)
PROOF
  <1> DEFINE more == Append(media, m)
             n == Len(media)
  <1>1. /\ n \in Nat /\ Len(more) = n + 1 /\ more[n + 1] = m
        /\ \A i \in 1..n : more[i] = media[i]
        /\ \A i \in 0..n, j \in 1..n :
             /\ LastScu(more, j, i) <=> LastScu(media, j, i)
             /\ LastOther(more, j, i) <=> LastOther(media, j, i)
        /\ \A i \in 1..n : InPlace(media, i) => InPlace(more, i)
    BY PlacesBefore
  <1> HIDE DEF more, n
  <1>2. /\ s.scu.config # 0 /\ m.unit.config = s.scu.config
        /\ s.gate # 0 => m.unit.kind = "EFU" /\ m.unit.ra
    BY DEF UnitAllowed
  <1>3. /\ s.scu.kind = "SCU"
        /\ \E j \in 1..n : LastScu(media, j, n) /\ media[j].unit.config = s.scu.config
        /\ \A j \in 1..n : LastOther(media, j, n) => media[j].unit.config = s.scu.config \/ s.gate # 0
    <2>1. s # [scu |-> NoUnit, gate |-> 0]
      BY <1>2 DEF NoUnit
    <2>. QED
      BY <2>1 DEF Agree, n
  <1>4. ~ IsScu(more, n + 1)
    BY <1>1 DEF IsScu
  <1>5. PICK last \in 1..n : LastScu(media, last, n) /\ media[last].unit.config = s.scu.config
    BY <1>3
  <1>6. last \in 1..(n + 1) /\ LastScu(more, last, n + 1) /\ more[last].unit.config = s.scu.config
    <2>1. n \in 0..n /\ \A k \in (last + 1)..(n + 1) : k \in (last + 1)..n \/ k = n + 1
      BY <1>1
    <2>2. LastScu(more, last, n)
      BY <2>1, <1>1, <1>5
    <2>. QED
      BY <2>1, <2>2, <1>1, <1>4, <1>5 DEF LastScu
  <1>7. ASSUME NEW j \in 1..(n + 1), LastOther(more, j, n + 1)
        PROVE  more[j].unit.config = t.scu.config
    <2>1. j = n + 1
      <3>1. j # n + 1 => n + 1 \in (j + 1)..(n + 1)
        BY <1>1
      <3>. QED
        BY <3>1, <1>4, <1>7 DEF LastOther
    <2>. QED
      BY <2>1, <1>1, <1>2
  <1>8. Agree(more, t)
    BY <1>1, <1>2, <1>3, <1>6, <1>7 DEF Agree
  <1>9. InPlace(more, n + 1)
    <2>1. n + 1 - 1 = n /\ n \in 0..n
      BY <1>1
    <2>2. ASSUME NEW j \in 1..n, LastOther(more, j, n), more[j].unit.config # more[n + 1].unit.config
          PROVE  more[n + 1].unit.kind = "EFU" /\ more[n + 1].unit.ra
      <3>1. LastOther(media, j, n) /\ media[j].unit.config # s.scu.config
        BY <2>1, <2>2, <1>1, <1>2
      <3>. QED
        BY <3>1, <1>1, <1>2, <1>3
    <2>. QED
      BY <2>1, <2>2, <1>1, <1>2, <1>6 DEF InPlace
  <1>10. \A i \in 1..(n + 1) : i \in 1..n \/ i = n + 1
    BY <1>1
  <1>11. \A i \in 1..n : InPlace(media, i)
    BY DEF n
  <1>. QED
    BY <1>1, <1>8, <1>9, <1>10, <1>11 DEF more

LEMMA CallOps ==
  ASSUME SendTyped, app.todo # <<>>
  PROVE  /\ Call.op = "config" => CallUnit = Call.unit /\ CallUnit.kind = "SCU" /\ CallUnit.config # 0
         /\ Call.op = "unit" => CallUnit = Call.unit /\ CallUnit.kind \in {"EFU", "EOS"}
         /\ Call.op = "resend" => CallUnit = session.scu
PROOF
  <1>1. Call \in Calls
    BY CallType
  <1>2. /\ Call.op = "config" => Call.unit.kind = "SCU" /\ Call.unit.config # 0
        /\ Call.op = "unit" => Call.unit.kind \in {"EFU", "EOS"}
    BY <1>1 DEF Calls
  <1>. QED
    BY <1>2 DEF CallUnit

LEMMA BeginStory ==
  ASSUME SendTyped, Story, Begin
  PROVE  Story'
PROOF
  <1>1. app.at = "idle" /\ app.todo # <<>> /\ accepted' = accepted
    BY DEF Begin
  <1>2. app \in [at : AppLabels, todo : Seq(Calls), held : Nat, saved : Sessions]
    BY DEF SendTyped
  <1>3. CASE app'.at \notin {"reserve", "enqueue"} /\ session' = session
    <2>1. Committed' = Committed
      BY <1>1, <1>3 DEF Committed
    <2>. QED
      BY <2>1, <1>1, <1>3 DEF Story, Checked
  <1>4. CASE /\ Call.op # "flush"
             /\ Call.op = "config" => ConfigAllowed(CallUnit)
             /\ UnitAllowed(CallUnit, SessionDuring(CallUnit))
             /\ session' = SessionDuring(CallUnit)
             /\ app' = [app EXCEPT !.at = "reserve", !.saved = session]
    <2>1. app'.at = "reserve" /\ app'.saved = session /\ app'.todo = app.todo
      BY <1>2, <1>4
    <2>2. Committed' = Committed
      BY <2>1, <1>1 DEF Committed
    <2>3. Call' = Call
      BY <2>1 DEF Call
    <2>4. Call.op \in {"config", "unit", "resend"}
      BY <1>1, <1>4, CallType
    <2>5. CASE Call.op = "config"
      <3>1. session' = [scu |-> CallUnit, gate |-> 0]
        BY <2>5, <1>4 DEF SessionDuring
      <3>2. CallUnit' = CallUnit
        BY <2>3, <2>5 DEF CallUnit
      <3>3. /\ session.scu.config \in {0, CallUnit.config} \/ CallUnit.config > session.scu.config
            /\ session.gate # 0 => CallUnit.config <= session.scu.config
        BY <2>5, <1>4 DEF ConfigAllowed
      <3>4. Checked'
        BY <3>1, <3>2, <3>3, <2>1, <2>3, <2>5 DEF Checked
      <3>. QED
        BY <3>4, <2>2, <1>1 DEF Story
    <2>6. CASE Call.op # "config"
      <3>1. session' = session /\ UnitAllowed(CallUnit, session)
        BY <2>6, <1>4 DEF SessionDuring
      <3>2. CallUnit' = CallUnit
        BY <2>3, <3>1 DEF CallUnit
      <3>3. UnitAllowed(CallUnit, session)'
        BY <3>1, <3>2 DEF UnitAllowed
      <3>4. Checked'
        BY <3>1, <3>3, <2>1, <2>3, <2>4, <2>6 DEF Checked
      <3>. QED
        BY <3>4, <2>2, <1>1 DEF Story
    <2>. QED
      BY <2>5, <2>6
  <1>5. CASE Call.op = "flush"
    <2>1. app' = [app EXCEPT !.at = "flush"] /\ session' = session
      BY <1>5 DEF Begin
    <2>. QED
      BY <2>1, <1>2, <1>3
  <1>6. CASE Throws /\ session' = session
    <2>1. app'.at = "idle"
      BY <1>1, <1>6, ThrowsType
    <2>. QED
      BY <2>1, <1>3, <1>6
  <1>. QED
    BY <1>4, <1>5, <1>6 DEF Begin

LEMMA ThrowsStory ==
  ASSUME SendTyped, Story, app.at \in {"reserve", "enqueue"}, Throws, session' = app.saved,
         accepted' = accepted
  PROVE  Story'
PROOF
  <1>1. app'.at = "idle"
    BY ThrowsType DEF SendTyped
  <1>2. Committed' = Committed
    BY <1>1 DEF Committed
  <1>. QED
    BY <1>1, <1>2 DEF Story, Checked

LEMMA ReserveStory ==
  ASSUME SendTyped, Story, ReserveQueueBytes
  PROVE  Story'
PROOF
  <1>1. app.at = "reserve" /\ accepted' = accepted
    BY DEF ReserveQueueBytes
  <1>2. app \in [at : AppLabels, todo : Seq(Calls), held : Nat, saved : Sessions]
    BY DEF SendTyped
  <1>3. CASE Throws /\ session' = app.saved
    BY <1>1, <1>3, ThrowsStory
  <1>4. CASE app' \in {app, [app EXCEPT !.at = "enqueue", !.held = WireBytes(CallUnit)]}
               /\ session' = session
    <2>1. app'.at \in {"reserve", "enqueue"} /\ app'.saved = app.saved /\ app'.todo = app.todo
      BY <1>1, <1>2, <1>4
    <2>2. Call' = Call /\ CallUnit' = CallUnit /\ Committed' = Committed
      BY <2>1, <1>1, <1>4 DEF Call, CallUnit, Committed
    <2>3. UnitAllowed(CallUnit, session)' = UnitAllowed(CallUnit, session)
      BY <2>2, <1>4 DEF UnitAllowed
    <2>. QED
      BY <2>1, <2>2, <2>3, <1>1, <1>4 DEF Story, Checked
  <1>. QED
    BY <1>3, <1>4 DEF ReserveQueueBytes

LEMMA EnqueueStory ==
  ASSUME SendTyped, Story, EnqueueReserved
  PROVE  Story'
PROOF
  <1>1. app.at = "enqueue" /\ app.todo # <<>>
    BY DEF EnqueueReserved, SendTyped
  <1>2. /\ app \in [at : AppLabels, todo : Seq(Calls), held : Nat, saved : Sessions]
        /\ session \in Sessions /\ app.saved \in Sessions /\ accepted \in Seq(Media)
    BY DEF SendTyped
  <1>3. CASE Throws /\ session' = app.saved /\ accepted' = accepted
    BY <1>1, <1>3, ThrowsStory
  <1>4. CASE /\ accepted' = Append(accepted, Medium)
             /\ session' = [session EXCEPT !.gate = GateAfter(CallUnit)]
             /\ app' = [app EXCEPT !.at = "idle", !.todo = Tail(app.todo), !.held = 0]
    <2>1. app'.at = "idle"
      BY <1>2, <1>4
    <2>2. Committed = app.saved /\ Committed' = session'
      BY <2>1, <1>1 DEF Committed
    <2>3. session' \in Sessions
      BY <1>1, <1>4, SessionType
    <2>4. /\ session'.scu = session.scu /\ session'.gate = GateAfter(CallUnit)
      BY <1>2, <1>4 DEF Sessions
    <2>5. Medium \in Media /\ Medium.unit = CallUnit
      BY <1>1, CallType DEF Medium
    <2>6. Agree(accepted, app.saved) /\ \A i \in 1..Len(accepted) : InPlace(accepted, i)
      BY <2>2 DEF Story
    <2>7. /\ app.saved.scu.config \in Nat /\ app.saved.gate \in Nat /\ CallUnit.config \in Nat
      BY <1>1, <1>2, CallType DEF Sessions, Units
    <2>8. /\ app.saved.gate \in {0, app.saved.scu.config}
          /\ accepted # <<>> => app.saved.scu.config # 0
      BY <2>6 DEF Agree, NoUnit
    <2>9. /\ Agree(accepted', session') /\ \A i \in 1..Len(accepted') : InPlace(accepted', i)
      <3>1. CASE /\ Call.op = "config" /\ session = [scu |-> CallUnit, gate |-> 0]
                 /\ app.saved.scu.config \in {0, CallUnit.config} \/ CallUnit.config > app.saved.scu.config
                 /\ app.saved.gate # 0 => CallUnit.config <= app.saved.scu.config
        <4>1. /\ CallUnit.kind = "SCU" /\ CallUnit.config # 0 /\ session'.scu = CallUnit
          BY <3>1, <2>4, <1>1, CallOps
        <4>2. session'.gate = IF app.saved.gate # 0 THEN app.saved.gate
                              ELSE IF app.saved.scu.config \notin {0, CallUnit.config}
                                   THEN CallUnit.config ELSE 0
          BY <3>1, <2>4 DEF GateAfter
        <4>3. session'.gate \in {0, CallUnit.config}
          BY <4>2, <3>1, <2>7, <2>8
        <4>4. accepted # <<>> => session'.gate # 0
                                   \/ (app.saved.gate = 0 /\ app.saved.scu.config = CallUnit.config)
          BY <4>1, <4>2, <2>8
        <4>. QED
          BY <4>1, <4>3, <4>4, <2>3, <2>5, <2>6, <1>2, <1>4, ScuInPlace
      <3>2. CASE Call.op = "resend" /\ session = app.saved /\ UnitAllowed(CallUnit, session)
        <4>1. CallUnit = app.saved.scu /\ CallUnit.kind # "none"
          BY <3>2, <1>1, CallOps DEF UnitAllowed
        <4>2. CallUnit.kind = "SCU" /\ CallUnit.config # 0
          BY <4>1, <2>6 DEF Agree, NoUnit
        <4>3. session'.scu = CallUnit /\ session'.gate = app.saved.gate
          BY <4>1, <4>2, <3>2, <2>4 DEF GateAfter
        <4>4. accepted # <<>> => session'.gate # 0
                                   \/ (app.saved.gate = 0 /\ app.saved.scu.config = CallUnit.config)
          BY <4>1, <4>3
        <4>. QED
          BY <4>1, <4>2, <4>3, <4>4, <2>3, <2>5, <2>6, <2>8, <1>2, <1>4, ScuInPlace
      <3>3. CASE Call.op = "unit" /\ session = app.saved /\ UnitAllowed(CallUnit, session)
        <4>1. CallUnit.kind \in {"EFU", "EOS"}
          BY <3>3, <1>1, CallOps
        <4>2. session'.gate = 0
          <5>1. session'.gate = IF CallUnit.kind = "EFU" THEN 0 ELSE session.gate
            BY <3>3, <2>4 DEF GateAfter
          <5>. QED
            BY <5>1, <4>1, <3>3 DEF UnitAllowed
        <4>3. session'.scu = app.saved.scu
          BY <3>3, <2>4
        <4>. QED
          BY <4>1, <4>2, <4>3, <3>3, <2>3, <2>5, <2>6, <1>2, <1>4, UnitInPlace
      <3>. QED
        BY <3>1, <3>2, <3>3, <1>1 DEF Story, Checked
    <2>. QED
      BY <2>1, <2>2, <2>9 DEF Story, Checked
  <1>. QED
    BY <1>3, <1>4 DEF EnqueueReserved

LEMMA QuietStory ==
  ASSUME SendTyped, Story, Flush \/ Destroy
  PROVE  Story'
PROOF
  <1>1. app.at \notin {"reserve", "enqueue"} /\ session' = session /\ accepted' = accepted
    BY DEF Flush, Destroy
  <1>2. app \in [at : AppLabels, todo : Seq(Calls), held : Nat, saved : Sessions]
    BY DEF SendTyped
  <1>3. app'.at \notin {"reserve", "enqueue"}
    <2>1. CASE app.at = "flush" /\ Throws
      BY <2>1, ThrowsType DEF SendTyped
    <2>2. CASE app' = app
      BY <2>2, <1>1
    <2>3. CASE app' = [app EXCEPT !.at = "idle", !.todo = Tail(app.todo)]
      BY <2>3, <1>2
    <2>4. ASSUME NEW l \in {"leave", "stop", "join", "joinRtcp", "gone"},
                 app' = [app EXCEPT !.at = l]
          PROVE  app'.at \notin {"reserve", "enqueue"}
      BY <2>4, <1>2
    <2>. QED
      BY <2>1, <2>2, <2>3, <2>4 DEF Flush, Destroy
  <1>4. Committed' = Committed
    BY <1>1, <1>3 DEF Committed
  <1>. QED
    BY <1>1, <1>3, <1>4 DEF Story, Checked

LEMMA StoryStep ==
  ASSUME SendTyped, Story, [Next]_vars
  PROVE  Story'
PROOF
  <1>1. CASE UNCHANGED <<app, session, accepted>>
    <2>1. Call' = Call /\ CallUnit' = CallUnit /\ Committed' = Committed
      BY <1>1 DEF Call, CallUnit, Committed
    <2>2. UnitAllowed(CallUnit, session)' = UnitAllowed(CallUnit, session)
      BY <2>1, <1>1 DEF UnitAllowed
    <2>. QED
      BY <2>1, <2>2, <1>1 DEF Story, Checked
  <1>2. \/ Begin \/ ReserveQueueBytes \/ EnqueueReserved \/ Flush \/ Destroy
        \/ UNCHANGED <<app, session, accepted>>
    BY SenderCases DEF sendVars, PopMlvcControl, SendLoopPop, SendLoopFinish, SendLoopFail,
       SendLoopSend, HandleRtcpPacket, QueueRetransmissions, RetransmitTimePasses
  <1>. QED
    BY <1>1, <1>2, BeginStory, ReserveStory, EnqueueStory, QuietStory

LEMMA GreatestPlace ==
  ASSUME NEW n \in Nat, NEW S \in SUBSET (1..n), S # {}
  PROVE  \E j \in S : \A k \in S : k <= j
PROOF
  <1> DEFINE Below == {d \in Nat : n - d \in S}
  <1>1. Below # {}
    <2>1. PICK j \in S : TRUE
      OBVIOUS
    <2>2. n - j \in Nat /\ n - (n - j) = j
      OBVIOUS
    <2>. QED
      BY <2>1, <2>2
  <1>2. PICK d \in Below : \A e \in Below : d <= e
    BY <1>1, LeastNumber, Below \in SUBSET Nat
  <1>3. ASSUME NEW k \in S PROVE k <= n - d
    <2>1. n - k \in Nat /\ n - (n - k) = k
      OBVIOUS
    <2>2. d <= n - k
      BY <2>1, <1>2
    <2>. QED
      BY <2>2, <1>2
  <1>. QED
    BY <1>2, <1>3

LEMMA StorySwitches ==
  ASSUME SendTyped, Story
  PROVE  SwitchStartsAtRandomAccess
PROOF
  <1>1. Len(accepted) \in Nat
    BY LenProperties DEF SendTyped
  <1>2. SUFFICES ASSUME NEW i \in 1..Len(accepted)
        PROVE  LET u == accepted[i].unit
                   scus == {j \in 1..i: accepted[j].unit.kind = "SCU"}
                   others == {j \in 1..(i - 1): accepted[j].unit.kind # "SCU"}
                   lastScu == CHOOSE j \in scus: \A k \in scus: k <= j
               IN /\ scus # {} /\ accepted[lastScu].unit.config = u.config
                  /\ u.kind # "SCU" /\ others # {} =>
                       LET before == CHOOSE j \in others: \A k \in others: k <= j
                       IN accepted[before].unit.config # u.config => u.kind = "EFU" /\ u.ra
    BY DEF SwitchStartsAtRandomAccess
  <1>3. InPlace(accepted, i)
    BY DEF Story
  <1> DEFINE scus == {j \in 1..i: accepted[j].unit.kind = "SCU"}
             others == {j \in 1..(i - 1): accepted[j].unit.kind # "SCU"}
             lastScu == CHOOSE j \in scus: \A k \in scus: k <= j
             before == CHOOSE j \in others: \A k \in others: k <= j
  <1>4. PICK j \in 1..i : LastScu(accepted, j, i) /\ accepted[j].unit.config = accepted[i].unit.config
    BY <1>3 DEF InPlace
  <1>5. j \in scus /\ \A k \in scus : k <= j
    <2>1. j \in scus
      BY <1>4 DEF LastScu, IsScu
    <2>2. ASSUME NEW k \in scus PROVE k <= j
      <3>1. k \notin (j + 1)..i
        BY <1>4 DEF LastScu, IsScu
      <3>2. k \in 1..i /\ i \in Int
        BY <1>1
      <3>. QED
        BY <3>1, <3>2
    <2>. QED
      BY <2>1, <2>2
  <1>6. lastScu = j
    <2>1. lastScu \in scus /\ \A k \in scus : k <= lastScu
      BY <1>5, Zenon
    <2>2. j <= lastScu /\ lastScu <= j
      BY <2>1, <1>5
    <2>3. scus \subseteq Int
      BY <1>1
    <2> HIDE DEF lastScu, scus
    <2>. QED
      BY <2>1, <2>2, <2>3, <1>5
  <1>7. ASSUME others # {} PROVE LastOther(accepted, before, i - 1) /\ before \in 1..(i - 1)
    <2>1. \E k \in others : \A l \in others : l <= k
      <3>1. i - 1 \in Nat /\ others \in SUBSET (1..(i - 1))
        BY <1>1
      <3> HIDE DEF others
      <3>. QED
        BY <3>1, <1>7, GreatestPlace
    <2>2. before \in others /\ \A l \in others : l <= before
      <3> HIDE DEF others
      <3>. QED
        BY <2>1, Zenon
    <2> HIDE DEF before
    <2>3. before \in 1..(i - 1) /\ accepted[before].unit.kind # "SCU"
      BY <2>2
    <2>4. ASSUME NEW k \in (before + 1)..(i - 1) PROVE accepted[k].unit.kind = "SCU"
      <3>1. k \in 1..(i - 1) /\ ~ (k <= before)
        BY <2>3, <1>1
      <3>. QED
        BY <3>1, <2>2
    <2>. QED
      BY <2>3, <2>4 DEF LastOther, IsScu
  <1>8. /\ scus # {}
        /\ accepted[lastScu].unit.config = accepted[i].unit.config
    BY <1>4, <1>5, <1>6
  <1>9. ASSUME accepted[i].unit.kind # "SCU", others # {},
               accepted[before].unit.config # accepted[i].unit.config
        PROVE  accepted[i].unit.kind = "EFU" /\ accepted[i].unit.ra
    <2> HIDE DEF before, others
    <2>. QED
      BY <1>3, <1>7, <1>9 DEF InPlace, IsScu
  <1>. QED
    BY <1>8, <1>9, Zenon

\* A new configuration takes effect at its random-access frame and no unit precedes its
\* SCU: for every sequence of calls, whichever of them are refused or fail.
THEOREM SwitchAlways == Spec => []SwitchStartsAtRandomAccess
PROOF
  <1>1. Init => Story
    <2>1. SUFFICES ASSUME Init PROVE Story
      OBVIOUS
    <2>2. PICK script : SendInit({script})
      BY <2>1 DEF Init
    <2>3. /\ app.at = "idle" /\ session = [scu |-> NoUnit, gate |-> 0] /\ accepted = <<>>
      BY <2>2 DEF SendInit
    <2>4. Committed = session
      BY <2>3 DEF Committed
    <2>5. Len(accepted) = 0
      BY <2>3
    <2>. QED
      BY <2>3, <2>4, <2>5 DEF Story, Checked, Agree
  <1>2. Typed /\ Story /\ [Next]_vars => Story'
    BY StoryStep DEF Typed
  <1>3. Typed /\ Story => SwitchStartsAtRandomAccess
    BY StorySwitches DEF Typed
  <1>. QED
    BY <1>1, <1>2, <1>3, SenderTypes, PTL DEF Spec

=============================================================================
