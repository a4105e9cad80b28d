------------------------- MODULE CameraFrontEndProofs -------------------------
(***************************************************************************)
(* The front end with a camera is the front end: what EncodeFrontEndProofs *)
(* shows of any source holds of this one.  And the codec sees the camera:  *)
(* its threads hand the frames on in the order they were taken, and the    *)
(* buffer the codec reads is the one of its frame, for any capacity of the *)
(* queues and pools.                                                       *)
(***************************************************************************)
EXTENDS CameraFrontEnd, EncodeFrontEndProofs, SequenceTheorems

-----------------------------------------------------------------------------
\* A step of the program with its reader is a step of the front end, or none.
LEMMA CameraStep == CameraNext => [Next]_vars
<1> SUFFICES ASSUME CameraNext PROVE [Next]_vars
  OBVIOUS
<1>1. CASE LastReference
  BY <1>1 DEF Next
<1>2. CASE Unreferenced = {} /\ Read
  BY <1>2 DEF Read, FileWorker, CameraWorker, StartsTensors, Next, SourceWorker, Worker
<1>3. CASE Unreferenced = {} /\ (ProducerWithReader \/ ConsumerWithReader \/ MainWithReader)
  BY <1>3 DEF ProducerWithReader, ConsumerWithReader, MainWithReader, Next
<1>4. CASE Unreferenced = {} /\ \E w \in Workers : WorkerWithReader(w)
  BY <1>4 DEF WorkerWithReader, Next
<1>5. CASE CameraThread \/ TensorThread \/ RtspThread \/ Close
  BY <1>5 DEF CameraThread, TensorThread, RtspThread, Close, OnlyReader
<1>6. CASE Unreferenced = {} /\ (Wakeup \/ RunOver)
  BY <1>6 DEF Next
<1> QED
  BY <1>1, <1>2, <1>3, <1>4, <1>5, <1>6 DEF CameraNext

\* Whatever the reader's threads do, the front end sees a source that gives frames,
\* ends or throws: its theorems hold with a camera too (ReadFrameAsTensor, Close).
THEOREM CameraIsASource == CameraSpec => Spec
<1>1. CameraInit => Init
  BY DEF CameraInit
<1>2. [CameraNext]_allVars => [Next]_vars
  BY CameraStep DEF allVars
<1> QED
  BY <1>1, <1>2, PTL DEF CameraSpec, Spec

-----------------------------------------------------------------------------
(* What holds of the reader.                                               *)

Ends == [stop : BOOLEAN, eof : BOOLEAN, error : BOOLEAN]

ReaderTyped ==
  /\ source \in Sources
  /\ camera \in {"gone", "room", "decode", "push"} /\ shots \in Nat
  /\ cameraQueue \in Seq(Nat) /\ cameraEnd \in Ends
  /\ tensor \in {"unstarted", "pop", "convert", "push", "gone"}
  /\ tensorQueue \in Seq(Nat) /\ tensorEnd \in Ends
  /\ lease \in [Slots -> Nat \cup {NoFrame}]
  /\ closing \in {"open", "join", "join rtsp", "closed"}
  /\ spoilt \subseteq 0..(shots - 1) /\ shown \in Seq(Nat)

\* A thread has a frame in hand where its code has one.
Hands ==
  /\ IF camera \in {"decode", "push"} THEN shot \in Nat ELSE shot = NoFrame
  /\ IF tensor \in {"convert", "push"} THEN converting \in Nat ELSE converting = NoFrame

\* A thread that is told to stop may drop its frame: then nobody asks for it.
StopsLate ==
  /\ cameraEnd.stop => closing # "open" \/ cameraEnd.error
  /\ tensorEnd.stop => closing # "open"

\* The frames from the codec's side to the lens.
FrameLine == shown \o InTheReader
KeepsAll == closing = "open" /\ ~cameraEnd.error /\ ~tensorEnd.error

LineInOrder ==
  /\ Increasing(FrameLine) /\ Range(FrameLine) \subseteq 0..(shots - 1)
  /\ KeepsAll => Range(FrameLine) = 0..(shots - 1) \ spoilt

ReaderInv == ReaderTyped /\ Hands /\ StopsLate /\ LineInOrder

\* A slot is on its way with a frame: in the worker's hand once the frame is read, in
\* the ready list or in the frame's packet.
Carries(s, f) ==
  \/ worker = "push" /\ slot = s /\ reading = f
  \/ \E i \in DOMAIN ready : ready[i].frame = f /\ ready[i].slot = s
  \/ packet[f] = s

\* A buffer shows one of the frames, and no two slots have the same.
OwnBuffers ==
  \A s \in Slots : lease[s] # NoFrame =>
    lease[s] \in Range(shown) /\ \A t \in Slots : lease[t] = lease[s] => t = s

\* As long as the worker reads, each frame of the input queue took one of the camera.
ShownSoFar ==
  source.kind # "file" =>
    /\ worker \in {"acquire", "asleep", "read"} => Len(shown) = reading
    /\ worker = "push" => Len(shown) = reading + 1

\* A slot on its way has the buffer of its frame.
CarriesItsFrame ==
  source.kind # "file" =>
    \A s \in Slots, f \in Frames :
      Carries(s, f) => f + 1 \in DOMAIN shown /\ lease[s] = shown[f + 1]

LeaseInv == OwnBuffers /\ ShownSoFar /\ CarriesItsFrame

-----------------------------------------------------------------------------
(* Frames in a line.                                                       *)

\* Names for the sequences of frames and what is done with them, so that a step
\* uses their laws and nothing else.
Film == Seq(Nat)
Nothing == <<>>
Single(x) == <<x>>
Cat(a, b) == a \o b

LEMMA FilmFacts ==
  /\ \A a, b \in Film : Cat(a, b) \in Film /\ Range(Cat(a, b)) = Range(a) \cup Range(b)
  /\ \A a, b, c \in Film : Cat(Cat(a, b), c) = Cat(a, Cat(b, c))
  /\ Nothing \in Film /\ \A a \in Film : Cat(a, Nothing) = a /\ Cat(Nothing, a) = a
  /\ \A x \in Nat : Single(x) \in Film /\ Range(Single(x)) = {x} /\ Increasing(Single(x))
<1>1. \A a, b \in Film : Cat(a, b) \in Film
  BY DEF Film, Cat
<1>2. \A a, b \in Film : Range(Cat(a, b)) = Range(a) \cup Range(b)
  BY RangeConcatenation DEF Film, Cat
<1>3. \A a, b, c \in Film : Cat(Cat(a, b), c) = Cat(a, Cat(b, c))
  BY DEF Film, Cat
<1>4. Nothing \in Film /\ \A a \in Film : Cat(a, Nothing) = a /\ Cat(Nothing, a) = a
  BY DEF Film, Cat, Nothing
<1>5. \A x \in Nat : Single(x) \in Film /\ Range(Single(x)) = {x} /\ Increasing(Single(x))
  BY DEF Film, Single, Range, Increasing
<1> QED
  BY <1>1, <1>2, <1>3, <1>4, <1>5

LEMMA AppendFilm ==
  ASSUME NEW a \in Film, NEW x \in Nat
  PROVE  Append(a, x) = Cat(a, Single(x)) /\ Append(a, x) \in Film
BY DEF Film, Cat, Single

LEMMA TailFilm ==
  ASSUME NEW a \in Film, a # <<>>
  PROVE  /\ Head(a) \in Nat /\ Tail(a) \in Film /\ a = Cat(Single(Head(a)), Tail(a))
         /\ Head(a) \in Range(a)
BY DEF Film, Cat, Single, Range

LEMMA OneTyped ==
  ASSUME NEW e \in Nat \cup {NoFrame}
  PROVE  One(e) \in Film /\ (e \in Nat => One(e) = Single(e)) /\ One(NoFrame) = Nothing
BY DEF One, NoFrame, Film, Single, Nothing

LEMMA IncreasingConcat ==
  ASSUME NEW s \in Film, NEW t \in Film
  PROVE  Increasing(Cat(s, t)) <=> /\ Increasing(s) /\ Increasing(t)
                                   /\ \A x \in Range(s), y \in Range(t) : x < y
<1> DEFINE u == s \o t
           m == Len(s)
           n == Len(t)
<1>1. /\ m \in Nat /\ n \in Nat /\ u \in Seq(Nat) /\ Len(u) = m + n
      /\ DOMAIN s = 1..m /\ DOMAIN t = 1..n /\ DOMAIN u = 1..(m + n)
  BY ConcatProperties DEF Film
<1>2. /\ \A i \in 1..m : u[i] = s[i] /\ i \in 1..(m + n)
      /\ \A i \in 1..n : u[m + i] = t[i] /\ m + i \in 1..(m + n)
  BY <1>1, ConcatProperties DEF Film
<1>3. \A i \in 1..(m + n) : i \in 1..m \/ i - m \in 1..n
  BY <1>1
<1>4. /\ \A x \in Range(s) : \E i \in 1..m : x = s[i]
      /\ \A y \in Range(t) : \E i \in 1..n : y = t[i]
      /\ \A i \in 1..m : s[i] \in Range(s)
      /\ \A i \in 1..n : t[i] \in Range(t)
  BY <1>1 DEF Range
<1> HIDE DEF u, m, n
<1>5. ASSUME Increasing(u)
      PROVE  Increasing(s) /\ Increasing(t) /\ \A x \in Range(s), y \in Range(t) : x < y
  <2>1. Increasing(s)
    BY <1>1, <1>2, <1>5 DEF Increasing
  <2>2. \A i, j \in 1..n : i < j => m + i < m + j
    BY <1>1
  <2>3. Increasing(t)
    BY <1>1, <1>2, <1>5, <2>2 DEF Increasing
  <2>4. \A i \in 1..m, j \in 1..n : i < m + j
    BY <1>1
  <2>5. \A i \in 1..m, j \in 1..n : s[i] < t[j]
    BY <1>1, <1>2, <1>5, <2>4 DEF Increasing
  <2> QED
    BY <2>1, <2>3, <2>5, <1>4
<1>6. ASSUME Increasing(s), Increasing(t), \A x \in Range(s), y \in Range(t) : x < y
      PROVE  Increasing(u)
  <2> SUFFICES ASSUME NEW i \in 1..(m + n), NEW j \in 1..(m + n), i < j
               PROVE  u[i] < u[j]
    BY <1>1 DEF Increasing
  <2>1. CASE j \in 1..m
    <3>1. i \in 1..m
      BY <1>1, <2>1
    <3>2. s[i] < s[j] /\ u[i] = s[i] /\ u[j] = s[j]
      BY <1>1, <1>2, <1>6, <2>1, <3>1 DEF Increasing
    <3> QED
      BY <3>2
  <2>2. CASE i \in 1..m /\ j - m \in 1..n
    <3>1. u[i] = s[i] /\ u[m + (j - m)] = t[j - m] /\ m + (j - m) = j
      BY <1>1, <1>2, <2>2
    <3> QED
      BY <1>4, <1>6, <2>2, <3>1
  <2>3. CASE i - m \in 1..n /\ j - m \in 1..n
    <3>1. /\ u[m + (i - m)] = t[i - m] /\ u[m + (j - m)] = t[j - m]
      BY <1>2, <2>3
    <3>2. m + (i - m) = i /\ m + (j - m) = j /\ i - m < j - m
      BY <1>1
    <3>3. t[i - m] < t[j - m]
      BY <1>1, <1>6, <2>3, <3>2 DEF Increasing
    <3> QED
      BY <3>1, <3>2, <3>3
  <2>4. i \in 1..m => j \in 1..m \/ j - m \in 1..n
    BY <1>3
  <2>5. i - m \in 1..n => j - m \in 1..n
    BY <1>1
  <2> QED
    BY <1>3, <2>1, <2>2, <2>3, <2>4, <2>5
<1> QED
  BY <1>5, <1>6 DEF u, Cat

\* What is left when a frame leaves the line.
LEMMA LeavesLine ==
  ASSUME NEW s \in Film, NEW e \in Nat, NEW t \in Film,
         Increasing(Cat(Cat(s, Single(e)), t))
  PROVE  /\ Increasing(Cat(s, t))
         /\ Range(Cat(s, t)) \subseteq Range(Cat(Cat(s, Single(e)), t))
<1>1. Single(e) \in Film /\ Cat(s, Single(e)) \in Film
  BY FilmFacts
<1>2. /\ Range(Cat(Cat(s, Single(e)), t)) = Range(Cat(s, Single(e))) \cup Range(t)
      /\ Range(Cat(s, Single(e))) = Range(s) \cup Range(Single(e))
      /\ Range(Cat(s, t)) = Range(s) \cup Range(t)
  BY <1>1, FilmFacts
<1>3. /\ Increasing(Cat(s, Single(e))) /\ Increasing(t)
      /\ \A x \in Range(Cat(s, Single(e))), y \in Range(t) : x < y
  BY <1>1, IncreasingConcat
<1>4. Increasing(s)
  BY <1>1, <1>3, IncreasingConcat
<1>5. Increasing(Cat(s, t))
  BY <1>2, <1>3, <1>4, IncreasingConcat
<1> QED
  BY <1>2, <1>5

\* A frame joins the line.
LEMMA JoinsLine ==
  ASSUME NEW s \in Film, NEW n \in Nat, Increasing(s), Range(s) \subseteq 0..(n - 1)
  PROVE  Increasing(Cat(s, Single(n))) /\ Range(Cat(s, Single(n))) = Range(s) \cup {n}
<1>1. Single(n) \in Film /\ Range(Single(n)) = {n} /\ Increasing(Single(n))
  BY FilmFacts
<1>2. \A x \in Range(s), y \in Range(Single(n)) : x < y
  BY <1>1
<1> QED
  BY <1>1, <1>2, FilmFacts, IncreasingConcat

Line(sh, tq, c, cq, e) == Cat(sh, Cat(Cat(Cat(tq, One(c)), cq), One(e)))

LEMMA LineTyped ==
  ASSUME NEW sh \in Film, NEW tq \in Film, NEW c \in Nat \cup {NoFrame},
         NEW cq \in Film, NEW e \in Nat \cup {NoFrame}
  PROVE  Line(sh, tq, c, cq, e) \in Film
BY OneTyped, FilmFacts DEF Line

\* The steps that hand a frame on do not change the line: the input queue's worker
\* takes a tensor, and the threads take a frame out of a queue and put one into it.
LEMMA LineShows ==
  ASSUME NEW sh \in Film, NEW h \in Nat, NEW t \in Film, NEW c \in Nat \cup {NoFrame},
         NEW cq \in Film, NEW e \in Nat \cup {NoFrame}
  PROVE  Line(sh, Cat(Single(h), t), c, cq, e) = Line(Cat(sh, Single(h)), t, c, cq, e)
<1> DEFINE s == Single(h)
           u == Cat(t, One(c))
           v == Cat(u, cq)
           w == Cat(v, One(e))
<1>1. One(c) \in Film /\ One(e) \in Film /\ s \in Film
  BY OneTyped, FilmFacts
<1>2. u \in Film /\ v \in Film /\ w \in Film
  BY <1>1, FilmFacts
<1>3. Cat(Cat(s, t), One(c)) = Cat(s, u)
  BY <1>1, FilmFacts
<1> HIDE DEF s, u
<1>4. Cat(Cat(s, u), cq) = Cat(s, v)
  BY <1>1, <1>2, FilmFacts
<1> HIDE DEF v
<1>5. Cat(Cat(s, v), One(e)) = Cat(s, w)
  BY <1>1, <1>2, FilmFacts
<1> HIDE DEF w
<1>6. Cat(sh, Cat(s, w)) = Cat(Cat(sh, s), w)
  BY <1>1, <1>2, FilmFacts
<1> QED
  BY <1>3, <1>4, <1>5, <1>6 DEF Line, s, u, v, w

LEMMA LineTaken ==
  ASSUME NEW sh \in Film, NEW tq \in Film, NEW c \in Nat \cup {NoFrame},
         NEW cq \in Film, NEW e \in Nat \cup {NoFrame}, tq # <<>>
  PROVE  Line(sh, tq, c, cq, e) = Line(Append(sh, Head(tq)), Tail(tq), c, cq, e)
<1> DEFINE h == Head(tq)
           t == Tail(tq)
<1>1. h \in Nat /\ t \in Film /\ tq = Cat(Single(h), t)
  BY TailFilm
<1> HIDE DEF h, t
<1>2. Append(sh, h) = Cat(sh, Single(h))
  BY <1>1, AppendFilm
<1>3. Line(sh, Cat(Single(h), t), c, cq, e) = Line(Cat(sh, Single(h)), t, c, cq, e)
  <2> HIDE DEF NoFrame
  <2>1. h \in Nat /\ t \in Film
    BY <1>1
  <2> QED
    BY <2>1, LineShows
<1>4. Line(sh, tq, c, cq, e) = Line(Append(sh, h), t, c, cq, e)
  BY <1>1, <1>2, <1>3
<1> QED
  BY <1>4 DEF h, t

LEMMA LineConverted ==
  ASSUME NEW sh \in Film, NEW tq \in Film, NEW c \in Nat,
         NEW cq \in Film, NEW e \in Nat \cup {NoFrame}
  PROVE  Line(sh, tq, c, cq, e) = Line(sh, Append(tq, c), NoFrame, cq, e)
<1>1. /\ One(c) = Single(c) /\ Append(tq, c) = Cat(tq, Single(c)) /\ Append(tq, c) \in Film
      /\ Line(sh, Append(tq, c), NoFrame, cq, e)
           = Cat(sh, Cat(Cat(Cat(Append(tq, c), Nothing), cq), One(e)))
  BY OneTyped, AppendFilm DEF Line
<1>2. Cat(Append(tq, c), Nothing) = Cat(tq, One(c))
  BY <1>1, FilmFacts
<1> QED
  BY <1>1, <1>2 DEF Line

LEMMA LinePopped ==
  ASSUME NEW sh \in Film, NEW tq \in Film, NEW cq \in Film, NEW e \in Nat \cup {NoFrame},
         cq # <<>>
  PROVE  Line(sh, tq, NoFrame, cq, e) = Line(sh, tq, Head(cq), Tail(cq), e)
<1> DEFINE h == Head(cq)
           t == Tail(cq)
<1>1. h \in Nat /\ Single(h) \in Film /\ t \in Film /\ cq = Cat(Single(h), t)
  BY FilmFacts, TailFilm
<1> HIDE DEF h, t
<1>2. One(e) \in Film /\ One(NoFrame) = Nothing /\ One(h) = Single(h)
  BY <1>1, OneTyped
<1>3. Line(sh, tq, NoFrame, cq, e) = Line(sh, tq, h, t, e)
  BY <1>1, <1>2, FilmFacts DEF Line
<1> QED
  BY <1>3 DEF h, t

LEMMA LineStored ==
  ASSUME NEW sh \in Film, NEW tq \in Film, NEW c \in Nat \cup {NoFrame},
         NEW cq \in Film, NEW e \in Nat
  PROVE  Line(sh, tq, c, cq, e) = Line(sh, tq, c, Append(cq, e), NoFrame)
<1> DEFINE p == Cat(tq, One(c))
<1>1. One(c) \in Film /\ One(e) \in Film /\ p \in Film
  BY OneTyped, FilmFacts
<1>2. /\ One(e) = Single(e) /\ Append(cq, e) = Cat(cq, One(e)) /\ Append(cq, e) \in Film
      /\ Line(sh, tq, c, Append(cq, e), NoFrame) = Cat(sh, Cat(Cat(p, Append(cq, e)), Nothing))
  BY OneTyped, AppendFilm DEF Line
<1> HIDE DEF p
<1>3. Cat(Cat(p, cq), One(e)) = Cat(p, Append(cq, e)) /\ Cat(p, Append(cq, e)) \in Film
  BY <1>1, <1>2, FilmFacts
<1>4. Cat(Cat(p, Append(cq, e)), Nothing) = Cat(p, Append(cq, e))
  BY <1>3, FilmFacts
<1> QED
  BY <1>2, <1>3, <1>4 DEF Line, p

\* A frame taken joins the line.
LEMMA LineGrows ==
  ASSUME NEW sh \in Film, NEW tq \in Film, NEW c \in Nat \cup {NoFrame},
         NEW cq \in Film, NEW n \in Nat
  PROVE  Line(sh, tq, c, cq, n) = Cat(Line(sh, tq, c, cq, NoFrame), Single(n))
<1>1. One(c) \in Film /\ One(NoFrame) = Nothing /\ One(n) = Single(n) /\ Single(n) \in Film
  BY OneTyped, FilmFacts
<1> QED
  BY <1>1, FilmFacts DEF Line

\* A frame dropped leaves the others in order.
LEMMA LineDrops ==
  ASSUME NEW sh \in Film, NEW tq \in Film, NEW c \in Nat \cup {NoFrame},
         NEW cq \in Film, NEW e \in Nat \cup {NoFrame},
         Increasing(Line(sh, tq, c, cq, e))
  PROVE  /\ Increasing(Line(sh, tq, c, cq, NoFrame))
         /\ Range(Line(sh, tq, c, cq, NoFrame)) \subseteq Range(Line(sh, tq, c, cq, e))
         /\ Increasing(Line(sh, tq, NoFrame, cq, e))
         /\ Range(Line(sh, tq, NoFrame, cq, e)) \subseteq Range(Line(sh, tq, c, cq, e))
<1>1. /\ One(e) \in Film /\ One(NoFrame) = Nothing /\ Nothing \in Film
      /\ c \in Nat => One(c) = Single(c) /\ Single(c) \in Film
  BY OneTyped, FilmFacts
<1>2. /\ Increasing(Line(sh, tq, c, cq, NoFrame))
      /\ Range(Line(sh, tq, c, cq, NoFrame)) \subseteq Range(Line(sh, tq, c, cq, e))
  <2>1. CASE e = NoFrame
    BY <2>1
  <2>2. CASE e \in Nat
    <3> DEFINE l == Line(sh, tq, c, cq, NoFrame)
    <3>1. l \in Film /\ Line(sh, tq, c, cq, e) = Cat(l, Single(e))
      <4> HIDE DEF l, NoFrame
      <4>1. l \in Film
        BY LineTyped DEF l
      <4> QED
        BY <2>2, <4>1, LineGrows DEF l
    <3> HIDE DEF l
    <3>2. Cat(l, Single(e)) = Cat(Cat(l, Single(e)), Nothing) /\ l = Cat(l, Nothing)
      BY <2>2, <3>1, FilmFacts
    <3> QED
      BY <1>1, <2>2, <3>1, <3>2, LeavesLine DEF l
  <2> QED
    BY <2>1, <2>2
<1>3. /\ Increasing(Line(sh, tq, NoFrame, cq, e))
      /\ Range(Line(sh, tq, NoFrame, cq, e)) \subseteq Range(Line(sh, tq, c, cq, e))
  <2>1. CASE c = NoFrame
    BY <2>1
  <2>2. CASE c \in Nat
    <3> DEFINE s == Cat(sh, tq)
               t == Cat(cq, One(e))
    <3>1. s \in Film /\ t \in Film
      BY <1>1, FilmFacts
    <3>2. Line(sh, tq, c, cq, e) = Cat(Cat(s, Single(c)), t)
      BY <1>1, <2>2, FilmFacts DEF Line
    <3>3. Line(sh, tq, NoFrame, cq, e) = Cat(s, t)
      BY <1>1, FilmFacts DEF Line
    <3> HIDE DEF s, t
    <3> QED
      BY <2>2, <3>1, <3>2, <3>3, LeavesLine
  <2> QED
    BY <2>1, <2>2
<1> QED
  BY <1>2, <1>3

\* The frames shown are in order and come before those in the tensor queue.
LEMMA LineBegins ==
  ASSUME NEW sh \in Film, NEW tq \in Film, NEW c \in Nat \cup {NoFrame},
         NEW cq \in Film, NEW e \in Nat \cup {NoFrame},
         Increasing(Line(sh, tq, c, cq, e))
  PROVE  /\ Increasing(sh) /\ Range(sh) \subseteq Range(Line(sh, tq, c, cq, e))
         /\ tq # <<>> => \A x \in Range(sh) : x < Head(tq)
         /\ Line(sh, Nothing, NoFrame, Nothing, NoFrame) = sh
<1> DEFINE r == Cat(Cat(One(c), cq), One(e))
<1>1. One(c) \in Film /\ One(e) \in Film /\ One(NoFrame) = Nothing
  BY OneTyped
<1>2. r \in Film /\ Line(sh, tq, c, cq, e) = Cat(sh, Cat(tq, r))
  BY <1>1, FilmFacts DEF Line
<1>3. Line(sh, Nothing, NoFrame, Nothing, NoFrame) = sh
  BY <1>1, FilmFacts DEF Line
<1> HIDE DEF r
<1>4. Cat(tq, r) \in Film /\ Range(Cat(tq, r)) = Range(tq) \cup Range(r)
  BY <1>2, FilmFacts
<1> DEFINE v == Cat(tq, r)
<1>5. v \in Film /\ Increasing(Cat(sh, v))
  BY <1>2, <1>4
<1> HIDE DEF v
<1>6. Range(Cat(sh, v)) = Range(sh) \cup Range(v)
  BY <1>5, FilmFacts
<1>7. Increasing(sh) /\ \A x \in Range(sh), y \in Range(v) : x < y
  BY <1>5, IncreasingConcat
<1>8. tq # <<>> => Head(tq) \in Range(v)
  BY <1>4, TailFilm DEF v
<1> QED
  BY <1>2, <1>3, <1>6, <1>7, <1>8 DEF v

-----------------------------------------------------------------------------
(* The reader's threads keep the line.                                     *)

LEMMA FrameLineIs ==
  /\ FrameLine = Line(shown, tensorQueue, converting, cameraQueue, shot)
  /\ FrameLine' = Line(shown', tensorQueue', converting', cameraQueue', shot')
BY DEF FrameLine, InTheReader, Line, Cat

LEMMA HandsTyped ==
  ASSUME ReaderInv
  PROVE  /\ shown \in Film /\ tensorQueue \in Film /\ cameraQueue \in Film
         /\ shot \in Nat \cup {NoFrame} /\ converting \in Nat \cup {NoFrame}
BY DEF ReaderInv, ReaderTyped, Hands, Film

\* A step that hands a frame on, or none.
LEMMA LineKept ==
  ASSUME ReaderInv, FrameLine' = FrameLine, UNCHANGED <<shots, spoilt>>,
         KeepsAll' => KeepsAll
  PROVE  LineInOrder'
BY DEF ReaderInv, LineInOrder

\* A step that drops a frame.
LEMMA LineShortened ==
  ASSUME ReaderInv, Increasing(FrameLine'), Range(FrameLine') \subseteq Range(FrameLine),
         UNCHANGED shots, ~KeepsAll'
  PROVE  LineInOrder'
BY DEF ReaderInv, LineInOrder

LEMMA ReaderInit == CameraInit => ReaderInv
<1> SUFFICES ASSUME CameraInit PROVE ReaderInv
  OBVIOUS
<1>1. ReaderTyped
  <2>1. Open \in Ends /\ <<>> \in Seq(Nat)
    BY DEF Open, Ends
  <2>2. /\ source \in Sources /\ shots = 0 /\ spoilt = {} /\ shown = <<>>
        /\ cameraQueue = <<>> /\ tensorQueue = <<>> /\ cameraEnd = Open /\ tensorEnd = Open
    BY DEF CameraInit
  <2>3. lease \in [Slots -> Nat \cup {NoFrame}]
    BY DEF CameraInit
  <2>4. /\ camera \in {"gone", "room"} /\ tensor = "unstarted" /\ closing \in {"closed", "open"}
    BY DEF CameraInit
  <2> QED
    BY <2>1, <2>2, <2>3, <2>4 DEF ReaderTyped
<1>2. Hands /\ StopsLate
  <2>1. camera \in {"gone", "room"} /\ tensor = "unstarted" /\ shot = NoFrame /\ converting = NoFrame
    BY DEF CameraInit
  <2>2. ~cameraEnd.stop /\ ~tensorEnd.stop
    BY DEF CameraInit, Open
  <2> QED
    BY <2>1, <2>2 DEF Hands, StopsLate
<1>3. FrameLine = <<>> /\ shots = 0 /\ spoilt = {}
  <2>1. /\ shown = <<>> /\ tensorQueue = <<>> /\ converting = NoFrame /\ cameraQueue = <<>>
        /\ shot = NoFrame /\ shots = 0 /\ spoilt = {}
    BY DEF CameraInit
  <2> QED
    BY <2>1 DEF FrameLine, InTheReader, One
<1>4. Increasing(<<>>) /\ Range(<<>>) = {}
  BY DEF Increasing, Range
<1>5. LineInOrder
  BY <1>3, <1>4 DEF LineInOrder
<1> QED
  BY <1>1, <1>2, <1>5 DEF ReaderInv

LEMMA ReaderCamera ==
  ASSUME ReaderInv, CameraThread
  PROVE  ReaderInv'
<1> USE DEF tensorVars, closeVars, OnlyReader
<1>1. ReaderTyped /\ Hands /\ StopsLate /\ LineInOrder
  BY DEF ReaderInv
<1>2. UNCHANGED <<source, shown, tensorVars, closeVars, lease>>
  BY DEF CameraThread
<1>3. CASE CameraStops \/ CameraReadsEnd \/ CameraDecodes
  <2>1. ReaderTyped' /\ Hands' /\ StopsLate' /\ (KeepsAll' => KeepsAll)
    BY <1>1, <1>2, <1>3
       DEF CameraStops, CameraReadsEnd, CameraRoom, CameraDecodes, ReaderTyped, Hands, StopsLate,
           KeepsAll, Ends
  <2>2. UNCHANGED <<shown, tensorQueue, converting, cameraQueue, shot, shots, spoilt>>
    BY <1>2, <1>3 DEF CameraStops, CameraReadsEnd, CameraDecodes
  <2>3. FrameLine' = FrameLine
    BY <2>2 DEF FrameLine, InTheReader
  <2> QED
    BY <2>1, <2>2, <2>3, LineKept DEF ReaderInv
<1>4. CASE CameraReads
  <2>1. camera = "room" /\ shot = NoFrame /\ shots' = shots + 1 /\ shots \in Nat
        /\ UNCHANGED <<cameraQueue, cameraEnd>>
    BY <1>1, <1>4 DEF CameraReads, CameraRoom, Hands, ReaderTyped
  <2>a. /\ spoilt \subseteq 0..(shots - 1) /\ shots' \in Nat /\ shots \notin spoilt
        /\ 0..(shots' - 1) = 0..(shots - 1) \cup {shots} /\ shots \notin 0..(shots - 1)
    <3>1. shots + 1 \in Nat /\ shots \notin 0..(shots - 1)
      BY <2>1
    <3>2. 0..((shots + 1) - 1) = 0..(shots - 1) \cup {shots}
      BY <2>1
    <3> QED
      BY <1>1, <2>1, <3>1, <3>2 DEF ReaderTyped
  <2>2. CASE camera' = "decode" /\ shot' = shots /\ UNCHANGED spoilt
    <3>1. ReaderTyped' /\ Hands' /\ StopsLate' /\ (KeepsAll' => KeepsAll)
      <4>1. ReaderTyped'
        BY <1>1, <1>2, <2>1, <2>a, <2>2 DEF ReaderTyped
      <4>2. Hands'
        BY <1>1, <1>2, <2>1, <2>2 DEF Hands
      <4>3. StopsLate' /\ (KeepsAll' => KeepsAll)
        BY <1>1, <1>2, <2>1 DEF StopsLate, KeepsAll
      <4> QED
        BY <4>1, <4>2, <4>3
    <3>2. FrameLine' = Cat(FrameLine, Single(shots)) /\ FrameLine \in Film
      <4>1. Line(shown, tensorQueue, converting, cameraQueue, shots)
              = Cat(Line(shown, tensorQueue, converting, cameraQueue, NoFrame), Single(shots))
        <5>1. /\ shown \in Film /\ tensorQueue \in Film /\ cameraQueue \in Film
              /\ converting \in Nat \cup {NoFrame} /\ shots \in Nat
          BY <2>1, HandsTyped
        <5> QED
          BY <5>1, LineGrows, Zenon
      <4>2. Line(shown, tensorQueue, converting, cameraQueue, shot) \in Film
        BY HandsTyped, LineTyped
      <4> QED
        BY <1>2, <2>1, <2>2, <4>1, <4>2, FrameLineIs
    <3>3. /\ Increasing(FrameLine') /\ Range(FrameLine') = Range(FrameLine) \cup {shots}
      BY <1>1, <2>1, <3>2, JoinsLine DEF LineInOrder
    <3>5. LineInOrder'
      BY <1>1, <2>a, <2>2, <3>1, <3>3 DEF LineInOrder
    <3> QED
      BY <3>1, <3>5 DEF ReaderInv
  <2>3. CASE camera' = "room" /\ spoilt' = spoilt \cup {shots} /\ UNCHANGED shot
    <3>1. ReaderTyped' /\ Hands' /\ StopsLate' /\ (KeepsAll' => KeepsAll)
      BY <1>1, <1>2, <2>1, <2>a, <2>3 DEF ReaderTyped, Hands, StopsLate, KeepsAll
    <3>2. FrameLine' = FrameLine
      BY <1>2, <2>1, <2>3 DEF FrameLine, InTheReader
    <3>3. 0..(shots' - 1) \ spoilt' = 0..(shots - 1) \ spoilt
          /\ 0..(shots - 1) \subseteq 0..(shots' - 1)
      BY <2>a, <2>3
    <3>4. LineInOrder'
      BY <1>1, <3>1, <3>2, <3>3 DEF LineInOrder
    <3> QED
      BY <3>1, <3>4 DEF ReaderInv
  <2> QED
    BY <1>4, <2>2, <2>3 DEF CameraReads
<1>5. CASE CameraPushes
  <2>1. camera = "push" /\ shot \in Nat /\ shot' = NoFrame /\ UNCHANGED <<shots, cameraEnd, spoilt>>
    BY <1>1, <1>5 DEF CameraPushes, Hands
  <2>2. CASE cameraEnd.stop /\ camera' = "gone" /\ UNCHANGED cameraQueue
    <3>1. ReaderTyped' /\ Hands' /\ StopsLate' /\ ~KeepsAll'
      BY <1>1, <1>2, <2>1, <2>2 DEF ReaderTyped, Hands, StopsLate, KeepsAll
    <3>2. Increasing(FrameLine') /\ Range(FrameLine') \subseteq Range(FrameLine)
      BY <1>1, <1>2, <2>1, <2>2, FrameLineIs, HandsTyped, LineDrops DEF LineInOrder
    <3> QED
      BY <2>1, <3>1, <3>2, LineShortened DEF ReaderInv
  <2>3. CASE camera' = "room" /\ cameraQueue' = Append(cameraQueue, shot)
    <3>1. ReaderTyped' /\ Hands' /\ StopsLate' /\ (KeepsAll' => KeepsAll)
      <4>1. cameraQueue' \in Seq(Nat)
        BY <2>1, <2>3, HandsTyped, AppendFilm DEF Film
      <4>2. ReaderTyped'
        BY <1>1, <1>2, <2>1, <2>3, <4>1 DEF ReaderTyped
      <4>3. Hands'
        BY <1>1, <1>2, <2>1, <2>3 DEF Hands
      <4>4. StopsLate' /\ (KeepsAll' => KeepsAll)
        BY <1>1, <1>2, <2>1, <2>3 DEF StopsLate, KeepsAll
      <4> QED
        BY <4>2, <4>3, <4>4
    <3>2. FrameLine' = FrameLine
      <4>1. Line(shown, tensorQueue, converting, cameraQueue, shot)
              = Line(shown, tensorQueue, converting, Append(cameraQueue, shot), NoFrame)
        <5>1. /\ shown \in Film /\ tensorQueue \in Film /\ cameraQueue \in Film
              /\ converting \in Nat \cup {NoFrame} /\ shot \in Nat
          BY <2>1, HandsTyped
        <5> QED
          BY <5>1, LineStored, Zenon
      <4> QED
        BY <1>2, <2>1, <2>3, <4>1, FrameLineIs
    <3> QED
      BY <2>1, <3>1, <3>2, LineKept DEF ReaderInv
  <2> QED
    BY <1>5, <2>2, <2>3 DEF CameraPushes
<1>6. CASE CameraThrows
  <2>1. /\ camera = "decode" /\ shot' = NoFrame /\ camera' = "gone"
        /\ cameraEnd' = [cameraEnd EXCEPT !.error = TRUE, !.stop = TRUE]
        /\ UNCHANGED <<shots, cameraQueue, spoilt>>
    BY <1>6 DEF CameraThrows
  <2>2. ReaderTyped' /\ Hands' /\ StopsLate' /\ ~KeepsAll'
    BY <1>1, <1>2, <2>1 DEF ReaderTyped, Hands, StopsLate, KeepsAll, Ends
  <2>3. Increasing(FrameLine') /\ Range(FrameLine') \subseteq Range(FrameLine)
    BY <1>1, <1>2, <2>1, FrameLineIs, HandsTyped, LineDrops DEF LineInOrder
  <2> QED
    BY <2>1, <2>2, <2>3, LineShortened DEF ReaderInv
<1> QED
  BY <1>3, <1>4, <1>5, <1>6 DEF CameraThread

LEMMA ReaderTensor ==
  ASSUME ReaderInv, TensorThread
  PROVE  ReaderInv'
<1> USE DEF cameraVars, closeVars, OnlyReader
<1>1. ReaderTyped /\ Hands /\ StopsLate /\ LineInOrder
  BY DEF ReaderInv
<1>2. UNCHANGED <<source, shown, closeVars, lease>>
  BY DEF TensorThread
<1>3. CASE TensorPops
  <2>1. /\ tensor = "pop" /\ converting = NoFrame /\ tensor' = "convert" /\ cameraQueue # <<>>
        /\ converting' = Head(cameraQueue) /\ cameraQueue' = Tail(cameraQueue)
        /\ UNCHANGED <<tensorQueue, tensorEnd, camera, shots, shot, cameraEnd, spoilt>>
    BY <1>1, <1>3 DEF TensorPops, Hands
  <2>2. converting' \in Nat /\ cameraQueue' \in Seq(Nat)
    BY <2>1, HandsTyped, TailFilm DEF Film
  <2>3. ReaderTyped' /\ Hands' /\ StopsLate' /\ (KeepsAll' => KeepsAll)
    BY <1>1, <1>2, <2>1, <2>2 DEF ReaderTyped, Hands, StopsLate, KeepsAll
  <2>4. FrameLine' = FrameLine
    <3>1. Line(shown, tensorQueue, NoFrame, cameraQueue, shot)
            = Line(shown, tensorQueue, Head(cameraQueue), Tail(cameraQueue), shot)
      BY <2>1, HandsTyped, LinePopped
    <3> QED
      BY <1>2, <2>1, <3>1, FrameLineIs
  <2> QED
    BY <2>1, <2>3, <2>4, LineKept DEF ReaderInv
<1>4. CASE TensorEnds \/ TensorConverts
  <2>1. UNCHANGED <<converting, tensorQueue, cameraVars>>
    BY <1>4 DEF TensorEnds, TensorConverts
  <2>2. ReaderTyped' /\ Hands' /\ StopsLate' /\ (KeepsAll' => KeepsAll)
    BY <1>1, <1>2, <1>4
       DEF TensorEnds, TensorConverts, ReaderTyped, Hands, StopsLate, KeepsAll, Ends
  <2>3. FrameLine' = FrameLine
    BY <1>2, <2>1 DEF FrameLine, InTheReader
  <2> QED
    BY <2>1, <2>2, <2>3, LineKept DEF ReaderInv
<1>5. CASE TensorThrows
  <2>1. /\ tensor = "convert" /\ tensor' = "gone" /\ converting' = NoFrame
        /\ tensorEnd' = [tensorEnd EXCEPT !.error = TRUE, !.eof = TRUE]
        /\ UNCHANGED <<tensorQueue, cameraVars>>
    BY <1>5 DEF TensorThrows
  <2>2. ReaderTyped' /\ Hands' /\ StopsLate' /\ ~KeepsAll'
    BY <1>1, <1>2, <2>1 DEF ReaderTyped, Hands, StopsLate, KeepsAll, Ends
  <2>3. Increasing(FrameLine') /\ Range(FrameLine') \subseteq Range(FrameLine)
    BY <1>1, <1>2, <2>1, FrameLineIs, HandsTyped, LineDrops DEF LineInOrder
  <2> QED
    BY <2>1, <2>2, <2>3, LineShortened DEF ReaderInv
<1>6. CASE TensorPushes
  <2>1. tensor = "push" /\ converting \in Nat /\ converting' = NoFrame /\ UNCHANGED cameraVars
    BY <1>1, <1>6 DEF TensorPushes, Hands
  <2>2. CASE /\ tensorEnd.stop /\ tensor' = "gone"
             /\ tensorEnd' = [tensorEnd EXCEPT !.eof = TRUE] /\ UNCHANGED tensorQueue
    <3>1. ReaderTyped' /\ Hands' /\ StopsLate' /\ ~KeepsAll'
      BY <1>1, <1>2, <2>1, <2>2 DEF ReaderTyped, Hands, StopsLate, KeepsAll, Ends
    <3>2. Increasing(FrameLine') /\ Range(FrameLine') \subseteq Range(FrameLine)
      BY <1>1, <1>2, <2>1, <2>2, FrameLineIs, HandsTyped, LineDrops DEF LineInOrder
    <3> QED
      BY <2>1, <3>1, <3>2, LineShortened DEF ReaderInv
  <2>3. CASE /\ tensor' = "pop" /\ tensorQueue' = Append(tensorQueue, converting)
             /\ UNCHANGED tensorEnd
    <3>1. ReaderTyped' /\ Hands' /\ StopsLate' /\ (KeepsAll' => KeepsAll)
      <4>1. tensorQueue' \in Seq(Nat)
        BY <2>1, <2>3, HandsTyped, AppendFilm DEF Film
      <4>2. ReaderTyped'
        BY <1>1, <1>2, <2>1, <2>3, <4>1 DEF ReaderTyped
      <4>3. Hands'
        BY <1>1, <1>2, <2>1, <2>3 DEF Hands
      <4>4. StopsLate' /\ (KeepsAll' => KeepsAll)
        BY <1>1, <1>2, <2>1, <2>3 DEF StopsLate, KeepsAll
      <4> QED
        BY <4>2, <4>3, <4>4
    <3>2. FrameLine' = FrameLine
      <4>1. Line(shown, tensorQueue, converting, cameraQueue, shot)
              = Line(shown, Append(tensorQueue, converting), NoFrame, cameraQueue, shot)
        <5>1. /\ shown \in Film /\ tensorQueue \in Film /\ cameraQueue \in Film
              /\ converting \in Nat /\ shot \in Nat \cup {NoFrame}
          BY <2>1, HandsTyped
        <5> QED
          BY <5>1, LineConverted, Zenon
      <4> QED
        BY <1>2, <2>1, <2>3, <4>1, FrameLineIs
    <3> QED
      BY <2>1, <3>1, <3>2, LineKept DEF ReaderInv
  <2> QED
    BY <1>6, <2>2, <2>3 DEF TensorPushes
<1> QED
  BY <1>3, <1>4, <1>5, <1>6 DEF TensorThread

\* Nobody takes a frame any more when the queues are emptied.
LEMMA ReaderClose ==
  ASSUME ReaderInv, Close
  PROVE  ReaderInv'
<1> USE DEF cameraVars, tensorVars, OnlyReader
<1>1. ReaderTyped /\ Hands /\ StopsLate /\ LineInOrder
  BY DEF ReaderInv
<1>2. UNCHANGED <<source, shown, lease>>
  BY DEF Close
<1>3. CASE CloseStops
  <2>1. /\ closing = "open" /\ closing' = "join"
        /\ cameraEnd' = [cameraEnd EXCEPT !.stop = TRUE]
        /\ tensorEnd' = [tensorEnd EXCEPT !.stop = TRUE]
        /\ UNCHANGED <<camera, shots, shot, cameraQueue, spoilt, tensor, converting, tensorQueue>>
    BY <1>3 DEF CloseStops
  <2>2. ReaderTyped' /\ Hands' /\ StopsLate' /\ ~KeepsAll'
    BY <1>1, <1>2, <2>1 DEF ReaderTyped, Hands, StopsLate, KeepsAll, Ends
  <2>3. FrameLine' = FrameLine
    BY <1>2, <2>1 DEF FrameLine, InTheReader
  <2> QED
    BY <2>1, <2>2, <2>3, LineKept DEF ReaderInv
<1>4. CASE CloseJoins
  <2>1. /\ camera = "gone" /\ tensor \in {"unstarted", "gone"} /\ closing' = "join rtsp"
        /\ cameraQueue' = <<>> /\ tensorQueue' = <<>>
        /\ UNCHANGED <<camera, shots, shot, cameraEnd, spoilt, tensor, converting, tensorEnd>>
    BY <1>4 DEF CloseJoins
  <2>2. shot = NoFrame /\ converting = NoFrame
    BY <1>1, <2>1 DEF Hands
  <2>a. cameraQueue' \in Seq(Nat) /\ tensorQueue' \in Seq(Nat)
    <3>1. cameraQueue' = Nothing /\ tensorQueue' = Nothing
      BY <1>4, Zenon DEF CloseJoins, Nothing
    <3> QED
      BY <3>1, FilmFacts, Zenon DEF Film
  <2>3. ReaderTyped' /\ Hands' /\ StopsLate' /\ ~KeepsAll'
    <3>1. /\ camera' = camera /\ tensor' = tensor /\ shots' = shots /\ spoilt' = spoilt
          /\ shot' = shot /\ converting' = converting /\ closing' = "join rtsp"
          /\ cameraEnd' = cameraEnd /\ tensorEnd' = tensorEnd /\ source' = source
          /\ lease' = lease /\ shown' = shown
      BY <1>2, <2>1
    <3>2. ReaderTyped'
      BY <1>1, <2>a, <3>1 DEF ReaderTyped
    <3>3. Hands'
      BY <1>1, <3>1 DEF Hands
    <3> QED
      BY <3>1, <3>2, <3>3 DEF StopsLate, KeepsAll
  <2>4. FrameLine' = shown
    <3>1. Line(shown, Nothing, NoFrame, Nothing, NoFrame) = shown
      BY <1>1, HandsTyped, FrameLineIs, LineBegins DEF LineInOrder
    <3> QED
      BY <1>2, <2>1, <2>2, <3>1, FrameLineIs DEF Nothing
  <2>5. Increasing(FrameLine') /\ Range(FrameLine') \subseteq Range(FrameLine)
    BY <1>1, <2>4, HandsTyped, FrameLineIs, LineBegins DEF LineInOrder
  <2> QED
    BY <2>1, <2>3, <2>5, LineShortened DEF ReaderInv
<1>5. CASE CloseJoinsRtsp
  <2>1. closing = "join rtsp" /\ closing' = "closed" /\ UNCHANGED <<cameraVars, tensorVars>>
    BY <1>5 DEF CloseJoinsRtsp
  <2>2. ReaderTyped' /\ Hands' /\ StopsLate' /\ (KeepsAll' => KeepsAll)
    BY <1>1, <1>2, <2>1 DEF ReaderTyped, Hands, StopsLate, KeepsAll
  <2>3. FrameLine' = FrameLine
    BY <1>2, <2>1 DEF FrameLine, InTheReader
  <2> QED
    BY <2>1, <2>2, <2>3, LineKept DEF ReaderInv
<1> QED
  BY <1>3, <1>4, <1>5 DEF Close

\* The rest of the program leaves the frames of the reader alone.
LEMMA ReaderRest ==
  ASSUME ReaderInv, lease' \in [Slots -> Nat \cup {NoFrame}], tensor' \in {tensor, "pop"},
         tensor' # tensor => tensor = "unstarted",
         UNCHANGED <<source, cameraVars, converting, tensorQueue, tensorEnd, closing, shown>>
  PROVE  ReaderInv'
<1> USE DEF cameraVars
<1>1. ReaderTyped' /\ Hands' /\ StopsLate' /\ (KeepsAll' => KeepsAll)
  BY DEF ReaderInv, ReaderTyped, Hands, StopsLate, KeepsAll
<1>2. FrameLine' = FrameLine
  BY DEF FrameLine, InTheReader
<1> QED
  BY <1>1, <1>2, LineKept DEF ReaderInv

LEMMA ReaderWorker ==
  ASSUME ReaderInv, CameraWorker
  PROVE  ReaderInv'
<1> USE DEF cameraVars, closeVars
<1>1. ReaderTyped /\ Hands /\ StopsLate /\ LineInOrder
  BY DEF ReaderInv
<1>2. UNCHANGED <<source, cameraVars, closeVars>>
  BY DEF CameraWorker
<1>3. CASE UNCHANGED <<tensorVars, lease, shown>>
  BY <1>1, <1>2, <1>3, ReaderRest DEF tensorVars, ReaderTyped
<1>4. CASE TakesTensor
  <2>1. /\ tensorQueue # <<>> /\ tensorQueue' = Tail(tensorQueue)
        /\ lease' = [lease EXCEPT ![slot] = Head(tensorQueue)]
        /\ shown' = Append(shown, Head(tensorQueue))
        /\ UNCHANGED <<tensor, converting, tensorEnd>>
    BY <1>4 DEF TakesTensor
  <2>2. tensorQueue' \in Seq(Nat) /\ Head(tensorQueue) \in Nat
    BY <2>1, HandsTyped, TailFilm DEF Film
  <2>3. shown' \in Seq(Nat) /\ lease' \in [Slots -> Nat \cup {NoFrame}]
    BY <1>1, <2>1, <2>2, HandsTyped, AppendFilm DEF Film, ReaderTyped
  <2>4. ReaderTyped' /\ Hands' /\ StopsLate' /\ (KeepsAll' => KeepsAll)
    BY <1>1, <1>2, <2>1, <2>2, <2>3 DEF ReaderTyped, Hands, StopsLate, KeepsAll
  <2>5. FrameLine' = FrameLine
    <3>1. Line(shown, tensorQueue, converting, cameraQueue, shot)
            = Line(Append(shown, Head(tensorQueue)), Tail(tensorQueue), converting,
                   cameraQueue, shot)
      <4>1. tensorQueue # <<>>
        BY <2>1
      <4>2. /\ shown \in Film /\ tensorQueue \in Film /\ cameraQueue \in Film
            /\ shot \in Nat \cup {NoFrame} /\ converting \in Nat \cup {NoFrame}
        BY HandsTyped
      <4> QED
        BY <4>1, <4>2, LineTaken
    <3> QED
      BY <1>2, <2>1, <3>1, FrameLineIs
  <2> QED
    BY <1>2, <2>4, <2>5, LineKept DEF ReaderInv
<1>5. TakesTensor \/ UNCHANGED <<tensorVars, lease, shown>>
  BY DEF CameraWorker, LeavesReader, NoTensor, ReadFails
<1> QED
  BY <1>3, <1>4, <1>5

\* Which of the packets' slots were given back, and that nothing else of the reader
\* changed, is all that the other threads' steps say of it.
LEMMA ReaderStep ==
  ASSUME ReaderInv, [CameraNext]_allVars
  PROVE  ReaderInv'
<1> USE DEF cameraVars, tensorVars, closeVars
<1>1. ReaderTyped
  BY DEF ReaderInv
<1>2. CASE ClearExternalBuffers /\ LeavesThreads
  <2>1. lease' \in [Slots -> Nat \cup {NoFrame}]
    BY <1>1, <1>2 DEF ClearExternalBuffers, ReaderTyped
  <2> QED
    BY <1>2, <2>1, ReaderRest DEF LeavesThreads
<1>3. CASE UNCHANGED lease /\ LeavesThreads
  BY <1>1, <1>3, ReaderRest DEF LeavesThreads, ReaderTyped
<1>4. CASE CameraWorker
  BY <1>4, ReaderWorker
<1>5. CASE StartsTensors \/ RtspThread
  BY <1>1, <1>5, ReaderRest DEF StartsTensors, RtspThread, OnlyReader, ReaderTyped
<1>6. CASE CameraThread \/ TensorThread \/ Close
  BY <1>6, ReaderCamera, ReaderTensor, ReaderClose
<1>7. CASE UNCHANGED allVars
  BY <1>1, <1>7, ReaderRest DEF allVars, readerVars, ReaderTyped
<1>8. [CameraNext]_allVars =>
        \/ LeavesThreads /\ (ClearExternalBuffers \/ UNCHANGED lease)
        \/ CameraWorker \/ StartsTensors \/ RtspThread
        \/ CameraThread \/ TensorThread \/ Close \/ UNCHANGED allVars
  BY DEF CameraNext, Read, MainWithReader, ProducerWithReader, ConsumerWithReader,
         WorkerWithReader
<1> QED
  BY <1>2, <1>3, <1>4, <1>5, <1>6, <1>7, <1>8

-----------------------------------------------------------------------------
(* The buffers follow their frames.                                        *)

\* What a caller's step does to the slots on their way: nothing, or Release takes them
\* back, or Pop hands one on.
LEMMA ClientMoves ==
  ASSUME TypeOK, [Client]_qvars
  PROVE  /\ UNCHANGED <<reading, slot>> /\ worker' \in {worker, "acquire"}
         /\ worker' # worker => worker = "asleep"
         /\ \/ ready' = ready /\ \A f \in Frames : packet'[f] \in {packet[f], NoSlot}
            \/ TakeReady
<1> USE DEF sharedVars, workerVars, clientVars
<1>1. packet \in [Frames -> Slots \cup {NoSlot}]
  BY DEF TypeOK
<1>2. CASE \E t \in Poppers : PopCall(t) \/ PopSleep(t) \/ PopError(t) \/ PopEof(t)
  BY <1>2 DEF PopCall, PopSleep, PopError, PopEof
<1>3. CASE \E t \in Poppers : PopFrame(t)
  BY <1>3 DEF PopFrame, NotifyProducer
<1>4. CASE \E f \in Frames : ReleasePacket(f)
  BY <1>1, <1>4 DEF ReleasePacket, ReleaseSlot, NotifyProducer
<1>5. CASE \E f \in Frames : DestroyPacket(f)
  BY <1>1, <1>5 DEF DestroyPacket, ReleaseSlot, NotifyProducer
<1>6. CASE \E e \in {"none", "client"} : Cancel(e)
  BY <1>6 DEF Cancel, StopQueue, NotifyProducer
<1>7. CASE DestroyCall \/ DestroyReturn
  BY <1>7 DEF DestroyCall, DestroyReturn, StopQueue, NotifyProducer
<1>8. CASE UNCHANGED qvars
  BY <1>8 DEF qvars
<1> QED
  BY <1>2, <1>3, <1>4, <1>5, <1>6, <1>7, <1>8 DEF Client, Pop

\* A slot that the worker or the ready list has is in no packet, and a packet's slot in
\* no other packet.
LEMMA CarriesOnce ==
  ASSUME QueueInv
  PROVE  \A f, g \in Frames, s \in Slots :
           packet[f] = s /\ Carries(s, g) => g = f /\ slot # s
                                             /\ \A i \in DOMAIN ready : ready[i].slot # s
<1> SUFFICES ASSUME NEW f \in Frames, NEW g \in Frames, NEW s \in Slots,
                    packet[f] = s, Carries(s, g)
             PROVE  g = f /\ slot # s /\ \A i \in DOMAIN ready : ready[i].slot # s
  OBVIOUS
<1>1. packet \in [Frames -> Slots \cup {NoSlot}] /\ NobodyTwice /\ NeverShared /\ s # NoSlot
  BY SlotIsNoNoSlot DEF QueueInv, TypeOK, SlotsOwnedOnce, Owned
<1>2. s \in PacketSlots
  BY <1>1 DEF PacketSlots, Range
<1>3. slot # s /\ \A i \in DOMAIN ready : ready[i].slot # s
  BY <1>1, <1>2 DEF NeverShared, ReadySlots, WorkerSlot
<1>4. packet[g] = s
  BY <1>3 DEF Carries
<1> QED
  BY <1>1, <1>3, <1>4 DEF NobodyTwice

\* A step after which each slot carries what it carried.
LEMMA LeaseKept ==
  ASSUME LeaseInv, UNCHANGED <<source, shown>>,
         \A s \in Slots : lease'[s] \in {lease[s], NoFrame},
         \A s \in Slots, f \in Frames : Carries(s, f)' => Carries(s, f) /\ lease'[s] = lease[s],
         ShownSoFar'
  PROVE  LeaseInv'
<1>1. OwnBuffers'
  BY DEF LeaseInv, OwnBuffers
<1>2. CarriesItsFrame'
  BY DEF LeaseInv, CarriesItsFrame
<1> QED
  BY <1>1, <1>2 DEF LeaseInv

\* Release clears the external buffer of a slot that nobody has any more.
LEMMA LeaseClients ==
  ASSUME QueueInv, ReaderTyped, LeaseInv, [Client]_qvars, ClearExternalBuffers, LeavesThreads
  PROVE  LeaseInv'
<1>1. /\ TypeOK /\ ready \in Seq(Ready) /\ packet \in [Frames -> Slots \cup {NoSlot}]
      /\ lease \in [Slots -> Nat \cup {NoFrame}]
  BY DEF QueueInv, TypeOK, Ready, ReaderTyped
<1>2. /\ UNCHANGED <<reading, slot>> /\ worker' \in {worker, "acquire"}
      /\ worker' # worker => worker = "asleep"
      /\ \/ ready' = ready /\ \A f \in Frames : packet'[f] \in {packet[f], NoSlot}
         \/ TakeReady
  BY <1>1, ClientMoves
<1>3. \A s \in Slots : lease'[s] = IF \E f \in Frames : packet[f] = s /\ packet'[f] = NoSlot
                                   THEN NoFrame ELSE lease[s]
  BY DEF ClearExternalBuffers
<1>4. ASSUME NEW s \in Slots, NEW f \in Frames, Carries(s, f)'
      PROVE  Carries(s, f) /\ lease'[s] = lease[s]
  <2>1. CASE ready' = ready /\ \A g \in Frames : packet'[g] \in {packet[g], NoSlot}
    <3>1. s # NoSlot
      BY SlotIsNoNoSlot
    <3>2. Carries(s, f)
      BY <1>2, <1>4, <2>1, <3>1 DEF Carries
    <3>3. ASSUME NEW g \in Frames, packet[g] = s, packet'[g] = NoSlot
          PROVE  FALSE
      <4>1. f = g /\ slot # s /\ \A i \in DOMAIN ready : ready[i].slot # s
        BY <3>2, <3>3, CarriesOnce
      <4> QED
        BY <1>2, <1>4, <2>1, <3>1, <3>3, <4>1 DEF Carries
    <3> QED
      BY <1>3, <3>2, <3>3
  <2>2. CASE TakeReady
    <3>1. /\ ready # <<>> /\ ready' = Tail(ready)
          /\ packet' = [packet EXCEPT ![Head(ready).frame] = Head(ready).slot]
      BY <2>2 DEF TakeReady
    <3>2. SlotsDiffer(ready)
      BY DEF QueueInv, SlotsOwnedOnce, Owned, NobodyTwice, SlotsDiffer
    <3>3. /\ Head(ready) = ready[1] /\ Head(ready) \in Ready
          /\ DOMAIN ready = 1..Len(ready) /\ DOMAIN Tail(ready) = 1..Len(ready) - 1
          /\ Len(ready) \in Nat \ {0}
          /\ \A i \in 1..Len(ready) - 1 : Tail(ready)[i] = ready[i + 1] /\ i + 1 \in 1..Len(ready)
      BY <1>1, <3>1, <3>2, TailSlots
    <3>4. Head(ready).slot # NoSlot /\ Head(ready).frame \in Frames /\ 1 \in DOMAIN ready
      BY <3>3, SlotIsNoNoSlot DEF Ready
    <3>5. \A g \in Frames : packet'[g] = NoSlot => packet[g] = NoSlot
      BY <1>1, <3>1, <3>4
    <3>6. lease'[s] = lease[s]
      BY <1>3, <3>5, SlotIsNoNoSlot
    <3>7. packet'[f] = s => packet[f] = s \/ (ready[1].frame = f /\ ready[1].slot = s)
      BY <1>1, <3>1, <3>3, <3>4
    <3>8. Carries(s, f)
      BY <1>2, <1>4, <3>1, <3>3, <3>4, <3>7 DEF Carries
    <3> QED
      BY <3>6, <3>8
  <2> QED
    BY <1>2, <2>1, <2>2
<1>5. ShownSoFar'
  BY <1>2 DEF LeavesThreads, LeaseInv, ShownSoFar
<1>6. \A s \in Slots : lease'[s] \in {lease[s], NoFrame}
  BY <1>3
<1> QED
  BY <1>4, <1>5, <1>6, LeaseKept DEF LeavesThreads

\* The worker takes the next frame of the camera into the slot in its hand.
LEMMA LeaseTakes ==
  ASSUME QueueInv, ReaderInv, LeaseInv, TakesTensor, UNCHANGED <<source, ready, packet, slot, reading>>,
         worker' \in {"push", "finish"}
  PROVE  LeaseInv'
<1> DEFINE h == Head(tensorQueue)
           n == Len(shown)
<1>1. /\ worker = "read" /\ tensorQueue # <<>>
      /\ lease' = [lease EXCEPT ![slot] = h] /\ shown' = Append(shown, h)
  BY DEF TakesTensor
<1>2. /\ shown \in Seq(Nat) /\ lease \in [Slots -> Nat \cup {NoFrame}]
      /\ packet \in [Frames -> Slots \cup {NoSlot}]
  BY DEF ReaderInv, ReaderTyped, QueueInv, TypeOK
<1>3. slot \in Slots /\ slot # NoSlot
  BY <1>1, SlotIsNoNoSlot DEF QueueInv, WorkerState, Holding
<1>4. h \in Nat /\ h # NoFrame
  BY <1>1, HandsTyped, TailFilm DEF NoFrame
<1>5. \A x \in Range(shown) : x < h
  <2>1. Increasing(Line(shown, tensorQueue, converting, cameraQueue, shot))
    BY FrameLineIs DEF ReaderInv, LineInOrder
  <2> QED
    BY <1>1, <2>1, HandsTyped, LineBegins
<1> HIDE DEF h
<1>6. /\ n \in Nat /\ DOMAIN shown = 1..n /\ DOMAIN shown' = 1..(n + 1)
      /\ \A i \in 1..n : shown'[i] = shown[i] /\ i \in 1..(n + 1)
      /\ shown'[n + 1] = h /\ Len(shown') = n + 1
  BY <1>1, <1>2, <1>4
<1>7. h \in Range(shown') /\ Range(shown) \subseteq Range(shown')
  BY <1>6 DEF Range
<1>8. h \notin Range(shown)
  BY <1>4, <1>5
<1>9. \A s \in Slots : lease'[s] = IF s = slot THEN h ELSE lease[s]
  BY <1>1, <1>2
<1>10. OwnBuffers'
  BY <1>3, <1>7, <1>8, <1>9 DEF LeaseInv, OwnBuffers
<1>11. ShownSoFar'
  BY <1>1, <1>6 DEF LeaseInv, ShownSoFar
<1>12. CarriesItsFrame'
  <2> SUFFICES ASSUME source.kind # "file", NEW s \in Slots, NEW f \in Frames, Carries(s, f)'
               PROVE  f + 1 \in 1..(n + 1) /\ lease'[s] = shown'[f + 1]
    BY <1>6 DEF CarriesItsFrame
  <2>1. CASE Carries(s, f)
    <3>1. f + 1 \in 1..n /\ lease[s] = shown[f + 1]
      BY <1>6, <2>1 DEF LeaseInv, CarriesItsFrame
    <3>2. s # slot
      <4>1. CASE packet[f] = s
        BY <1>3, <2>1, <4>1, CarriesOnce
      <4>2. CASE \E i \in DOMAIN ready : ready[i].frame = f /\ ready[i].slot = s
        BY <1>3, <4>2 DEF QueueInv, SlotsOwnedOnce, Owned, NeverShared, ReadySlots, WorkerSlot
      <4> QED
        BY <1>1, <2>1, <4>1, <4>2 DEF Carries
    <3> QED
      BY <1>6, <1>9, <3>1, <3>2
  <2>2. CASE ~Carries(s, f)
    <3>1. s = slot /\ f = reading
      BY <2>2 DEF Carries
    <3>2. n = f
      BY <1>1, <3>1 DEF LeaseInv, ShownSoFar
    <3> QED
      BY <1>6, <1>9, <3>1, <3>2
  <2> QED
    BY <2>1, <2>2
<1> QED
  BY <1>10, <1>11, <1>12 DEF LeaseInv

\* The worker's other steps put a slot with its frame into the ready list, or away.
LEMMA LeaseWorker ==
  ASSUME QueueInv, LeaseInv, UNCHANGED <<source, lease, shown>>,
         \/ WorkerAcquire \/ WorkerLoopEnds \/ WorkerReadEnd \/ WorkerThrow
         \/ WorkerReturnSlot \/ WorkerPush \/ WorkerClose \/ WorkerFinish
  PROVE  LeaseInv'
<1> USE DEF sharedVars, workerVars, clientVars
<1>1. TypeOK /\ ready \in Seq(Ready) /\ reading \in Nat
  BY QueueAssumption DEF QueueInv, TypeOK, Ready
<1>2. CASE WorkerPush
  <2>1. /\ worker = "push" /\ worker' = "acquire" /\ reading' = reading + 1 /\ UNCHANGED packet
        /\ \/ UNCHANGED ready
           \/ ready' = Append(ready, [frame |-> reading, slot |-> slot])
    BY <1>2 DEF WorkerPush
  <2>2. [frame |-> reading, slot |-> slot] \in Ready
    <3>1. slot \in Slots /\ reading < FramesToAttempt
      BY <2>1 DEF QueueInv, WorkerState, Holding
    <3>2. reading \in Frames
      BY <1>1, <3>1, QueueAssumption DEF Frames
    <3> QED
      BY <3>1, <3>2 DEF Ready
  <2>3. ShownSoFar'
    BY <1>1, <2>1 DEF LeaseInv, ShownSoFar
  <2>4. ASSUME NEW s \in Slots, NEW f \in Frames, Carries(s, f)'
        PROVE  Carries(s, f)
    <3>1. CASE UNCHANGED ready
      BY <2>1, <2>4, <3>1 DEF Carries
    <3>2. CASE ready' = Append(ready, [frame |-> reading, slot |-> slot])
      <4>1. /\ Len(ready) \in Nat /\ DOMAIN ready = 1..Len(ready)
            /\ DOMAIN ready' = 1..(Len(ready) + 1)
            /\ \A i \in 1..Len(ready) : ready'[i] = ready[i]
            /\ ready'[Len(ready) + 1] = [frame |-> reading, slot |-> slot]
        BY <1>1, <2>2, <3>2
      <4>2. \A i \in 1..(Len(ready) + 1) : i \in 1..Len(ready) \/ i = Len(ready) + 1
        BY <4>1
      <4> QED
        BY <2>1, <2>4, <4>1, <4>2 DEF Carries
    <3> QED
      BY <2>1, <3>1, <3>2
  <2> QED
    BY <2>3, <2>4, LeaseKept
<1>3. CASE \/ WorkerAcquire \/ WorkerLoopEnds \/ WorkerReadEnd \/ WorkerThrow
           \/ WorkerReturnSlot \/ WorkerClose \/ WorkerFinish
  <2>1. /\ worker' \in {"close", "asleep", "read", "return", "finish", "done"}
        /\ worker' \in {"asleep", "read"} => worker = "acquire"
        /\ UNCHANGED <<reading, ready, packet>>
    BY <1>3 DEF WorkerAcquire, WorkerLoopEnds, WorkerReadEnd, WorkerThrow, WorkerReturnSlot,
                WorkerClose, WorkerFinish
  <2>2. ShownSoFar'
    BY <2>1 DEF LeaseInv, ShownSoFar
  <2>3. \A s \in Slots, f \in Frames : Carries(s, f)' => Carries(s, f)
    BY <2>1 DEF Carries
  <2> QED
    BY <2>2, <2>3, LeaseKept
<1> QED
  BY <1>2, <1>3

\* The steps that leave the slots and what is shown alone.
LEMMA LeaseQuiet ==
  ASSUME LeaseInv, UNCHANGED <<source, lease, shown, ready, packet, slot, reading>>,
         worker' \in {worker, "acquire"}, worker' # worker => worker = "asleep"
  PROVE  LeaseInv'
<1>1. ShownSoFar'
  BY DEF LeaseInv, ShownSoFar
<1>2. \A s \in Slots, f \in Frames : Carries(s, f)' => Carries(s, f)
  BY DEF Carries
<1> QED
  BY <1>1, <1>2, LeaseKept

\* A file has no buffers of its own.
LEMMA LeaseFile ==
  ASSUME LeaseInv, source.kind = "file", UNCHANGED <<source, lease, shown>>
  PROVE  LeaseInv'
BY DEF LeaseInv, OwnBuffers, ShownSoFar, CarriesItsFrame

LEMMA LeaseInit == CameraInit => LeaseInv
<1> SUFFICES ASSUME CameraInit PROVE LeaseInv
  OBVIOUS
<1>1. lease = [s \in Slots |-> NoFrame] /\ shown = <<>> /\ QInit
  BY DEF CameraInit, Init
<1>2. OwnBuffers
  BY <1>1 DEF OwnBuffers
<1>3. worker = "acquire" /\ reading = 0 /\ ready = <<>> /\ packet = [f \in Frames |-> NoSlot]
  BY <1>1 DEF QInit
<1>4. ShownSoFar
  BY <1>1, <1>3 DEF ShownSoFar
<1>5. \A s \in Slots, f \in Frames : ~Carries(s, f)
  BY <1>3, SlotIsNoNoSlot DEF Carries
<1> QED
  BY <1>2, <1>4, <1>5 DEF LeaseInv, CarriesItsFrame

LEMMA LeaseStep ==
  ASSUME QueueInv, ReaderInv, LeaseInv, [CameraNext]_allVars
  PROVE  LeaseInv'
<1> USE DEF LeavesThreads
<1>1. ReaderTyped
  BY DEF ReaderInv
<1>2. CASE /\ LastReference \/ Producer \/ Consumer \/ Main \/ \E w \in Workers : PipelineWorker(w)
           /\ ClearExternalBuffers /\ LeavesThreads
  <2>1. [Client]_qvars
    BY <1>2, ReferenceStep, ProducerStep, ConsumerStep, MainStep, PipelineStep
  <2> QED
    BY <1>1, <1>2, <2>1, LeaseClients
<1>3. CASE (Wakeup \/ RunOver) /\ LeavesThreads /\ UNCHANGED lease
  BY <1>3, LeaseQuiet
     DEF Wakeup, SpuriousWakeup, NotifyProducer, RunOver, vars, qvars, sharedVars, workerVars,
         clientVars
<1>4. CASE source.kind = "file" /\ FileWorker /\ LeavesThreads /\ UNCHANGED lease
  BY <1>4, LeaseFile
<1>5. CASE CameraWorker
  <2>1. CASE TakesTensor /\ (WorkerRead \/ WorkerThrow)
    BY <1>5, <2>1, LeaseTakes DEF CameraWorker, WorkerRead, WorkerThrow, sharedVars, clientVars
  <2>2. CASE /\ UNCHANGED <<lease, shown>>
             /\ \/ WorkerAcquire \/ WorkerLoopEnds \/ WorkerReadEnd \/ WorkerThrow
                \/ WorkerReturnSlot \/ WorkerPush \/ WorkerClose \/ WorkerFinish
    BY <1>5, <2>2, LeaseWorker DEF CameraWorker
  <2> QED
    BY <1>5, <2>1, <2>2 DEF CameraWorker, LeavesReader, NoTensor, ReadFails
<1>6. CASE StartsTensors \/ CameraThread \/ TensorThread \/ RtspThread \/ Close \/ UNCHANGED allVars
  <2>1. UNCHANGED <<source, lease, shown, ready, packet, slot, reading, worker>>
    BY <1>6 DEF StartsTensors, CameraThread, TensorThread, RtspThread, Close, OnlyReader,
                allVars, readerVars, vars, qvars, sharedVars, workerVars, clientVars
  <2> QED
    BY <2>1, LeaseQuiet
<1> QED
  BY <1>2, <1>3, <1>4, <1>5, <1>6
     DEF CameraNext, Read, MainWithReader, ProducerWithReader, ConsumerWithReader,
         WorkerWithReader

-----------------------------------------------------------------------------
\* From the lens to the codec: the frames reach it in the order the camera took them,
\* none twice and none left out, and in the buffer that the codec reads nothing else
\* has been put since, for queues and pools of any size and however the reader's
\* threads, the encoder's and the destructors interleave.
THEOREM CameraCorrect == CameraSpec => []CodecSeesTheSource
<1>1. CameraInit => ReaderInv /\ LeaseInv
  BY ReaderInit, LeaseInit
<1>2. QueueInv /\ ReaderInv /\ LeaseInv /\ [CameraNext]_allVars => (ReaderInv /\ LeaseInv)'
  BY ReaderStep, LeaseStep
<1>3. ReaderInv => CameraKeepsItsFrames
  BY DEF ReaderInv, LineInOrder, KeepsAll, FrameLine, CameraKeepsItsFrames
<1>4. QueueInv /\ FrontInv /\ ReaderInv /\ LeaseInv => CodecReadsTheCamera
  <2> SUFFICES ASSUME QueueInv, FrontInv, ReaderInv, LeaseInv,
                      cons = "process", source.kind # "file"
               PROVE  /\ lease[packet[data]] = shown[data + 1]
                      /\ \A s \in Slots : lease[s] = shown[data + 1] => s = packet[data]
    BY DEF CodecReadsTheCamera
  <2>1. data \in Frames /\ packet[data] \in Slots
    BY DEF FrontInv, CodecInv, QueueInv, TypeOK
  <2>2. data + 1 \in DOMAIN shown /\ lease[packet[data]] = shown[data + 1]
    BY <2>1 DEF LeaseInv, CarriesItsFrame, Carries
  <2>3. shown[data + 1] \in Nat
    <3>1. shown \in Seq(Nat)
      BY DEF ReaderInv, ReaderTyped
    <3> QED
      BY <2>2, <3>1
  <2>4. lease[packet[data]] # NoFrame
    BY <2>2, <2>3 DEF NoFrame
  <2> QED
    BY <2>1, <2>2, <2>4 DEF LeaseInv, OwnBuffers
<1>5. QueueInv /\ FrontInv /\ ReaderInv /\ LeaseInv /\ CodecTakesFrames => CodecSeesTheSource
  BY <1>3, <1>4 DEF CodecSeesTheSource
<1> QED
  BY <1>1, <1>2, <1>5, CameraIsASource, FrontCorrect, CodecCorrect, PTL DEF CameraSpec

\* With a camera too a run that reports success has encoded every frame and no thread
\* failed, no buffer in use is refilled and one thread at a time joins the pipeline.
THEOREM CameraRunCorrect == CameraSpec => [](OkMeansComplete /\ FramesIntact /\ StopsAlone)
BY CameraIsASource, OkCorrect, FrontEndFramesIntact, StopsAloneCorrect, PTL
==============================================================================
