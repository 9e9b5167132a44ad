------------------------ MODULE AlmemoStreamsProofs ------------------------
(***************************************************************************)
(* Proofs about AlmemoStreams, for any streams in any order, any number of *)
(* requests, probes and crashes.                                           *)
(*                                                                         *)
(* The four properties speak of executions in which every reader that was  *)
(* to end has ended in time.  There at most one reader lives, it is its    *)
(* stream's thread, and what the request under way has still to do says    *)
(* what may become of it.                                                  *)
(***************************************************************************)
EXTENDS AlmemoStreams, SequenceTheorems, FiniteSetTheorems, TLAPS

Ops == {"stop", "renew", "start", "answer", "pause", "lock", "unlock", "resume"}
Steps == [op : Ops, stream : Streams \cup {NoStream}]

\* Which step of a request may come after which, anywhere.
Follows ==
  {<<"stop", "stop">>, <<"stop", "renew">>, <<"stop", "start">>, <<"renew", "start">>,
   <<"stop", "answer">>,
   <<"pause", "pause">>, <<"pause", "lock">>, <<"pause", "unlock">>, <<"pause", "resume">>,
   <<"lock", "unlock">>, <<"lock", "resume">>, <<"unlock", "resume">>,
   <<"resume", "resume">>}

\* The steps of a sequence, and that each comes only after what it may follow.
Of(steps) == {steps[i] : i \in DOMAIN steps}
Ordered(steps) ==
  \A i, j \in DOMAIN steps : i < j => <<steps[i].op, steps[j].op>> \in Follows

\* Every step but those for the lock is about a stream.
Addressed(steps) ==
  \A step \in Of(steps) : step.op \in {"lock", "unlock"} \/ step.stream \in Streams

WellFormed(steps) == steps \in Seq(Steps) /\ Ordered(steps) /\ Addressed(steps)

Left == Of(todo)
Running == {s \in Streams : thread[s] # NoReader}

RequestOk ==
  /\ WellFormed(todo)
  /\ joining \in BOOLEAN
  /\ joining => Stopping
  /\ crashes \in Nat
  /\ late \in BOOLEAN

ThreadTypes ==
  /\ pc \in [Readers -> {"dead", "locking", "testing", "reading", "finally", "leaving"}]
  /\ kind \in [Readers -> Streams \cup {NoStream}]
  /\ thread \in [Streams -> Readers \cup {NoReader}]
  /\ pausedStreams \subseteq Streams

\* One reader at most, and it is the thread of the stream it reads.
Single ==
  /\ \A q, r \in Alive : q = r
  /\ \A r \in Alive : kind[r] \in Streams /\ thread[kind[r]] = r
  /\ \A s \in Running : thread[s] \in Alive /\ kind[thread[s]] = s

\* Whatever runs while a start, or the answer to its stop, is still to come will
\* be stopped before.
StoppedFirst ==
  \A s \in Running : \A step \in Left :
    step.op = "start" \/ step = Step("answer", s) =>
      \E stop \in Left : stop.op \in {"stop", "renew"} /\ stop.stream = s

\* A command pauses one stream at most, none that was stopped, and nothing else
\* runs until it ends.
PausedAlone ==
  pausedStreams # {} =>
    /\ \A s, t \in pausedStreams : s = t
    /\ Running \subseteq pausedStreams
    /\ pausedStreams \cap halted = {}
    /\ \A step \in Left : step.op \in {"pause", "lock", "unlock", "resume"}

\* A reader is told to stop only by the request that waits for it.
StopAwaited == \A r \in Alive : kind[r] \in stopEvent => joining /\ Target = kind[r]

\* Without a crash a reader ends only for that reason.
EndAwaited ==
  crashes = 0 => \A r \in Alive : pc[r] \in {"finally", "leaving"} => joining /\ Target = kind[r]

\* A command that still pauses has every stream to resume.
ResumesAll ==
  \A step \in Left : step.op = "pause" => \A s \in Streams : Step("resume", s) \in Left

\* What is paused runs again, or has still to be resumed.
ResumesPaused ==
  crashes = 0 => \A s \in pausedStreams : s \in Running \/ Step("resume", s) \in Left

StreamsOk ==
  /\ ~late
  /\ ThreadTypes
  /\ Single
  /\ StoppedStaysDown
  /\ StoppedFirst
  /\ PausedAlone
  /\ StopAwaited
  /\ EndAwaited
  /\ ResumesAll
  /\ ResumesPaused

AlmemoIInv == RequestOk /\ (late \/ StreamsOk)

-----------------------------------------------------------------------------
(* The steps of a request.                                                 *)

\* The first step is one of those left, and the others may follow it.
LEMMA HeadLemma ==
  ASSUME WellFormed(todo), todo # <<>>
  PROVE  /\ Head(todo) \in Left /\ Head(todo) \in Steps
         /\ \A step \in Left : step = Head(todo) \/ <<Head(todo).op, step.op>> \in Follows
<1>1. todo \in Seq(Steps)
  BY DEF WellFormed
<1>2. Head(todo) = todo[1] /\ Head(todo) \in Steps /\ 1 \in DOMAIN todo
  BY <1>1, HeadTailProperties, LenProperties, EmptySeq
<1>3. \A i \in DOMAIN todo : i = 1 \/ 1 < i
  BY <1>1, LenProperties
<1>4. QED
  BY <1>2, <1>3 DEF Left, Of, WellFormed, Ordered

\* What doing the first step leaves.
LEMMA TailLemma ==
  ASSUME WellFormed(todo), todo # <<>>, todo' = Tail(todo)
  PROVE  /\ WellFormed(todo')
         /\ Head(todo) \in Left
         /\ Head(todo) \in Steps
         /\ Left' \subseteq Left
         /\ Left \subseteq Left' \cup {Head(todo)}
         /\ \A step \in Left' : <<Head(todo).op, step.op>> \in Follows
<1> USE DEF WellFormed
<1>1. /\ Head(todo) = todo[1] /\ Head(todo) \in Steps
      /\ todo' \in Seq(Steps)
      /\ Len(todo') = Len(todo) - 1
      /\ \A i \in 1 .. Len(todo') : todo'[i] = todo[i + 1]
  BY HeadTailProperties
<1>2. /\ DOMAIN todo = 1 .. Len(todo) /\ DOMAIN todo' = 1 .. Len(todo')
      /\ Len(todo) \in Nat \ {0}
  BY <1>1, LenProperties, EmptySeq
<1>3. 1 \in DOMAIN todo
  BY <1>2
<1>4. \A i \in DOMAIN todo' : i + 1 \in DOMAIN todo /\ todo'[i] = todo[i + 1] /\ 1 < i + 1
  BY <1>1, <1>2
<1>5. Head(todo) \in Left /\ Left' \subseteq Left
  BY <1>1, <1>3, <1>4 DEF Left, Of
<1>6. ASSUME NEW step \in Left PROVE step \in Left' \cup {Head(todo)}
  <2>1. PICK i \in DOMAIN todo : step = todo[i]
    BY <1>6 DEF Left, Of
  <2>2. CASE i = 1
    BY <1>1, <2>1, <2>2
  <2>3. CASE i # 1
    <3>1. i - 1 \in DOMAIN todo' /\ (i - 1) + 1 = i
      BY <1>1, <1>2, <2>3
    <3>2. QED
      BY <1>4, <2>1, <3>1 DEF Left, Of
  <2>4. QED
    BY <2>2, <2>3
<1>7. ASSUME NEW step \in Left' PROVE <<Head(todo).op, step.op>> \in Follows
  <2>1. PICK i \in DOMAIN todo' : step = todo'[i]
    BY <1>7 DEF Left, Of
  <2>2. QED
    BY <1>1, <1>3, <1>4, <2>1 DEF Ordered
<1>8. Ordered(todo')
  <2> SUFFICES ASSUME NEW i \in DOMAIN todo', NEW j \in DOMAIN todo', i < j
               PROVE  <<todo'[i].op, todo'[j].op>> \in Follows
    BY DEF Ordered
  <2>1. i + 1 < j + 1
    BY <1>2
  <2>2. QED
    BY <1>4, <2>1 DEF Ordered
<1>9. Addressed(todo')
  BY <1>5 DEF Addressed, Left
<1>10. QED
  BY <1>1, <1>5, <1>6, <1>7, <1>8, <1>9

\* Joining two sequences of steps.
LEMMA ConcatLemma ==
  ASSUME NEW p, WellFormed(p), NEW q, WellFormed(q),
         \A x \in Of(p), y \in Of(q) : <<x.op, y.op>> \in Follows
  PROVE  WellFormed(p \o q) /\ Of(p \o q) = Of(p) \cup Of(q)
<1> DEFINE r == p \o q
<1>1. p \in Seq(Steps) /\ q \in Seq(Steps)
  BY DEF WellFormed
<1>2. /\ r \in Seq(Steps)
      /\ Len(r) = Len(p) + Len(q)
      /\ \A i \in 1 .. Len(p) + Len(q) : r[i] = IF i <= Len(p) THEN p[i] ELSE q[i - Len(p)]
  BY <1>1, ConcatProperties
<1> HIDE DEF r
<1>3. /\ DOMAIN p = 1 .. Len(p) /\ DOMAIN q = 1 .. Len(q) /\ DOMAIN r = 1 .. Len(r)
      /\ Len(p) \in Nat /\ Len(q) \in Nat
  BY <1>1, <1>2, LenProperties
<1>4. \A i \in DOMAIN r :
        \/ i <= Len(p) /\ i \in DOMAIN p /\ r[i] = p[i]
        \/ i > Len(p) /\ i - Len(p) \in DOMAIN q /\ r[i] = q[i - Len(p)]
  BY <1>2, <1>3
<1>5. Of(r) \subseteq Of(p) \cup Of(q)
  BY <1>4 DEF Of
<1>6. Of(p) \subseteq Of(r)
  <2>1. \A i \in DOMAIN p : i \in DOMAIN r /\ r[i] = p[i]
    BY <1>2, <1>3
  <2>2. QED
    BY <2>1 DEF Of
<1>7. Of(q) \subseteq Of(r)
  <2>1. \A i \in DOMAIN q : i + Len(p) \in DOMAIN r /\ r[i + Len(p)] = q[i]
    BY <1>2, <1>3
  <2>2. QED
    BY <2>1 DEF Of
<1>8. Ordered(r)
  <2> SUFFICES ASSUME NEW i \in DOMAIN r, NEW j \in DOMAIN r, i < j
               PROVE  <<r[i].op, r[j].op>> \in Follows
    BY DEF Ordered
  <2>1. CASE j <= Len(p)
    BY <1>3, <1>4, <2>1 DEF WellFormed, Ordered
  <2>2. CASE i > Len(p)
    <3>1. i - Len(p) < j - Len(p) /\ j > Len(p)
      BY <1>3, <2>2
    <3>2. r[i] = q[i - Len(p)] /\ i - Len(p) \in DOMAIN q
      BY <1>3, <1>4, <2>2
    <3>3. r[j] = q[j - Len(p)] /\ j - Len(p) \in DOMAIN q
      BY <1>3, <1>4, <3>1
    <3>4. QED
      BY <3>1, <3>2, <3>3 DEF WellFormed, Ordered
  <2>3. CASE i <= Len(p) /\ j > Len(p)
    BY <1>3, <1>4, <2>3 DEF Of
  <2>4. QED
    BY <1>3, <2>1, <2>2, <2>3
<1>9. Addressed(r)
  BY <1>5 DEF Addressed, WellFormed
<1>10. QED
  BY <1>2, <1>5, <1>6, <1>7, <1>8, <1>9 DEF WellFormed, r

\* One step for each of some streams.
LEMMA EachLemma ==
  ASSUME NEW op \in Ops, <<op, op>> \in Follows, NEW streams \in Seq(Streams)
  PROVE  /\ WellFormed(Each(op, streams))
         /\ Of(Each(op, streams)) = {Step(op, streams[i]) : i \in DOMAIN streams}
<1> DEFINE e == Each(op, streams)
<1>1. DOMAIN streams = 1 .. Len(streams) /\ Len(streams) \in Nat
  BY LenProperties
<1>2. \A i \in 1 .. Len(streams) : streams[i] \in Streams
  BY ElementOfSeq
<1>3. e = [i \in 1 .. Len(streams) |-> Step(op, streams[i])]
  BY <1>1 DEF Each
<1>4. \A i \in 1 .. Len(streams) : Step(op, streams[i]) \in Steps
  BY <1>2 DEF Step, Steps
<1>5. e \in Seq(Steps)
  BY <1>1, <1>3, <1>4
<1>6. DOMAIN e = DOMAIN streams /\ \A i \in DOMAIN e : e[i] = Step(op, streams[i])
  BY <1>1, <1>3
<1> HIDE DEF e
<1>7. Of(e) = {Step(op, streams[i]) : i \in DOMAIN streams}
  BY <1>6 DEF Of
<1>8. Ordered(e)
  BY <1>6 DEF Ordered, Step
<1>9. Addressed(e)
  BY <1>1, <1>2, <1>7 DEF Addressed, Step
<1>10. QED
  BY <1>5, <1>7, <1>8, <1>9 DEF e, WellFormed

\* Two steps in a row.
LEMMA PairLemma ==
  ASSUME NEW x \in Steps, NEW y \in Steps, <<x.op, y.op>> \in Follows,
         x.op \in {"lock", "unlock"} \/ x.stream \in Streams,
         y.op \in {"lock", "unlock"} \/ y.stream \in Streams
  PROVE  WellFormed(<<x, y>>) /\ Of(<<x, y>>) = {x, y}
<1>1. <<x, y>> \in Seq(Steps) /\ DOMAIN <<x, y>> = 1 .. 2
  OBVIOUS
<1>2. Of(<<x, y>>) = {x, y}
  BY <1>1 DEF Of
<1>3. Ordered(<<x, y>>)
  BY <1>1 DEF Ordered
<1>4. QED
  BY <1>1, <1>2, <1>3 DEF WellFormed, Addressed

\* The streams other than one.
LEMMA OthersLemma ==
  ASSUME NEW s \in Streams
  PROVE  /\ Others(s) \in Seq(Streams)
         /\ \A t \in Streams : t # s => \E i \in DOMAIN Others(s) : Others(s)[i] = t
<1> DEFINE k == CHOOSE i \in DOMAIN Order : Order[i] = s
           n == Len(Order)
           p == SubSeq(Order, 1, k - 1)
           q == SubSeq(Order, k + 1, n)
<1>1. /\ Order \in Seq(Streams) /\ DOMAIN Order = 1 .. n /\ n \in Nat
      /\ \A i \in 1 .. n : Order[i] \in Streams
  BY OrderAssumption, LenProperties, ElementOfSeq
<1>2. k \in 1 .. n /\ Order[k] = s
  BY <1>1, OrderAssumption
<1>3. Others(s) = p \o q
  BY DEF Others, RemoveAt
<1> HIDE DEF k, n
<1>4. /\ p \in Seq(Streams) /\ Len(p) = k - 1
      /\ \A i \in 1 .. k - 1 : p[i] = Order[i]
  <2>1. \A i \in 1 .. k - 1 : Order[i] \in Streams
    BY <1>1, <1>2
  <2>2. 1 \in Int /\ k - 1 \in Int
    BY <1>1, <1>2
  <2>3. /\ p \in Seq(Streams) /\ Len(p) = IF 1 <= k - 1 THEN k - 1 - 1 + 1 ELSE 0
        /\ \A i \in 1 .. k - 1 - 1 + 1 : p[i] = Order[1 + i - 1]
    BY <2>1, <2>2, SubSeqProperties
  <2>4. QED
    BY <1>1, <1>2, <2>3
<1>5. /\ q \in Seq(Streams) /\ Len(q) = n - k
      /\ \A i \in 1 .. n - k : q[i] = Order[k + i]
  <2>1. \A i \in k + 1 .. n : Order[i] \in Streams
    BY <1>1, <1>2
  <2>2. k + 1 \in Int /\ n \in Int
    BY <1>1, <1>2
  <2>3. /\ q \in Seq(Streams) /\ Len(q) = IF k + 1 <= n THEN n - (k + 1) + 1 ELSE 0
        /\ \A i \in 1 .. n - (k + 1) + 1 : q[i] = Order[k + 1 + i - 1]
    BY <2>1, <2>2, SubSeqProperties
  <2>4. QED
    BY <1>1, <1>2, <2>3
<1> HIDE DEF p, q
<1>6. /\ p \o q \in Seq(Streams)
      /\ Len(p \o q) = n - 1
      /\ \A i \in 1 .. n - 1 : (p \o q)[i] = IF i <= k - 1 THEN p[i] ELSE q[i - (k - 1)]
  <2>1. /\ p \o q \in Seq(Streams)
        /\ Len(p \o q) = Len(p) + Len(q)
        /\ \A i \in 1 .. Len(p) + Len(q) : (p \o q)[i] = IF i <= Len(p) THEN p[i] ELSE q[i - Len(p)]
    BY <1>4, <1>5, ConcatProperties
  <2>2. Len(p) + Len(q) = n - 1
    BY <1>1, <1>2, <1>4, <1>5
  <2>3. QED
    BY <1>4, <2>1, <2>2
<1>7. DOMAIN (p \o q) = 1 .. n - 1
  BY <1>6, LenProperties
<1>8. ASSUME NEW t \in Streams, t # s
      PROVE  \E i \in 1 .. n - 1 : (p \o q)[i] = t
  <2>1. PICK j \in 1 .. n : Order[j] = t
    BY <1>1, OrderAssumption
  <2>2. CASE j < k
    <3>1. (p \o q)[j] = t
      BY <1>1, <1>2, <1>4, <1>6, <2>1, <2>2
    <3>2. j \in 1 .. n - 1
      BY <1>1, <1>2, <2>1, <2>2
    <3>3. QED
      BY <3>1, <3>2
  <2>3. CASE j > k
    <3>1. /\ j - 1 \in 1 .. n - 1 /\ ~ (j - 1 <= k - 1)
          /\ j - k \in 1 .. n - k /\ (j - 1) - (k - 1) = j - k /\ k + (j - k) = j
      BY <1>1, <1>2, <2>1, <2>3
    <3>2. (p \o q)[j - 1] = t
      BY <1>5, <1>6, <2>1, <3>1
    <3>3. QED
      BY <3>1, <3>2
  <2>4. j # k
    BY <1>2, <1>8, <2>1
  <2>5. j \in Int /\ k \in Int
    BY <1>1, <1>2, <2>1
  <2>6. j < k \/ j > k
    BY <2>4, <2>5
  <2>7. QED
    BY <2>2, <2>3, <2>6
<1>9. QED
  BY <1>3, <1>6, <1>7, <1>8

\* What a new request has to do.
LEMMA RequestLemma ==
  ASSUME BeginRequest
  PROVE  /\ WellFormed(todo')
         /\ \/ /\ \A step \in Left' : step.op \in {"stop", "renew", "start"}
               /\ \A t \in Streams :
                    \E stop \in Left' : stop.op \in {"stop", "renew"} /\ stop.stream = t
            \/ \E s \in Streams : Left' = {Step("stop", s), Step("answer", s)}
            \/ /\ \A step \in Left' : step.op \in {"pause", "lock", "unlock", "resume"}
               /\ \A s \in Streams : Step("resume", s) \in Left'
               /\ {Step("lock", NoStream), Step("unlock", NoStream)} \subseteq Left'
<1>1. /\ Order \in Seq(Streams)
      /\ \A s \in Streams : \E i \in DOMAIN Order : Order[i] = s
  BY OrderAssumption
<1>2. ASSUME NEW s \in Streams, todo' = StartSteps(s)
      PROVE  /\ WellFormed(todo')
             /\ \A step \in Left' : step.op \in {"stop", "renew", "start"}
             /\ \A t \in Streams :
                  \E stop \in Left' : stop.op \in {"stop", "renew"} /\ stop.stream = t
  <2> DEFINE p == Each("stop", Others(s))
             q == <<Step("renew", s), Step("start", s)>>
  <2>1. /\ Others(s) \in Seq(Streams)
        /\ \A t \in Streams : t # s => \E i \in DOMAIN Others(s) : Others(s)[i] = t
    BY OthersLemma
  <2>2. WellFormed(p) /\ Of(p) = {Step("stop", Others(s)[i]) : i \in DOMAIN Others(s)}
    BY <2>1, EachLemma DEF Ops, Follows
  <2>3. WellFormed(q) /\ Of(q) = {Step("renew", s), Step("start", s)}
    <3>1. Step("renew", s) \in Steps /\ Step("start", s) \in Steps
      BY DEF Step, Steps, Ops
    <3>2. <<Step("renew", s).op, Step("start", s).op>> \in Follows
      BY DEF Step, Follows
    <3>3. Step("renew", s).stream \in Streams /\ Step("start", s).stream \in Streams
      BY DEF Step
    <3>4. QED
      BY <3>1, <3>2, <3>3, PairLemma
  <2>4. todo' = p \o q
    BY <1>2 DEF StartSteps
  <2> HIDE DEF p, q
  <2>5. \A x \in Of(p), y \in Of(q) : <<x.op, y.op>> \in Follows
    BY <2>2, <2>3 DEF Step, Follows
  <2>6. WellFormed(todo') /\ Left' = Of(p) \cup Of(q)
    BY <2>2, <2>3, <2>4, <2>5, ConcatLemma DEF Left
  <2>7. \A step \in Left' : step.op \in {"stop", "renew", "start"}
    BY <2>2, <2>3, <2>6 DEF Step
  <2>8. ASSUME NEW t \in Streams
        PROVE  \E stop \in Left' : stop.op \in {"stop", "renew"} /\ stop.stream = t
    <3>1. CASE t = s
      <4>1. Step("renew", t) \in Left'
        BY <2>3, <2>6, <3>1
      <4>2. QED
        BY <4>1 DEF Step
    <3>2. CASE t # s
      <4>1. Step("stop", t) \in Left'
        BY <2>1, <2>2, <2>6, <3>2
      <4>2. QED
        BY <4>1 DEF Step
    <3>3. QED
      BY <3>1, <3>2
  <2>9. QED
    BY <2>6, <2>7, <2>8
<1>3. ASSUME NEW s \in Streams, todo' = StopSteps(s)
      PROVE  WellFormed(todo') /\ Left' = {Step("stop", s), Step("answer", s)}
  <2>1. Step("stop", s) \in Steps /\ Step("answer", s) \in Steps
    BY DEF Step, Steps, Ops
  <2>2. <<Step("stop", s).op, Step("answer", s).op>> \in Follows
    BY DEF Step, Follows
  <2>3. Step("stop", s).stream \in Streams /\ Step("answer", s).stream \in Streams
    BY DEF Step
  <2>4. todo' = <<Step("stop", s), Step("answer", s)>>
    BY <1>3 DEF StopSteps
  <2>5. QED
    BY <2>1, <2>2, <2>3, <2>4, PairLemma DEF Left
<1>4. ASSUME todo' = CommandSteps
      PROVE  /\ WellFormed(todo')
             /\ \A step \in Left' : step.op \in {"pause", "lock", "unlock", "resume"}
             /\ \A s \in Streams : Step("resume", s) \in Left'
             /\ {Step("lock", NoStream), Step("unlock", NoStream)} \subseteq Left'
  <2> DEFINE p == Each("pause", Order)
             l == <<Step("lock", NoStream), Step("unlock", NoStream)>>
             q == Each("resume", Order)
  <2>1. WellFormed(p) /\ Of(p) = {Step("pause", Order[i]) : i \in DOMAIN Order}
    BY <1>1, EachLemma DEF Ops, Follows
  <2>2. WellFormed(q) /\ Of(q) = {Step("resume", Order[i]) : i \in DOMAIN Order}
    BY <1>1, EachLemma DEF Ops, Follows
  <2>3. WellFormed(l) /\ Of(l) = {Step("lock", NoStream), Step("unlock", NoStream)}
    <3>1. Step("lock", NoStream) \in Steps /\ Step("unlock", NoStream) \in Steps
      BY DEF Step, Steps, Ops
    <3>2. <<Step("lock", NoStream).op, Step("unlock", NoStream).op>> \in Follows
      BY DEF Step, Follows
    <3>3. Step("lock", NoStream).op = "lock" /\ Step("unlock", NoStream).op = "unlock"
      BY DEF Step
    <3>4. QED
      BY <3>1, <3>2, <3>3, PairLemma
  <2>4. todo' = (p \o l) \o q
    BY <1>4 DEF CommandSteps
  <2> HIDE DEF p, l, q
  <2>5. WellFormed(p \o l) /\ Of(p \o l) = Of(p) \cup Of(l)
    <3>1. \A x \in Of(p), y \in Of(l) : <<x.op, y.op>> \in Follows
      BY <2>1, <2>3 DEF Step, Follows
    <3>2. QED
      BY <2>1, <2>3, <3>1, ConcatLemma
  <2>6. WellFormed(todo') /\ Left' = Of(p) \cup Of(l) \cup Of(q)
    <3>1. \A x \in Of(p \o l), y \in Of(q) : <<x.op, y.op>> \in Follows
      BY <2>1, <2>2, <2>3, <2>5 DEF Step, Follows
    <3>2. QED
      BY <2>2, <2>4, <2>5, <3>1, ConcatLemma DEF Left
  <2>7. \A step \in Left' : step.op \in {"pause", "lock", "unlock", "resume"}
    BY <2>1, <2>2, <2>3, <2>6 DEF Step
  <2>8. \A s \in Streams : Step("resume", s) \in Left'
    BY <1>1, <2>2, <2>6
  <2>9. QED
    BY <2>3, <2>6, <2>7, <2>8
<1>5. QED
  BY <1>2, <1>3, <1>4 DEF BeginRequest

-----------------------------------------------------------------------------
(* The reader threads.                                                     *)

\* A reader that goes on living changes nothing else, except that it may clear
\* its stream's event or record data.
LEMMA ReaderMoves ==
  ASSUME StreamsOk, NEW r \in Readers, pc[r] # "dead",
         NEW to \in {"locking", "testing", "reading", "finally", "leaving"},
         pc' = [pc EXCEPT ![r] = to],
         crashes' = 0 => crashes = 0,
         to \in {"finally", "leaving"} /\ crashes' = 0 => joining /\ Target = kind[r],
         stopEvent' \subseteq stopEvent,
         UNCHANGED <<kind, thread, todo, joining, pausedStreams, halted, late>>
  PROVE  StreamsOk'
<1> USE DEF StreamsOk
<1>1. /\ pc' \in [Readers -> {"dead", "locking", "testing", "reading", "finally", "leaving"}]
      /\ pc'[r] = to
      /\ \A q \in Readers \ {r} : pc'[q] = pc[q]
  BY DEF ThreadTypes
<1>2. Alive' = Alive
  BY <1>1 DEF Alive
<1>3. UNCHANGED <<Running, Left, Target>>
  BY DEF Running, Left, Target
<1>4. ThreadTypes' /\ Single' /\ StoppedStaysDown'
  <2>1. ThreadTypes'
    BY <1>1 DEF ThreadTypes
  <2>2. Single'
    BY <1>2, <1>3 DEF Single
  <2>3. StoppedStaysDown'
    BY <1>2 DEF StoppedStaysDown
  <2>4. QED
    BY <2>1, <2>2, <2>3
<1>5. StoppedFirst' /\ PausedAlone' /\ ResumesAll' /\ StopAwaited'
  BY <1>2, <1>3 DEF StoppedFirst, PausedAlone, ResumesAll, StopAwaited
<1>6. EndAwaited'
  BY <1>1, <1>2, <1>3 DEF EndAwaited
<1>7. ResumesPaused'
  BY <1>3 DEF ResumesPaused
<1>8. QED
  BY <1>4, <1>5, <1>6, <1>7

\* A reader ends only when it was told to, and is waited for then, or by a crash.
LEMMA ReaderDies ==
  ASSUME RequestOk, StreamsOk, NEW r \in Readers, ReaderLeaves(r)
  PROVE  StreamsOk'
<1> USE DEF StreamsOk
<1>1. /\ pc[r] = "leaving" /\ pc' = [pc EXCEPT ![r] = "dead"]
      /\ kind' = [kind EXCEPT ![r] = NoStream]
      /\ thread' = [s \in Streams |-> IF thread[s] = r THEN NoReader ELSE thread[s]]
      /\ UNCHANGED <<stopEvent, todo, joining, pausedStreams, halted, late, crashes>>
  BY DEF ReaderLeaves, ReaderGoes, requestVars, boundVars
<1>2. Alive = {r}
  BY <1>1 DEF Single, Alive
<1>3. pc' \in [Readers -> {"dead", "locking", "testing", "reading", "finally", "leaving"}]
  BY <1>1 DEF ThreadTypes
<1>4. Alive' = {}
  BY <1>1, <1>2, <1>3 DEF Alive, ThreadTypes
<1>5. Running' = {}
  BY <1>1, <1>2 DEF Running, Single
<1>6. UNCHANGED <<Left, Target>>
  BY <1>1 DEF Left, Target
<1>7. ThreadTypes'
  BY <1>1, <1>3 DEF ThreadTypes
<1>8. /\ Single' /\ StoppedStaysDown' /\ StoppedFirst' /\ StopAwaited' /\ EndAwaited'
  BY <1>4, <1>5 DEF Single, StoppedStaysDown, StoppedFirst, StopAwaited, EndAwaited
<1>9. PausedAlone' /\ ResumesAll'
  BY <1>1, <1>5, <1>6 DEF PausedAlone, ResumesAll
<1>10. ResumesPaused'
  <2> SUFFICES ASSUME crashes = 0, NEW s \in pausedStreams
               PROVE  Step("resume", s) \in Left
    BY <1>1, <1>6 DEF ResumesPaused
  <2>1. joining /\ Target = kind[r] /\ r \in Alive
    BY <1>1, <1>2 DEF EndAwaited
  <2>2. CASE s \in Running
    <3>1. s = kind[r]
      BY <1>2, <2>2 DEF Single
    <3>2. todo # <<>> /\ Head(todo) \in Left
      BY <2>1, HeadLemma DEF RequestOk, Stopping, Doing
    <3>3. Head(todo).op = "pause"
      BY <2>1, <3>2 DEF PausedAlone, RequestOk, Stopping, Doing
    <3>4. QED
      BY <3>2, <3>3 DEF ResumesAll, ThreadTypes
  <2>3. CASE s \notin Running
    BY <2>3 DEF ResumesPaused
  <2>4. QED
    BY <2>2, <2>3
<1>11. QED
  BY <1>1, <1>7, <1>8, <1>9, <1>10

\* Every step of a reader keeps the invariant.
LEMMA ReaderIInv ==
  ASSUME RequestOk, StreamsOk, NEW r \in Readers, ReaderStep(r)
  PROVE  StreamsOk'
<1> USE DEF ReaderGoes, streamVars, requestVars, boundVars, readerVars
<1>1. crashes \in Nat
  BY DEF RequestOk
<1>2. CASE ReaderLocks(r) \/ ReaderOpens(r) \/ ReaderStops(r) \/ ReaderReconnects(r)
  <2>1. /\ pc[r] \in {"locking", "testing", "reading"}
        /\ UNCHANGED <<kind, thread, stopEvent, todo, joining, pausedStreams, halted, late,
                       crashes>>
    BY <1>2 DEF ReaderLocks, ReaderOpens, ReaderStops, ReaderReconnects
  <2>2. PICK to \in {"testing", "reading"} : pc' = [pc EXCEPT ![r] = to]
    BY <1>2 DEF ReaderLocks, ReaderOpens, ReaderStops, ReaderReconnects
  <2>3. QED
    BY <2>1, <2>2, ReaderMoves
<1>3. CASE ReaderGetsLine(r)
  <2>1. UNCHANGED <<pc, kind, thread, stopEvent, todo, joining, pausedStreams, halted, late,
                    crashes>>
    BY <1>3 DEF ReaderGetsLine
  <2>2. pc[r] = "reading" /\ pc' = [pc EXCEPT ![r] = "reading"]
    BY <1>3, <2>1 DEF ReaderGetsLine, StreamsOk, ThreadTypes
  <2>3. QED
    BY <2>1, <2>2, ReaderMoves
<1>4. CASE ReaderCrashes(r)
  <2>1. /\ pc[r] = "reading" /\ pc' = [pc EXCEPT ![r] = "finally"]
        /\ crashes' = crashes + 1
        /\ UNCHANGED <<kind, thread, stopEvent, todo, joining, pausedStreams, halted, late>>
    BY <1>4 DEF ReaderCrashes
  <2>2. crashes' # 0
    BY <1>1, <2>1
  <2>3. QED
    BY <2>1, <2>2, ReaderMoves
<1>5. CASE ReaderEnds(r)
  <2>1. /\ pc[r] = "testing" /\ pc' = [pc EXCEPT ![r] = "finally"] /\ kind[r] \in stopEvent
        /\ UNCHANGED <<kind, thread, stopEvent, todo, joining, pausedStreams, halted, late,
                       crashes>>
    BY <1>5 DEF ReaderEnds, ToldToStop
  <2>2. joining /\ Target = kind[r]
    BY <2>1 DEF StreamsOk, StopAwaited, Alive
  <2>3. QED
    BY <2>1, <2>2, ReaderMoves
<1>6. CASE ReaderClears(r)
  <2>1. /\ pc[r] = "finally" /\ pc' = [pc EXCEPT ![r] = "leaving"]
        /\ stopEvent' \subseteq stopEvent
        /\ UNCHANGED <<kind, thread, todo, joining, pausedStreams, halted, late, crashes>>
    BY <1>6 DEF ReaderClears
  <2>2. crashes = 0 => joining /\ Target = kind[r]
    BY <2>1 DEF StreamsOk, EndAwaited, Alive
  <2>3. QED
    BY <2>1, <2>2, ReaderMoves
<1>7. CASE ReaderLeaves(r)
  BY <1>7, ReaderDies
<1>8. QED
  BY <1>2, <1>3, <1>4, <1>5, <1>6, <1>7 DEF ReaderStep

-----------------------------------------------------------------------------
(* The requests.                                                           *)

\* A step of a request that is done, without a reader started, keeps the
\* invariant: what it was to stop does not run, what it was to resume need not be.
LEMMA StepDone ==
  ASSUME RequestOk, StreamsOk, todo # <<>>, NextStep,
         joining => thread[Target] = NoReader,
         Stopping => thread[Target] = NoReader,
         Doing("resume") => ~Resumes(Target),
         halted' = halted \/ (Doing("answer") /\ halted' = halted \cup {Target}),
         UNCHANGED <<pc, kind, thread, stopEvent, pausedStreams, crashes, late>>
  PROVE  StreamsOk'
<1> USE DEF StreamsOk, NextStep
<1>1. /\ WellFormed(todo')
      /\ Head(todo) \in Left /\ Head(todo) \in Steps
      /\ Left' \subseteq Left /\ Left \subseteq Left' \cup {Head(todo)}
      /\ \A step \in Left' : <<Head(todo).op, step.op>> \in Follows
  BY TailLemma DEF RequestOk
<1>2. Head(todo) = Step(Head(todo).op, Target)
  BY <1>1 DEF Steps, Step, Target
<1>3. UNCHANGED <<Alive, Running>>
  BY DEF Alive, Running
<1>4. \A r \in Alive : r # NoReader /\ thread[kind[r]] = r
  BY DEF Alive, Readers, NoReader, Single
<1>5. ThreadTypes' /\ Single' /\ ResumesAll'
  <2>1. ThreadTypes' /\ Single'
    BY <1>3 DEF ThreadTypes, Single
  <2>2. ASSUME NEW step \in Left', step.op = "pause", NEW s \in Streams
        PROVE  Step("resume", s) \in Left'
    <3>1. Step("resume", s) \in Left
      BY <1>1, <2>2 DEF ResumesAll
    <3>2. Head(todo).op # "resume"
      BY <1>1, <2>2 DEF Follows
    <3>3. QED
      BY <1>1, <3>1, <3>2 DEF Step
  <2>3. QED
    BY <2>1, <2>2 DEF ResumesAll
<1>6. StopAwaited' /\ EndAwaited'
  BY <1>3, <1>4 DEF StopAwaited, EndAwaited
<1>7. StoppedFirst'
  <2> SUFFICES ASSUME NEW s \in Running, NEW step \in Left',
                      step.op = "start" \/ step = Step("answer", s)
               PROVE  \E stop \in Left' : stop.op \in {"stop", "renew"} /\ stop.stream = s
    BY <1>3 DEF StoppedFirst
  <2>1. PICK stop \in Left : stop.op \in {"stop", "renew"} /\ stop.stream = s
    BY <1>1 DEF StoppedFirst
  <2>2. stop # Head(todo)
    BY <2>1 DEF Stopping, Doing, Target, Running
  <2>3. QED
    BY <1>1, <2>1, <2>2
<1>8. ASSUME Doing("answer")
      PROVE  Target \notin Running /\ pausedStreams = {}
  <2>1. Head(todo) = Step("answer", Target) /\ Head(todo).op = "answer"
    BY <1>2, <1>8 DEF Doing
  <2>2. ASSUME Target \in Running PROVE FALSE
    <3>1. PICK stop \in Left : stop.op \in {"stop", "renew"}
      BY <1>1, <2>1, <2>2 DEF StoppedFirst
    <3>2. stop \in Left'
      BY <1>1, <2>1, <3>1
    <3>3. <<"answer", stop.op>> \in Follows
      BY <1>1, <2>1, <3>2
    <3>4. QED
      BY <3>1, <3>3 DEF Follows
  <2>3. pausedStreams = {}
    BY <1>1, <2>1 DEF PausedAlone
  <2>4. QED
    BY <2>2, <2>3
<1>9. StoppedStaysDown'
  <2> SUFFICES ASSUME NEW r \in Alive PROVE kind[r] \notin halted'
    BY <1>3 DEF StoppedStaysDown
  <2>1. kind[r] \in Running /\ kind[r] \notin halted
    BY <1>4 DEF Running, Single, StoppedStaysDown
  <2>2. QED
    BY <1>8, <2>1
<1>10. PausedAlone'
  BY <1>1, <1>3, <1>8 DEF PausedAlone
<1>11. ResumesPaused'
  <2> SUFFICES ASSUME crashes = 0, NEW s \in pausedStreams, s \notin Running
               PROVE  Step("resume", s) \in Left'
    BY <1>3 DEF ResumesPaused
  <2>1. Step("resume", s) \in Left
    BY DEF ResumesPaused
  <2>2. ASSUME Step("resume", s) = Head(todo) PROVE FALSE
    <3>1. Doing("resume") /\ Target = s
      BY <2>2 DEF Step, Doing, Target
    <3>2. thread[s] = NoReader
      BY DEF Running, ThreadTypes
    <3>3. QED
      BY <3>1, <3>2 DEF Resumes
  <2>3. QED
    BY <1>1, <2>1, <2>2
<1>12. QED
  BY <1>5, <1>6, <1>7, <1>9, <1>10, <1>11

\* Telling the one reader to stop keeps the invariant: the request waits for it.
LEMMA StopSet ==
  ASSUME RequestOk, StreamsOk, SetStop
  PROVE  StreamsOk'
<1> USE DEF StreamsOk
<1>1. /\ Stopping /\ ~joining /\ thread[Target] # NoReader
      /\ stopEvent' = stopEvent \cup {Target}
      /\ joining' = TRUE
      /\ pausedStreams' = IF Doing("pause") THEN pausedStreams \cup {Target} ELSE pausedStreams
      /\ UNCHANGED <<pc, kind, thread, halted, todo, late, crashes>>
  BY DEF SetStop, readerVars, boundVars
<1>2. /\ todo # <<>> /\ Head(todo) \in Left /\ Target \in Streams
      /\ Head(todo).op \in {"stop", "renew", "pause"}
  <2>1. todo # <<>> /\ Head(todo).op \in {"stop", "renew", "pause"}
    BY <1>1 DEF Stopping, Doing
  <2>2. Head(todo) \in Left
    BY <2>1, HeadLemma DEF RequestOk
  <2>3. Target \in Streams
    BY <2>1, <2>2 DEF RequestOk, WellFormed, Addressed, Left, Target
  <2>4. QED
    BY <2>1, <2>2, <2>3
<1>3. UNCHANGED <<Alive, Running, Left, Target>>
  BY <1>1 DEF Alive, Running, Left, Target
<1>4. Target \in Running /\ \A r \in Alive : kind[r] = Target
  BY <1>1, <1>2 DEF Running, Single
<1>5. ThreadTypes' /\ Single'
  BY <1>1, <1>2, <1>3 DEF ThreadTypes, Single
<1>6. StoppedStaysDown'
  BY <1>1, <1>3 DEF StoppedStaysDown
<1>7. StoppedFirst' /\ ResumesAll'
  BY <1>3 DEF StoppedFirst, ResumesAll
<1>8. StopAwaited' /\ EndAwaited'
  BY <1>1, <1>3, <1>4 DEF StopAwaited, EndAwaited
<1>9. Running = {Target}
  BY <1>4 DEF Single
<1>10. PausedAlone'
  <2>1. CASE Doing("pause")
    <3>1. \A s, t \in pausedStreams' : s = t
      BY <1>1, <1>9, <2>1 DEF PausedAlone
    <3>2. Running' \subseteq pausedStreams'
      BY <1>1, <1>3, <1>9, <2>1
    <3>3. pausedStreams' \cap halted' = {}
      <4>1. Target \notin halted
        BY <1>4, <1>2 DEF StoppedStaysDown, Single
      <4>2. QED
        BY <1>1, <4>1 DEF PausedAlone
    <3>4. \A step \in Left' : step.op \in {"pause", "lock", "unlock", "resume"}
      <4>1. \A step \in Left : step = Head(todo) \/ <<Head(todo).op, step.op>> \in Follows
        BY <1>2, HeadLemma DEF RequestOk
      <4>2. QED
        BY <1>3, <2>1, <4>1 DEF Doing, Follows
    <3>5. QED
      BY <3>1, <3>2, <3>3, <3>4 DEF PausedAlone
  <2>2. CASE ~Doing("pause")
    BY <1>1, <1>3, <2>2 DEF PausedAlone
  <2>3. QED
    BY <2>1, <2>2
<1>11. ResumesPaused'
  BY <1>1, <1>3, <1>4 DEF ResumesPaused
<1>12. QED
  BY <1>1, <1>5, <1>6, <1>7, <1>8, <1>10, <1>11

\* Starting a stream keeps the invariant: no reader is alive then, and the new
\* one starts with a cleared event.
LEMMA StreamStarted ==
  ASSUME RequestOk, StreamsOk, StartStream
  PROVE  StreamsOk'
<1> USE DEF StreamsOk, NextStep
<1> DEFINE s == Target
<1>1. /\ Doing("start") \/ (Doing("resume") /\ Resumes(s))
      /\ thread' = [thread EXCEPT ![s] = NewReader]
      /\ pc' = [pc EXCEPT ![NewReader] = "locking"]
      /\ kind' = [kind EXCEPT ![NewReader] = s]
      /\ stopEvent' = stopEvent \ {s}
      /\ halted' = IF Doing("start") THEN halted \ {s} ELSE halted
      /\ todo' = Tail(todo) /\ joining' = FALSE
      /\ UNCHANGED <<pausedStreams, late, crashes>>
  BY DEF StartStream, EventCleared, boundVars
<1>2. todo # <<>> /\ WellFormed(todo) /\ Head(todo).op \in {"start", "resume"}
  BY <1>1 DEF RequestOk, Doing
<1>3. /\ Head(todo) \in Left /\ Head(todo) \in Steps
      /\ Left' \subseteq Left /\ Left \subseteq Left' \cup {Head(todo)}
      /\ \A step \in Left' : <<Head(todo).op, step.op>> \in Follows
  BY <1>1, <1>2, TailLemma
<1>4. s \in Streams
  BY <1>2, <1>3 DEF RequestOk, WellFormed, Addressed, Left, Target
<1> HIDE DEF s
<1>5. Running = {}
  <2>1. CASE Doing("start")
    <3>1. Head(todo).op = "start"
      BY <2>1 DEF Doing
    <3>2. ASSUME NEW t \in Running PROVE FALSE
      <4>1. PICK stop \in Left : stop.op \in {"stop", "renew"}
        BY <1>3, <3>1, <3>2 DEF StoppedFirst
      <4>2. stop \in Left'
        BY <1>3, <3>1, <4>1
      <4>3. <<"start", stop.op>> \in Follows
        BY <1>3, <3>1, <4>2
      <4>4. QED
        BY <4>1, <4>3 DEF Follows
    <3>3. QED
      BY <3>2
  <2>2. CASE Doing("resume") /\ Resumes(s)
    BY <2>2 DEF Resumes, PausedAlone, Running
  <2>3. QED
    BY <1>1, <2>1, <2>2
<1>6. Alive = {}
  BY <1>5 DEF Single, Running, Alive, Readers, NoReader
<1>7. NewReader \in Readers /\ NewReader # NoReader
  <2>1. 1 \in Readers
    BY ReadersAssumption DEF Readers
  <2>2. \E r \in Readers : r \notin Alive
    BY <1>6, <2>1
  <2>3. NewReader \in Readers \ Alive
    BY <2>2 DEF NewReader
  <2>4. QED
    BY <2>3 DEF Readers, NoReader
<1> DEFINE n == NewReader
<1> HIDE DEF n
<1>8. ThreadTypes'
  BY <1>1, <1>4, <1>7 DEF ThreadTypes
<1>9. Alive' = {n} /\ Running' = {s} /\ kind'[n] = s /\ thread'[s] = n /\ pc'[n] = "locking"
  <2>1. /\ \A r \in Readers : pc'[r] = IF r = n THEN "locking" ELSE "dead"
        /\ \A t \in Streams : thread'[t] = IF t = s THEN n ELSE NoReader
    BY <1>1, <1>5, <1>6, <1>7, <1>8 DEF ThreadTypes, Alive, Running, n
  <2>2. Alive' = {n} /\ Running' = {s} /\ pc'[n] = "locking"
    BY <1>4, <1>7, <2>1 DEF Alive, Running, n
  <2>3. kind'[n] = s /\ thread'[s] = n
    BY <1>1, <1>4, <1>7, <2>1 DEF ThreadTypes, n
  <2>4. QED
    BY <2>2, <2>3
<1>10. Single'
  BY <1>4, <1>9 DEF Single
<1>11. s \notin halted'
  <2>1. CASE Doing("start")
    BY <1>1, <2>1
  <2>2. CASE ~Doing("start")
    <3>1. s \in pausedStreams
      BY <1>1, <2>2 DEF Resumes
    <3>2. QED
      BY <1>1, <2>2, <3>1 DEF PausedAlone
  <2>3. QED
    BY <2>1, <2>2
<1>12. StoppedStaysDown' /\ StopAwaited' /\ EndAwaited'
  BY <1>1, <1>9, <1>11 DEF StoppedStaysDown, StopAwaited, EndAwaited
<1>13. \A step \in Left' : step.op \notin {"start", "answer", "pause"}
  BY <1>2, <1>3 DEF Follows
<1>14. StoppedFirst' /\ ResumesAll'
  BY <1>13 DEF StoppedFirst, ResumesAll, Step
<1>15. PausedAlone'
  <2>1. pausedStreams # {} => Head(todo).op = "resume" /\ s \in pausedStreams
    BY <1>1, <1>2, <1>3 DEF PausedAlone, Doing, Resumes
  <2>2. QED
    BY <1>1, <1>3, <1>9, <2>1 DEF PausedAlone
<1>16. ResumesPaused'
  <2> SUFFICES ASSUME crashes = 0, NEW t \in pausedStreams
               PROVE  t \in Running' \/ Step("resume", t) \in Left'
    BY <1>1 DEF ResumesPaused
  <2>1. pausedStreams # {} => Head(todo).op = "resume" /\ s \in pausedStreams
    BY <1>1, <1>2, <1>3 DEF PausedAlone, Doing, Resumes
  <2>2. t = s
    BY <2>1 DEF PausedAlone
  <2>3. QED
    BY <1>9, <2>2
<1>17. QED
  BY <1>1, <1>8, <1>10, <1>12, <1>14, <1>15, <1>16

\* A new request starts with nothing paused, and no reader told to stop.
LEMMA RequestBegun ==
  ASSUME RequestOk, StreamsOk, BeginRequest
  PROVE  StreamsOk'
<1> USE DEF StreamsOk
<1>1. /\ todo = <<>> /\ pausedStreams' = {}
      /\ UNCHANGED <<pc, kind, thread, stopEvent, halted, joining, late, crashes>>
  BY DEF BeginRequest, readerVars, streamVars, boundVars
<1>2. ~joining /\ UNCHANGED <<Alive, Running>>
  BY <1>1 DEF RequestOk, Stopping, Doing, Alive, Running
<1>3. ThreadTypes' /\ Single' /\ StoppedStaysDown'
  BY <1>1, <1>2 DEF ThreadTypes, Single, StoppedStaysDown
<1>4. StopAwaited' /\ EndAwaited'
  BY <1>1, <1>2 DEF StopAwaited, EndAwaited
<1>5. PausedAlone' /\ ResumesPaused'
  BY <1>1 DEF PausedAlone, ResumesPaused
<1>6. StoppedFirst'
  <2> SUFFICES ASSUME NEW s \in Running, NEW step \in Left',
                      step.op = "start" \/ step = Step("answer", s)
               PROVE  \E stop \in Left' : stop.op \in {"stop", "renew"} /\ stop.stream = s
    BY <1>2 DEF StoppedFirst
  <2>1. s \in Streams /\ step.op \in {"start", "answer"}
    BY DEF Running, Step
  <2>2. CASE \A t \in Streams : \E stop \in Left' : stop.op \in {"stop", "renew"} /\ stop.stream = t
    BY <2>1, <2>2
  <2>3. CASE \E t \in Streams : Left' = {Step("stop", t), Step("answer", t)}
    <3>1. PICK t \in Streams : Left' = {Step("stop", t), Step("answer", t)}
      BY <2>3
    <3>2. step = Step("answer", s) /\ t = s
      BY <3>1 DEF Step
    <3>3. Step("stop", s) \in Left' /\ Step("stop", s).op = "stop" /\ Step("stop", s).stream = s
      BY <3>1, <3>2 DEF Step
    <3>4. QED
      BY <3>3
  <2>4. CASE \A other \in Left' : other.op \in {"pause", "lock", "unlock", "resume"}
    BY <2>1, <2>4
  <2>5. QED
    BY <2>2, <2>3, <2>4, RequestLemma
<1>7. ResumesAll'
  <2> SUFFICES ASSUME NEW step \in Left', step.op = "pause", NEW s \in Streams
               PROVE  Step("resume", s) \in Left'
    BY DEF ResumesAll
  <2>1. ~(\A other \in Left' : other.op \in {"stop", "renew", "start"})
    OBVIOUS
  <2>2. ~(\E t \in Streams : Left' = {Step("stop", t), Step("answer", t)})
    BY DEF Step
  <2>3. QED
    BY <2>1, <2>2, RequestLemma
<1>8. QED
  BY <1>1, <1>3, <1>4, <1>5, <1>6, <1>7

\* So does answering a start at once.
LEMMA StreamKept ==
  ASSUME RequestOk, StreamsOk, KeepStream
  PROVE  StreamsOk'
<1> USE DEF StreamsOk
<1>1. /\ todo # <<>> /\ todo' = <<>> /\ ~joining /\ Head(todo).op = "renew"
      /\ UNCHANGED <<pc, kind, thread, stopEvent, halted, joining, pausedStreams, late, crashes>>
  BY DEF KeepStream, Doing, readerVars, streamVars, boundVars
<1>2. Left' = {} /\ UNCHANGED <<Alive, Running>>
  BY <1>1 DEF Left, Of, Alive, Running
<1>3. pausedStreams = {}
  <2>1. Head(todo) \in Left
    BY <1>1, HeadLemma DEF RequestOk
  <2>2. QED
    BY <1>1, <2>1 DEF PausedAlone
<1>4. ThreadTypes' /\ Single' /\ StoppedStaysDown'
  BY <1>1, <1>2 DEF ThreadTypes, Single, StoppedStaysDown
<1>5. StopAwaited' /\ EndAwaited'
  BY <1>1, <1>2 DEF StopAwaited, EndAwaited
<1>6. StoppedFirst' /\ ResumesAll' /\ PausedAlone' /\ ResumesPaused'
  BY <1>1, <1>2, <1>3 DEF StoppedFirst, ResumesAll, PausedAlone, ResumesPaused
<1>7. QED
  BY <1>1, <1>4, <1>5, <1>6

\* Steps that touch neither a reader nor a stream nor the request.
LEMMA StreamsKept ==
  ASSUME StreamsOk,
         UNCHANGED <<pc, kind, thread, stopEvent, halted, todo, joining, pausedStreams, late,
                     crashes>>
  PROVE  StreamsOk'
<1>1. UNCHANGED <<Alive, Running, Left, Target>>
  BY DEF Alive, Running, Left, Target
<1>2. ThreadTypes' /\ Single' /\ StoppedStaysDown' /\ StopAwaited' /\ EndAwaited'
  BY <1>1 DEF StreamsOk, ThreadTypes, Single, StoppedStaysDown, StopAwaited, EndAwaited
<1>3. StoppedFirst' /\ PausedAlone' /\ ResumesAll' /\ ResumesPaused'
  BY <1>1 DEF StreamsOk, StoppedFirst, PausedAlone, ResumesAll, ResumesPaused
<1>4. QED
  BY <1>2, <1>3 DEF StreamsOk

\* Every step of a request keeps the invariant, unless it stops waiting for a reader.
LEMMA RequestStepOk ==
  ASSUME RequestOk, StreamsOk, RequestStep, ~late'
  PROVE  StreamsOk'
<1> USE DEF readerVars, streamVars, boundVars
<1>1. RequestOk /\ (joining => Stopping)
  BY DEF RequestOk
<1>2. CASE NothingToStop
  <2>1. /\ todo # <<>> /\ Stopping /\ ~Doing("resume") /\ NextStep /\ ~joining
        /\ thread[Target] = NoReader
        /\ halted' = halted
        /\ UNCHANGED <<pc, kind, thread, stopEvent, pausedStreams, crashes, late>>
    BY <1>2 DEF NothingToStop, Stopping, Doing
  <2>2. QED
    BY <2>1, StepDone
<1>3. CASE ReaderJoined
  <2>1. /\ todo # <<>> /\ Stopping /\ ~Doing("resume") /\ NextStep
        /\ thread[Target] = NoReader
        /\ halted' = halted
        /\ UNCHANGED <<pc, kind, thread, stopEvent, pausedStreams, crashes, late>>
    BY <1>1, <1>3 DEF ReaderJoined, Joined, Stopping, Doing
  <2>2. QED
    BY <2>1, StepDone
<1>4. CASE AnswerStop
  <2>1. /\ todo # <<>> /\ ~Stopping /\ ~joining /\ ~Doing("resume") /\ NextStep
        /\ Doing("answer") /\ halted' = halted \cup {Target}
        /\ UNCHANGED <<pc, kind, thread, stopEvent, pausedStreams, crashes, late>>
    BY <1>1, <1>4 DEF AnswerStop, Stopping, Doing
  <2>2. QED
    BY <2>1, StepDone
<1>5. CASE NothingToResume \/ SessionLocks \/ SessionUnlocks
  <2>1. /\ todo # <<>> /\ ~Stopping /\ ~joining /\ NextStep
        /\ Doing("resume") => ~Resumes(Target)
        /\ halted' = halted
        /\ UNCHANGED <<pc, kind, thread, stopEvent, pausedStreams, crashes, late>>
    BY <1>1, <1>5 DEF NothingToResume, SessionLocks, SessionUnlocks, Stopping, Doing
  <2>2. QED
    BY <2>1, StepDone
<1>6. CASE JoinTimesOut
  BY <1>6 DEF JoinTimesOut
<1>7. QED
  BY <1>2, <1>3, <1>4, <1>5, <1>6, StopSet, StreamStarted, StreamKept DEF RequestStep

\* What a request has left to do stays in order, however late its readers are.
LEMMA RequestOkKept ==
  ASSUME RequestOk, [AlmemoNext]_almemoVars
  PROVE  RequestOk'
<1> USE DEF RequestOk, readerVars, streamVars, requestVars, boundVars
<1>1. CASE /\ UNCHANGED <<todo, joining, late>>
           /\ crashes' \in {crashes, crashes + 1}
  BY <1>1 DEF Stopping, Doing
<1>2. CASE /\ todo # <<>> /\ NextStep
           /\ late' \in {late, TRUE} /\ UNCHANGED crashes
  BY <1>2, TailLemma DEF NextStep
<1>3. CASE BeginRequest
  <2>1. WellFormed(todo') /\ joining' = FALSE /\ UNCHANGED <<late, crashes>>
    BY <1>3, RequestLemma DEF BeginRequest, Stopping, Doing
  <2>2. QED
    BY <2>1
<1>4. CASE SetStop
  BY <1>4 DEF SetStop, Stopping, Doing
<1>5. CASE KeepStream
  <2>1. todo' = <<>> /\ joining' = FALSE /\ UNCHANGED <<late, crashes>>
    BY <1>5 DEF KeepStream
  <2>2. WellFormed(<<>>)
    BY EmptySeq DEF WellFormed, Ordered, Addressed, Of
  <2>3. QED
    BY <2>1, <2>2
<1>6. ASSUME NEW r \in Readers, ReaderStep(r)
      PROVE  /\ UNCHANGED <<todo, joining, late>>
             /\ crashes' \in {crashes, crashes + 1}
  BY <1>6 DEF ReaderStep, ReaderLocks, ReaderOpens, ReaderGetsLine, ReaderStops,
              ReaderReconnects, ReaderCrashes, ReaderEnds, ReaderClears, ReaderLeaves
<1>7. CASE ProbeLocks \/ ProbeUnlocks \/ UNCHANGED almemoVars
  BY <1>1, <1>7 DEF ProbeLocks, ProbeUnlocks, almemoVars
<1>8. CASE RequestStep
  <2>1. \/ SetStop \/ KeepStream
        \/ /\ todo # <<>> /\ NextStep
           /\ late' \in {late, TRUE} /\ UNCHANGED crashes
    BY <1>8 DEF RequestStep, NothingToStop, ReaderJoined, JoinTimesOut, AnswerStop, StartStream,
                NothingToResume, SessionLocks, SessionUnlocks, Stopping, Doing
  <2>2. QED
    BY <1>2, <1>4, <1>5, <2>1
<1>9. QED
  BY <1>1, <1>3, <1>6, <1>7, <1>8 DEF AlmemoNext

-----------------------------------------------------------------------------
(* The invariant is inductive.                                             *)

\* No reader runs at first, and nothing is asked for.
LEMMA AlmemoInitIInv == AlmemoInit => AlmemoIInv
<1> SUFFICES ASSUME AlmemoInit PROVE AlmemoIInv
  OBVIOUS
<1> USE DEF AlmemoInit
<1>1. WellFormed(todo) /\ Left = {}
  BY EmptySeq DEF WellFormed, Ordered, Addressed, Of, Left
<1>2. RequestOk
  BY <1>1 DEF RequestOk
<1>3. Alive = {} /\ Running = {}
  BY DEF Alive, Running
<1>4. ThreadTypes
  BY DEF ThreadTypes, NoReader
<1>5. StreamsOk
  BY <1>1, <1>3, <1>4 DEF StreamsOk, Single, StoppedStaysDown, StoppedFirst, PausedAlone,
     StopAwaited, EndAwaited, ResumesAll, ResumesPaused
<1>6. QED
  BY <1>2, <1>5 DEF AlmemoIInv

\* Every step keeps the invariant.
LEMMA AlmemoStepIInv == AlmemoIInv /\ [AlmemoNext]_almemoVars => AlmemoIInv'
<1> SUFFICES ASSUME AlmemoIInv, [AlmemoNext]_almemoVars PROVE AlmemoIInv'
  OBVIOUS
<1>1. RequestOk /\ RequestOk' /\ late \in BOOLEAN
  BY RequestOkKept DEF AlmemoIInv, RequestOk
<1>2. late => late'
  BY DEF AlmemoNext, ReaderStep, ReaderLocks, ReaderOpens, ReaderGetsLine, ReaderStops,
         ReaderReconnects, ReaderCrashes, ReaderEnds, ReaderClears, ReaderLeaves,
         BeginRequest, RequestStep, NothingToStop, KeepStream, SetStop, ReaderJoined,
         JoinTimesOut, AnswerStop, StartStream, NothingToResume, SessionLocks,
         SessionUnlocks, ProbeLocks, ProbeUnlocks, almemoVars, requestVars
<1>3. ASSUME StreamsOk, ~late' PROVE StreamsOk'
  <2>1. CASE ProbeLocks \/ ProbeUnlocks \/ UNCHANGED almemoVars
    BY <1>3, <2>1, StreamsKept
       DEF ProbeLocks, ProbeUnlocks, almemoVars, readerVars, streamVars, requestVars, boundVars
  <2>2. QED
    BY <1>1, <1>3, <2>1, ReaderIInv, RequestBegun, RequestStepOk DEF AlmemoNext
<1>4. QED
  BY <1>1, <1>2, <1>3 DEF AlmemoIInv

\* The invariant holds in every state.
LEMMA AlmemoInvariant == AlmemoSpec => []AlmemoIInv
  BY AlmemoInitIInv, AlmemoStepIInv, PTL DEF AlmemoSpec

-----------------------------------------------------------------------------
(* Types and the port, whether readers end in time or not.                 *)

\* Every start a request has left comes among its last steps, so that a request
\* never starts more threads than there are streams.
StartsLast(steps) ==
  \A i \in DOMAIN steps :
    steps[i].op \in {"start", "resume"} => Len(steps) - i < Len(Order)

\* As many threads may still be started.
Reserve == IF Len(todo) <= Len(Order) THEN Len(todo) ELSE Len(Order)

\* MaxReaders is enough for those that live and those that may be started.
Room ==
  /\ requests \in 0 .. MaxRequests
  /\ StartsLast(todo)
  /\ Cardinality(Alive) + Reserve <= requests * Len(Order)

HasOp(op) == \E step \in Left : step.op = op

\* The port is held between the two steps of the request that take it and give
\* it back, or by a reader that lives.
PortHeld ==
  /\ HasOp("lock") => HasOp("unlock")
  /\ owner = Session <=> HasOp("unlock") /\ ~HasOp("lock")
  /\ \A r \in Readers : owner = r => r \in Alive

PortTypes ==
  /\ pc \in [Readers -> {"dead", "locking", "testing", "reading", "finally", "leaving"}]
  /\ kind \in [Readers -> Streams \cup {NoStream}]
  /\ \A r \in Readers : r \in Alive <=> kind[r] # NoStream
  /\ thread \in [Streams -> Readers \cup {NoReader}]
  /\ \A s \in Streams : thread[s] # NoReader => kind[thread[s]] = s
  /\ stopEvent \subseteq Streams /\ seen \subseteq Streams
  /\ pausedStreams \subseteq Streams /\ halted \subseteq Streams
  /\ owner \in {Free, Session, Probe} \cup Readers
  /\ \A r \in Alive : pc[r] # "locking" <=> owner = r

PortIInv == RequestOk /\ PortTypes /\ PortHeld /\ Room

LEMMA OrderLength == Len(Order) \in Nat /\ (Streams # {} => Len(Order) > 0)
  BY OrderAssumption, LenProperties

LEMMA ReaderNumbers ==
  /\ IsFiniteSet(Readers) /\ Cardinality(Readers) = MaxReaders
  /\ Free \notin Readers /\ Session \notin Readers /\ Probe \notin Readers
  /\ NoReader \notin Readers
<1>1. MaxReaders \in Nat \ {0}
  BY ReadersAssumption
<1>2. IsFiniteSet(1 .. MaxReaders) /\ Cardinality(1 .. MaxReaders) = MaxReaders
  BY <1>1, FS_Interval
<1>3. QED
  BY <1>1, <1>2 DEF Readers, Free, Session, Probe, NoReader

LEMMA AliveFinite == IsFiniteSet(Alive) /\ Cardinality(Alive) \in Nat /\ Alive \subseteq Readers
<1>1. Alive \subseteq Readers
  BY DEF Alive
<1>2. IsFiniteSet(Alive)
  BY <1>1, ReaderNumbers, FS_Subset
<1>3. QED
  BY <1>1, <1>2, FS_CardinalityType

\* A request that starts a thread finds a number for it.
LEMMA NumberFree ==
  ASSUME PortIInv, todo # <<>>, Head(todo).op \in {"start", "resume"}
  PROVE  Alive # Readers
<1>1. todo \in Seq(Steps) /\ Len(todo) \in Nat \ {0} /\ Head(todo) = todo[1]
      /\ DOMAIN todo = 1 .. Len(todo)
  BY HeadTailProperties, LenProperties, EmptySeq DEF PortIInv, RequestOk, WellFormed
<1>2. Len(todo) - 1 < Len(Order)
  BY <1>1 DEF PortIInv, Room, StartsLast
<1>3. Reserve > 0
  BY <1>1, <1>2, OrderLength DEF Reserve
<1>4. requests * Len(Order) <= MaxRequests * Len(Order)
  <2>1. requests \in Nat /\ MaxRequests \in Nat /\ requests <= MaxRequests
    BY BoundsAssumption DEF PortIInv, Room
  <2>2. (MaxRequests - requests) * Len(Order) >= 0
    BY <2>1, OrderLength
  <2>3. QED
    BY <2>1, <2>2, OrderLength
<1>5. requests * Len(Order) \in Int /\ MaxRequests * Len(Order) \in Int /\ Reserve \in Nat
  BY <1>1, BoundsAssumption, OrderLength DEF PortIInv, Room, Reserve
<1>6. Cardinality(Alive) + Reserve <= requests * Len(Order)
  BY DEF PortIInv, Room
<1>7. Cardinality(Alive) < MaxReaders
  BY <1>3, <1>4, <1>5, <1>6, ReadersAssumption, AliveFinite
<1>8. QED
  BY <1>7, ReaderNumbers, AliveFinite

\* Doing a step of a request does not start more than was to be started.
LEMMA TailRoom ==
  ASSUME WellFormed(todo), todo # <<>>, StartsLast(todo), todo' = Tail(todo)
  PROVE  /\ StartsLast(todo')
         /\ Reserve \in Nat /\ Reserve' \in Nat /\ Reserve' <= Reserve
         /\ Head(todo).op \in {"start", "resume"} => Reserve' < Reserve
<1>1. /\ Head(todo) = todo[1]
      /\ todo \in Seq(Steps) /\ todo' \in Seq(Steps)
      /\ Len(todo') = Len(todo) - 1
      /\ \A i \in 1 .. Len(todo') : todo'[i] = todo[i + 1]
  BY HeadTailProperties DEF WellFormed
<1>2. /\ DOMAIN todo = 1 .. Len(todo) /\ DOMAIN todo' = 1 .. Len(todo')
      /\ Len(todo) \in Nat \ {0}
  BY <1>1, LenProperties, EmptySeq
<1>3. StartsLast(todo')
  <2> SUFFICES ASSUME NEW i \in DOMAIN todo', todo'[i].op \in {"start", "resume"}
               PROVE  Len(todo') - i < Len(Order)
    BY DEF StartsLast
  <2>1. i + 1 \in DOMAIN todo /\ todo[i + 1].op \in {"start", "resume"}
    BY <1>1, <1>2
  <2>2. Len(todo) - (i + 1) < Len(Order)
    BY <2>1 DEF StartsLast
  <2>3. QED
    BY <1>1, <1>2, <2>2, OrderLength
<1>4. Head(todo).op \in {"start", "resume"} => Len(todo) - 1 < Len(Order)
  BY <1>1, <1>2 DEF StartsLast
<1>5. QED
  BY <1>1, <1>2, <1>3, <1>4, OrderLength DEF Reserve

\* What precedes the last steps of a request starts nothing.
LEMMA StartsLastConcat ==
  ASSUME NEW p \in Seq(Steps), NEW q \in Seq(Steps), Len(q) <= Len(Order),
         \A i \in DOMAIN p : p[i].op \notin {"start", "resume"}
  PROVE  StartsLast(p \o q)
<1> DEFINE r == p \o q
<1>1. /\ r \in Seq(Steps)
      /\ Len(r) = Len(p) + Len(q)
      /\ \A i \in 1 .. Len(p) + Len(q) : r[i] = IF i <= Len(p) THEN p[i] ELSE q[i - Len(p)]
  BY ConcatProperties
<1> HIDE DEF r
<1>2. /\ DOMAIN p = 1 .. Len(p) /\ DOMAIN r = 1 .. Len(r)
      /\ Len(p) \in Nat /\ Len(q) \in Nat
  BY <1>1, LenProperties
<1>3. ASSUME NEW i \in DOMAIN r, r[i].op \in {"start", "resume"}
      PROVE  Len(r) - i < Len(Order)
  <2>1. i > Len(p)
    BY <1>1, <1>2, <1>3
  <2>2. QED
    BY <1>1, <1>2, <2>1, OrderLength
<1>4. StartsLast(r)
  BY <1>3 DEF StartsLast
<1>5. QED
  BY <1>4 DEF r

LEMMA EachSeq ==
  ASSUME NEW op \in Ops, NEW streams \in Seq(Streams)
  PROVE  /\ Each(op, streams) \in Seq(Steps)
         /\ Len(Each(op, streams)) = Len(streams)
         /\ \A i \in DOMAIN Each(op, streams) : Each(op, streams)[i].op = op
<1>1. DOMAIN streams = 1 .. Len(streams) /\ Len(streams) \in Nat
  BY LenProperties
<1>2. \A i \in 1 .. Len(streams) : streams[i] \in Streams
  BY ElementOfSeq
<1>3. Each(op, streams) = [i \in 1 .. Len(streams) |-> Step(op, streams[i])]
  BY <1>1 DEF Each
<1>4. \A i \in 1 .. Len(streams) : Step(op, streams[i]) \in Steps
  BY <1>2 DEF Step, Steps
<1>5. QED
  BY <1>1, <1>3, <1>4 DEF Step

\* Every request has its starts at the end.
LEMMA RequestStartsLast ==
  ASSUME BeginRequest
  PROVE  StartsLast(todo')
<1>1. Order \in Seq(Streams)
  BY OrderAssumption
<1>2. ASSUME NEW s \in Streams, todo' = StartSteps(s)
      PROVE  StartsLast(todo')
  <2> DEFINE p == Each("stop", Others(s))
             renew == <<Step("renew", s)>>
             start == <<Step("start", s)>>
  <2>1. p \in Seq(Steps) /\ \A i \in DOMAIN p : p[i].op = "stop"
    BY EachSeq, OthersLemma DEF Ops
  <2>2. /\ renew \in Seq(Steps) /\ start \in Seq(Steps)
        /\ Len(renew) = 1 /\ Len(start) = 1 /\ renew[1].op = "renew"
    BY DEF Step, Steps, Ops
  <2>3. todo' = p \o <<Step("renew", s), Step("start", s)>>
    BY <1>2 DEF StartSteps
  <2> DEFINE r == p \o renew
  <2>4. <<Step("renew", s), Step("start", s)>> = renew \o start
    OBVIOUS
  <2> HIDE DEF p, renew, start
  <2>5. todo' = (p \o renew) \o start
    <3>1. (p \o renew) \o start = p \o (renew \o start)
      BY <2>1, <2>2, ConcatAssociative
    <3>2. QED
      BY <2>3, <2>4, <3>1
  <2>6. /\ r \in Seq(Steps) /\ Len(r) = Len(p) + Len(renew)
        /\ \A i \in 1 .. Len(p) + Len(renew) :
             r[i] = IF i <= Len(p) THEN p[i] ELSE renew[i - Len(p)]
    BY <2>1, <2>2, ConcatProperties
  <2>7. DOMAIN r = 1 .. Len(r) /\ DOMAIN p = 1 .. Len(p) /\ Len(p) \in Nat
    BY <2>1, <2>6, LenProperties
  <2>8. \A i \in DOMAIN r : r[i].op \notin {"start", "resume"}
    <3> SUFFICES ASSUME NEW i \in DOMAIN r PROVE r[i].op \in {"stop", "renew"}
      OBVIOUS
    <3>1. CASE i <= Len(p)
      BY <2>1, <2>6, <2>7, <3>1
    <3>2. CASE i > Len(p)
      <4>1. i - Len(p) = 1 /\ r[i] = renew[1]
        BY <2>2, <2>6, <2>7, <3>2
      <4>2. QED
        BY <2>2, <4>1
    <3>3. QED
      BY <2>7, <3>1, <3>2
  <2>9. Len(start) <= Len(Order)
    BY <2>2, OrderLength
  <2> HIDE DEF r
  <2>10. StartsLast(r \o start)
    BY <2>2, <2>6, <2>8, <2>9, StartsLastConcat
  <2>11. QED
    BY <2>5, <2>10 DEF r
<1>3. ASSUME NEW s \in Streams, todo' = StopSteps(s)
      PROVE  StartsLast(todo')
  BY <1>3 DEF StopSteps, StartsLast, Step
<1>4. ASSUME todo' = CommandSteps
      PROVE  StartsLast(todo')
  <2> DEFINE p == Each("pause", Order)
             l == <<Step("lock", NoStream), Step("unlock", NoStream)>>
             q == Each("resume", Order)
             r == p \o l
  <2>1. p \in Seq(Steps) /\ \A i \in DOMAIN p : p[i].op = "pause"
    BY <1>1, EachSeq DEF Ops
  <2>2. q \in Seq(Steps) /\ Len(q) = Len(Order)
    BY <1>1, EachSeq DEF Ops
  <2>3. /\ l \in Seq(Steps) /\ Len(l) = 2
        /\ l[1].op = "lock" /\ l[2].op = "unlock"
    BY DEF Step, Steps, Ops
  <2>4. todo' = (p \o l) \o q
    BY <1>4 DEF CommandSteps
  <2> HIDE DEF p, l, q
  <2>5. /\ r \in Seq(Steps) /\ Len(r) = Len(p) + Len(l)
        /\ \A i \in 1 .. Len(p) + Len(l) : r[i] = IF i <= Len(p) THEN p[i] ELSE l[i - Len(p)]
    BY <2>1, <2>3, ConcatProperties
  <2>6. DOMAIN r = 1 .. Len(r) /\ DOMAIN p = 1 .. Len(p) /\ Len(p) \in Nat
    BY <2>1, <2>5, LenProperties
  <2>7. \A i \in DOMAIN r : r[i].op \notin {"start", "resume"}
    <3> SUFFICES ASSUME NEW i \in DOMAIN r PROVE r[i].op \in {"pause", "lock", "unlock"}
      OBVIOUS
    <3>1. CASE i <= Len(p)
      BY <2>1, <2>5, <2>6, <3>1
    <3>2. CASE i > Len(p)
      <4>1. i - Len(p) \in {1, 2} /\ r[i] = l[i - Len(p)]
        BY <2>3, <2>5, <2>6, <3>2
      <4>2. QED
        BY <2>3, <4>1
    <3>3. QED
      BY <2>6, <3>1, <3>2
  <2>8. Len(q) <= Len(Order)
    BY <2>2, OrderLength
  <2> HIDE DEF r
  <2>9. StartsLast(r \o q)
    BY <2>2, <2>5, <2>7, <2>8, StartsLastConcat
  <2>10. QED
    BY <2>4, <2>9 DEF r
<1>5. QED
  BY <1>2, <1>3, <1>4 DEF BeginRequest

\* At first nothing runs, and nothing is asked for.
LEMMA PortInitIInv == AlmemoInit => PortIInv
<1> SUFFICES ASSUME AlmemoInit PROVE PortIInv
  OBVIOUS
<1>1. RequestOk
  BY AlmemoInitIInv DEF AlmemoIInv
<1> USE DEF AlmemoInit
<1>2. Left = {} /\ Alive = {} /\ owner = Free
  BY EmptySeq DEF Left, Of, Alive
<1>3. PortTypes
  BY <1>2 DEF PortTypes, Alive, NoReader
<1>4. PortHeld
  BY <1>2, ReaderNumbers DEF PortHeld, HasOp, Free, Session
<1>5. Room
  <2>1. Reserve = 0 /\ Cardinality(Alive) = 0 /\ StartsLast(todo)
    BY <1>2, FS_EmptySet, OrderLength DEF Reserve, StartsLast
  <2>2. QED
    BY <2>1, BoundsAssumption, OrderLength DEF Room
<1>6. QED
  BY <1>1, <1>3, <1>4, <1>5 DEF PortIInv

\* A reader that lives on keeps the port.
LEMMA ReaderKeepsPort ==
  ASSUME PortIInv, NEW r \in Readers, pc[r] \in {"testing", "reading", "finally"},
         NEW to \in {"testing", "reading", "finally", "leaving"},
         pc' = [pc EXCEPT ![r] = to],
         stopEvent' \subseteq Streams, seen' \subseteq Streams,
         RequestOk',
         UNCHANGED <<kind, thread, halted, owner, todo, pausedStreams, requests>>
  PROVE  PortIInv'
<1> USE DEF PortIInv
<1>1. /\ pc' \in [Readers -> {"dead", "locking", "testing", "reading", "finally", "leaving"}]
      /\ pc'[r] = to
      /\ \A q \in Readers \ {r} : pc'[q] = pc[q]
  BY DEF PortTypes
<1>2. UNCHANGED <<Alive, Left>>
  BY <1>1 DEF Alive, Left
<1>3. PortTypes'
  BY <1>1, <1>2 DEF PortTypes, Alive
<1>4. PortHeld' /\ Room'
  BY <1>2 DEF PortHeld, HasOp, Room, Reserve
<1>5. QED
  BY <1>3, <1>4

\* A reader takes the port only when it is free.
LEMMA ReaderTakesPort ==
  ASSUME PortIInv, NEW r \in Readers, ReaderLocks(r), RequestOk'
  PROVE  PortIInv'
<1> USE DEF PortIInv
<1>1. /\ pc[r] = "locking" /\ pc' = [pc EXCEPT ![r] = "testing"]
      /\ owner = Free /\ owner' = r
      /\ UNCHANGED <<kind, thread, stopEvent, seen, halted, todo, pausedStreams, requests>>
  BY DEF ReaderLocks, ReaderGoes, PortFree, streamVars, requestVars
<1>2. /\ pc' \in [Readers -> {"dead", "locking", "testing", "reading", "finally", "leaving"}]
      /\ pc'[r] = "testing"
      /\ \A q \in Readers \ {r} : pc'[q] = pc[q]
  BY <1>1 DEF PortTypes
<1>3. UNCHANGED <<Alive, Left>> /\ r \in Alive
  BY <1>1, <1>2 DEF Alive, Left
<1>4. \A q \in Alive : pc[q] = "locking"
  BY <1>1, ReaderNumbers DEF PortTypes, Alive
<1>5. PortTypes'
  BY <1>1, <1>2, <1>3, <1>4 DEF PortTypes, Alive
<1>6. PortHeld'
  BY <1>1, <1>3, ReaderNumbers DEF PortHeld, HasOp, Free, Session
<1>7. Room'
  BY <1>1, <1>3 DEF Room, Reserve
<1>8. QED
  BY <1>5, <1>6, <1>7

\* A reader gives the port back when it ends.
LEMMA ReaderGivesPort ==
  ASSUME PortIInv, NEW r \in Readers, ReaderLeaves(r), RequestOk'
  PROVE  PortIInv'
<1> USE DEF PortIInv
<1>1. /\ pc[r] = "leaving" /\ pc' = [pc EXCEPT ![r] = "dead"]
      /\ kind' = [kind EXCEPT ![r] = NoStream]
      /\ thread' = [s \in Streams |-> IF thread[s] = r THEN NoReader ELSE thread[s]]
      /\ owner' = Free
      /\ UNCHANGED <<stopEvent, seen, halted, todo, pausedStreams, requests>>
  BY DEF ReaderLeaves, ReaderGoes, requestVars
<1>2. /\ pc' \in [Readers -> {"dead", "locking", "testing", "reading", "finally", "leaving"}]
      /\ pc'[r] = "dead"
      /\ \A q \in Readers \ {r} : pc'[q] = pc[q]
  BY <1>1 DEF PortTypes
<1>3. /\ kind' \in [Readers -> Streams \cup {NoStream}]
      /\ kind'[r] = NoStream
      /\ \A q \in Readers \ {r} : kind'[q] = kind[q]
  BY <1>1 DEF PortTypes
<1>4. Alive' = Alive \ {r} /\ r \in Alive /\ Left' = Left
  BY <1>1, <1>2 DEF Alive, Left
<1>5. owner = r /\ \A q \in Alive \ {r} : pc[q] = "locking"
  BY <1>1, <1>4 DEF PortTypes
<1>6. PortTypes'
  <2>1. \A q \in Readers : q \in Alive' <=> kind'[q] # NoStream
    BY <1>3, <1>4 DEF PortTypes
  <2>2. thread' \in [Streams -> Readers \cup {NoReader}]
    BY <1>1 DEF PortTypes
  <2>3. \A s \in Streams : thread'[s] # NoReader => kind'[thread'[s]] = s
    BY <1>1, <1>3 DEF PortTypes
  <2>4. \A q \in Alive' : pc'[q] # "locking" <=> owner' = q
    BY <1>1, <1>2, <1>4, <1>5, ReaderNumbers DEF Alive
  <2>5. QED
    BY <1>1, <1>2, <1>3, <2>1, <2>2, <2>3, <2>4 DEF PortTypes
<1>7. PortHeld'
  BY <1>1, <1>4, <1>5, ReaderNumbers DEF PortHeld, HasOp, Free, Session
<1>8. Room'
  <2>1. Cardinality(Alive') \in Nat /\ Cardinality(Alive') <= Cardinality(Alive)
    BY <1>4, AliveFinite, FS_Subset, FS_CardinalityType
  <2>2. UNCHANGED Reserve /\ Reserve \in Int
    BY <1>1, LenProperties, OrderLength DEF Reserve, RequestOk, WellFormed
  <2>3. requests * Len(Order) \in Int
    BY OrderLength DEF Room
  <2>4. QED
    BY <1>1, <2>1, <2>2, <2>3, AliveFinite DEF Room
<1>9. QED
  BY <1>6, <1>7, <1>8

LEMMA ReaderPort ==
  ASSUME PortIInv, NEW r \in Readers, ReaderStep(r), RequestOk'
  PROVE  PortIInv'
<1> USE DEF readerVars, streamVars, requestVars
<1>1. CASE ReaderLocks(r)
  BY <1>1, ReaderTakesPort
<1>2. CASE ReaderLeaves(r)
  BY <1>2, ReaderGivesPort
<1>3. CASE ReaderOpens(r) \/ ReaderStops(r) \/ ReaderReconnects(r) \/ ReaderCrashes(r)
           \/ ReaderEnds(r) \/ ReaderClears(r)
  <2>1. /\ pc[r] \in {"testing", "reading", "finally"}
        /\ \E to \in {"testing", "reading", "finally", "leaving"} : pc' = [pc EXCEPT ![r] = to]
        /\ stopEvent' \subseteq stopEvent /\ seen' = seen
        /\ UNCHANGED <<kind, thread, halted, owner, todo, pausedStreams, requests>>
    BY <1>3 DEF ReaderOpens, ReaderStops, ReaderReconnects, ReaderCrashes, ReaderEnds,
                ReaderClears, ReaderGoes
  <2>2. QED
    BY <2>1, ReaderKeepsPort DEF PortIInv, PortTypes
<1>4. CASE ReaderGetsLine(r)
  <2>1. /\ pc[r] = "reading" /\ pc' = pc
        /\ seen' = seen \cup {kind[r]} /\ stopEvent' = stopEvent
        /\ UNCHANGED <<kind, thread, halted, owner, todo, pausedStreams, requests>>
    BY <1>4 DEF ReaderGetsLine
  <2>2. pc' = [pc EXCEPT ![r] = "reading"]
    BY <2>1 DEF PortIInv, PortTypes
  <2>3. seen' \subseteq Streams
    BY <2>1 DEF PortIInv, PortTypes, Alive
  <2>4. QED
    BY <2>1, <2>2, <2>3, ReaderKeepsPort DEF PortIInv, PortTypes
<1>5. QED
  BY <1>1, <1>2, <1>3, <1>4 DEF ReaderStep

\* Doing a step of a request other than those for the port and the starts.
LEMMA StepPort ==
  ASSUME PortIInv, RequestOk', todo # <<>>, todo' = Tail(todo),
         Head(todo).op \notin {"lock", "unlock"},
         UNCHANGED <<pc, kind, thread, stopEvent, seen, owner, pausedStreams, requests>>,
         halted' \subseteq Streams
  PROVE  PortIInv'
<1> USE DEF PortIInv
<1>1. Left' \subseteq Left /\ Left \subseteq Left' \cup {Head(todo)}
  BY TailLemma DEF RequestOk
<1>2. Alive' = Alive
  BY DEF Alive
<1>3. PortTypes'
  BY <1>2 DEF PortTypes
<1>4. PortHeld'
  <2>1. /\ HasOp("lock")' <=> HasOp("lock")
        /\ HasOp("unlock")' <=> HasOp("unlock")
    BY <1>1 DEF HasOp
  <2>2. QED
    BY <1>2, <2>1 DEF PortHeld
<1>5. Room'
  <2>1. StartsLast(todo') /\ Reserve \in Nat /\ Reserve' \in Nat /\ Reserve' <= Reserve
    BY TailRoom DEF RequestOk, Room
  <2>2. requests * Len(Order) \in Int
    BY OrderLength DEF Room
  <2>3. QED
    BY <1>2, <2>1, <2>2, AliveFinite DEF Room
<1>6. QED
  BY <1>3, <1>4, <1>5

\* The stream a step is about.
LEMMA TargetStream ==
  ASSUME RequestOk, todo # <<>>, Head(todo).op \notin {"lock", "unlock"}
  PROVE  Target \in Streams
BY HeadLemma DEF RequestOk, WellFormed, Addressed, Left, Target

\* A thread that is started has a number nobody has, and waits for the port.
LEMMA StartPort ==
  ASSUME PortIInv, RequestOk', StartStream
  PROVE  PortIInv'
<1> USE DEF PortIInv
<1> DEFINE n == NewReader
           s == Target
<1>1. /\ todo # <<>> /\ Head(todo).op \in {"start", "resume"} /\ todo' = Tail(todo)
      /\ thread' = [thread EXCEPT ![s] = n]
      /\ pc' = [pc EXCEPT ![n] = "locking"]
      /\ kind' = [kind EXCEPT ![n] = s]
      /\ stopEvent' = stopEvent \ {s} /\ seen' = seen \ {s}
      /\ halted' \subseteq halted
      /\ UNCHANGED <<owner, pausedStreams, requests>>
  BY DEF StartStream, Doing, NextStep, EventCleared
<1>2. s \in Streams /\ s # NoStream
  BY <1>1, TargetStream, StreamsAssumption
<1>3. n \in Readers /\ n \notin Alive
  <2>1. Alive # Readers
    BY <1>1, NumberFree
  <2>2. \E r \in Readers : r \notin Alive
    BY <2>1, AliveFinite
  <2>3. QED
    BY <2>2 DEF NewReader
<1> HIDE DEF n, s
<1>4. n # NoReader
  BY <1>3, ReaderNumbers
<1>5. /\ pc' \in [Readers -> {"dead", "locking", "testing", "reading", "finally", "leaving"}]
      /\ pc'[n] = "locking"
      /\ \A q \in Readers \ {n} : pc'[q] = pc[q]
  BY <1>1, <1>3 DEF PortTypes
<1>6. /\ kind' \in [Readers -> Streams \cup {NoStream}]
      /\ kind'[n] = s
      /\ \A q \in Readers \ {n} : kind'[q] = kind[q]
  BY <1>1, <1>2, <1>3 DEF PortTypes
<1>7. Alive' = Alive \cup {n}
  BY <1>3, <1>5 DEF Alive
<1>8. /\ thread' \in [Streams -> Readers \cup {NoReader}]
      /\ thread'[s] = n
      /\ \A t \in Streams \ {s} : thread'[t] = thread[t]
  BY <1>1, <1>2, <1>3 DEF PortTypes
<1>9. owner # n
  BY <1>3 DEF PortHeld
<1>10. PortTypes'
  <2>1. \A q \in Readers : q \in Alive' <=> kind'[q] # NoStream
    BY <1>2, <1>6, <1>7 DEF PortTypes
  <2>2. ASSUME NEW t \in Streams, thread'[t] # NoReader PROVE kind'[thread'[t]] = t
    <3>1. CASE t = s
      BY <1>6, <1>8, <3>1
    <3>2. CASE t # s
      <4>1. thread[t] \in Readers /\ kind[thread[t]] = t /\ thread'[t] = thread[t]
        BY <1>8, <2>2, <3>2 DEF PortTypes
      <4>2. thread[t] # n
        BY <1>3, <4>1, StreamsAssumption DEF PortTypes
      <4>3. QED
        BY <1>6, <4>1, <4>2
    <3>3. QED
      BY <3>1, <3>2
  <2>3. \A q \in Alive' : pc'[q] # "locking" <=> owner' = q
    <3> SUFFICES ASSUME NEW q \in Alive' PROVE pc'[q] # "locking" <=> owner' = q
      OBVIOUS
    <3>1. CASE q = n
      BY <1>1, <1>5, <1>9, <3>1
    <3>2. CASE q # n
      <4>1. q \in Alive /\ q \in Readers
        BY <1>7, <3>2, AliveFinite
      <4>2. QED
        BY <1>1, <1>5, <3>2, <4>1 DEF PortTypes
    <3>3. QED
      BY <3>1, <3>2
  <2>4. /\ stopEvent' \subseteq Streams /\ seen' \subseteq Streams
        /\ pausedStreams' \subseteq Streams /\ halted' \subseteq Streams
        /\ owner' \in {Free, Session, Probe} \cup Readers
    BY <1>1 DEF PortTypes
  <2>5. QED
    BY <1>5, <1>6, <1>8, <2>1, <2>2, <2>3, <2>4 DEF PortTypes
<1>11. PortHeld'
  <2>1. Left' \subseteq Left /\ Left \subseteq Left' \cup {Head(todo)}
    BY <1>1, TailLemma DEF RequestOk
  <2>2. /\ HasOp("lock")' <=> HasOp("lock")
        /\ HasOp("unlock")' <=> HasOp("unlock")
    BY <1>1, <2>1 DEF HasOp
  <2>3. QED
    BY <1>1, <1>7, <2>2 DEF PortHeld
<1>12. Room'
  <2>1. StartsLast(todo') /\ Reserve \in Nat /\ Reserve' \in Nat /\ Reserve' < Reserve
    BY <1>1, TailRoom DEF RequestOk, Room
  <2>2. Cardinality(Alive') = Cardinality(Alive) + 1
    BY <1>3, <1>7, AliveFinite, FS_AddElement
  <2>3. requests * Len(Order) \in Int
    BY OrderLength DEF Room
  <2>4. Cardinality(Alive) \in Nat /\ Cardinality(Alive) + Reserve <= requests * Len(Order)
    BY AliveFinite DEF Room
  <2>5. Cardinality(Alive') + Reserve' <= requests * Len(Order)
    <3>1. \A a, b, c, m \in Int : a + b <= m /\ c < b => a + 1 + c <= m
      OBVIOUS
    <3>2. Reserve \in Int /\ Reserve' \in Int /\ Reserve' < Reserve
      BY <2>1
    <3>3. Cardinality(Alive) + 1 + Reserve' <= requests * Len(Order)
      BY <2>3, <2>4, <3>1, <3>2
    <3>4. QED
      BY <2>2, <3>3
  <2>6. QED
    BY <1>1, <2>1, <2>5 DEF Room
<1>13. QED
  BY <1>10, <1>11, <1>12

\* A session takes the port when it is free, and gives back what it took.
LEMMA SessionPort ==
  ASSUME PortIInv, RequestOk', SessionLocks \/ SessionUnlocks
  PROVE  PortIInv'
<1> USE DEF PortIInv
<1>1. /\ todo # <<>> /\ todo' = Tail(todo)
      /\ \/ Head(todo).op = "lock" /\ owner = Free /\ owner' = Session
         \/ Head(todo).op = "unlock" /\ owner' = Free
      /\ UNCHANGED <<pc, kind, thread, stopEvent, seen, halted, pausedStreams, requests>>
  BY DEF SessionLocks, SessionUnlocks, Doing, NextStep, PortFree, readerVars, streamVars
<1>2. /\ Head(todo) \in Left
      /\ Left' \subseteq Left /\ Left \subseteq Left' \cup {Head(todo)}
      /\ \A step \in Left' : <<Head(todo).op, step.op>> \in Follows
  BY <1>1, TailLemma DEF RequestOk
<1>3. Alive' = Alive
  BY <1>1 DEF Alive
<1>4. ~HasOp("lock")'
  BY <1>1, <1>2 DEF HasOp, Follows
<1>5. owner \notin Readers
  <2>1. CASE Head(todo).op = "lock"
    BY <1>1, <2>1, ReaderNumbers
  <2>2. CASE Head(todo).op = "unlock"
    <3>1. HasOp("unlock") /\ ~HasOp("lock")
      BY <1>2, <2>2 DEF HasOp, Follows
    <3>2. QED
      BY <3>1, ReaderNumbers DEF PortHeld
  <2>3. QED
    BY <1>1, <2>1, <2>2
<1>6. HasOp("unlock")' <=> owner' = Session
  <2>1. CASE Head(todo).op = "lock"
    <3>1. HasOp("unlock")
      BY <1>2, <2>1 DEF PortHeld, HasOp
    <3>2. HasOp("unlock")'
      BY <1>2, <2>1, <3>1 DEF HasOp
    <3>3. QED
      BY <1>1, <2>1, <3>2
  <2>2. CASE Head(todo).op = "unlock"
    <3>1. ~HasOp("unlock")'
      BY <1>2, <2>2 DEF HasOp, Follows
    <3>2. QED
      BY <1>1, <2>2, <3>1 DEF Free, Session
  <2>3. QED
    BY <1>1, <2>1, <2>2
<1>7. owner' \in {Free, Session} /\ owner' \notin Readers
  BY <1>1, ReaderNumbers
<1>8. PortTypes'
  BY <1>1, <1>3, <1>5, <1>7, AliveFinite DEF PortTypes
<1>9. PortHeld'
  BY <1>4, <1>6, <1>7 DEF PortHeld
<1>10. Room'
  <2>1. StartsLast(todo') /\ Reserve \in Nat /\ Reserve' \in Nat /\ Reserve' <= Reserve
    BY <1>1, TailRoom DEF RequestOk, Room
  <2>2. requests * Len(Order) \in Int
    BY OrderLength DEF Room
  <2>3. QED
    BY <1>1, <1>3, <2>1, <2>2, AliveFinite DEF Room
<1>11. QED
  BY <1>8, <1>9, <1>10

\* A request that begins has room for what it may start.
LEMMA BeginPort ==
  ASSUME PortIInv, RequestOk', BeginRequest
  PROVE  PortIInv'
<1> USE DEF PortIInv
<1>1. /\ todo = <<>> /\ requests < MaxRequests /\ requests' = requests + 1
      /\ pausedStreams' = {}
      /\ UNCHANGED <<pc, kind, thread, stopEvent, seen, halted, owner>>
  BY DEF BeginRequest, readerVars, streamVars
<1>2. Alive' = Alive /\ Left = {}
  BY <1>1, EmptySeq DEF Alive, Left, Of
<1>3. PortTypes'
  BY <1>1, <1>2 DEF PortTypes
<1>4. PortHeld'
  <2>1. owner # Session
    BY <1>2 DEF PortHeld, HasOp
  <2>2. HasOp("lock")' <=> HasOp("unlock")'
    <3>1. CASE \A step \in Left' : step.op \in {"stop", "renew", "start"}
      BY <3>1 DEF HasOp
    <3>2. CASE \E s \in Streams : Left' = {Step("stop", s), Step("answer", s)}
      BY <3>2 DEF HasOp, Step
    <3>3. CASE {Step("lock", NoStream), Step("unlock", NoStream)} \subseteq Left'
      <4>1. Step("lock", NoStream).op = "lock" /\ Step("unlock", NoStream).op = "unlock"
        BY DEF Step
      <4>2. QED
        BY <3>3, <4>1 DEF HasOp
    <3>4. QED
      BY <3>1, <3>2, <3>3, RequestLemma
  <2>3. QED
    BY <1>1, <1>2, <2>1, <2>2 DEF PortHeld
<1>5. Room'
  <2>1. StartsLast(todo')
    BY RequestStartsLast
  <2>2. Reserve = 0
    BY <1>1, OrderLength, EmptySeq DEF Reserve
  <2>3. Reserve' \in Nat /\ Reserve' <= Len(Order)
    BY LenProperties, OrderLength DEF Reserve, RequestOk, WellFormed
  <2>4. requests \in Nat /\ requests' \in 0 .. MaxRequests
    BY <1>1, BoundsAssumption DEF Room
  <2>5. requests' * Len(Order) = requests * Len(Order) + Len(Order)
        /\ requests * Len(Order) \in Int
    BY <1>1, <2>4, OrderLength
  <2>6. Cardinality(Alive) \in Nat /\ Cardinality(Alive) + Reserve <= requests * Len(Order)
    BY AliveFinite DEF Room
  <2>7. Cardinality(Alive) + Reserve' <= requests' * Len(Order)
    BY <2>2, <2>3, <2>5, <2>6, OrderLength
  <2>8. QED
    BY <1>2, <2>1, <2>4, <2>7 DEF Room
<1>6. QED
  BY <1>3, <1>4, <1>5

\* A start that is answered at once ends its request.
LEMMA KeepPort ==
  ASSUME PortIInv, RequestOk', KeepStream
  PROVE  PortIInv'
<1> USE DEF PortIInv
<1>1. /\ todo # <<>> /\ Head(todo).op = "renew" /\ todo' = <<>>
      /\ UNCHANGED <<pc, kind, thread, stopEvent, seen, halted, owner, pausedStreams, requests>>
  BY DEF KeepStream, Doing, readerVars, streamVars
<1>2. Alive' = Alive /\ Left' = {}
  BY <1>1, EmptySeq DEF Alive, Left, Of
<1>3. ~HasOp("unlock")
  <2>1. \A step \in Left : step = Head(todo) \/ <<Head(todo).op, step.op>> \in Follows
    BY <1>1, HeadLemma DEF RequestOk
  <2>2. QED
    BY <1>1, <2>1 DEF HasOp, Follows
<1>4. PortTypes'
  BY <1>1, <1>2 DEF PortTypes
<1>5. PortHeld'
  BY <1>1, <1>2, <1>3 DEF PortHeld, HasOp
<1>6. Room'
  <2>1. Reserve' = 0 /\ StartsLast(todo')
    BY <1>1, EmptySeq, OrderLength DEF Reserve, StartsLast
  <2>2. Reserve \in Nat
    BY LenProperties, OrderLength DEF Reserve, RequestOk, WellFormed
  <2>3. requests * Len(Order) \in Int
    BY OrderLength DEF Room
  <2>4. QED
    BY <1>1, <1>2, <2>1, <2>2, <2>3, AliveFinite DEF Room
<1>7. QED
  BY <1>4, <1>5, <1>6

\* Telling a reader to stop, and the probe of the health page.
LEMMA OtherPort ==
  ASSUME PortIInv, RequestOk', SetStop \/ ProbeLocks \/ ProbeUnlocks \/ UNCHANGED almemoVars
  PROVE  PortIInv'
<1> USE DEF PortIInv, readerVars, streamVars, requestVars
<1>1. /\ stopEvent' \subseteq Streams /\ pausedStreams' \subseteq Streams
      /\ UNCHANGED <<pc, kind, thread, seen, halted, todo, requests>>
  <2>1. CASE SetStop
    <3>1. Target \in Streams
      BY <2>1, TargetStream DEF SetStop, Stopping, Doing
    <3>2. QED
      BY <2>1, <3>1 DEF SetStop, PortTypes
  <2>2. CASE ProbeLocks \/ ProbeUnlocks \/ UNCHANGED almemoVars
    BY <2>2 DEF ProbeLocks, ProbeUnlocks, almemoVars, PortTypes
  <2>3. QED
    BY <2>1, <2>2
<1>2. UNCHANGED <<Alive, Left>>
  BY <1>1 DEF Alive, Left
<1>3. \/ owner' = owner
      \/ {owner, owner'} = {Free, Probe}
  BY DEF SetStop, ProbeLocks, ProbeUnlocks, PortFree, almemoVars
<1>4. PortTypes'
  BY <1>1, <1>2, <1>3, ReaderNumbers, AliveFinite DEF PortTypes
<1>5. PortHeld'
  BY <1>2, <1>3, ReaderNumbers DEF PortHeld, HasOp, Free, Session, Probe
<1>6. Room'
  BY <1>1, <1>2 DEF Room, Reserve
<1>7. QED
  BY <1>4, <1>5, <1>6

LEMMA PortStepIInv == PortIInv /\ [AlmemoNext]_almemoVars => PortIInv'
<1> SUFFICES ASSUME PortIInv, [AlmemoNext]_almemoVars PROVE PortIInv'
  OBVIOUS
<1>1. RequestOk'
  BY RequestOkKept DEF PortIInv
<1>2. CASE NothingToStop \/ ReaderJoined \/ JoinTimesOut \/ AnswerStop \/ NothingToResume
  <2>1. joining => Stopping
    BY DEF PortIInv, RequestOk
  <2>2. /\ todo # <<>> /\ todo' = Tail(todo)
        /\ Head(todo).op \in {"stop", "renew", "pause", "answer", "resume"}
        /\ UNCHANGED <<pc, kind, thread, stopEvent, seen, owner, pausedStreams, requests>>
        /\ halted' = halted \/ halted' = halted \cup {Target}
    BY <1>2, <2>1 DEF NothingToStop, ReaderJoined, JoinTimesOut, AnswerStop, NothingToResume,
         Stopping, Doing, NextStep, readerVars, streamVars
  <2>3. halted' \subseteq Streams
    BY <2>2, TargetStream DEF PortIInv, PortTypes
  <2>4. QED
    BY <1>1, <2>2, <2>3, StepPort
<1>3. QED
  BY <1>1, <1>2, ReaderPort, BeginPort, KeepPort, OtherPort, StartPort, SessionPort
     DEF AlmemoNext, RequestStep

LEMMA PortInvariant == AlmemoSpec => []PortIInv
  BY PortInitIInv, PortStepIInv, PTL DEF AlmemoSpec

-----------------------------------------------------------------------------
(* The results.                                                            *)

\* However late readers are: types; a thread is a reader of its stream; one reader
\* at most is past SERIAL_LOCK, and it holds it; no bound keeps a thread from being
\* started.
THEOREM AlmemoTypeCorrect == AlmemoSpec => []AlmemoTypeOK
<1>1. ASSUME PortIInv, Doing("start") \/ Doing("resume") PROVE Alive # Readers
  BY <1>1, NumberFree DEF Doing
<1>2. PortIInv => AlmemoTypeOK
  BY <1>1 DEF PortIInv, PortTypes, RequestOk, AlmemoTypeOK
<1>3. QED
  BY <1>2, PortInvariant, PTL

\* As long as readers end in time, no two reader threads are alive.
THEOREM AlmemoOneReader == AlmemoSpec => []OneReader
<1>1. ASSUME AlmemoIInv, ~late PROVE Cardinality(Alive) <= 1
  <2>1. \A q, r \in Alive : q = r
    BY <1>1 DEF AlmemoIInv, StreamsOk, Single
  <2>2. CASE Alive = {}
    BY <2>2, FS_EmptySet
  <2>3. CASE Alive # {}
    <3>1. PICK r \in Alive : TRUE
      BY <2>3
    <3>2. Alive = {r}
      BY <2>1, <3>1
    <3>3. Cardinality({r}) = 1
      BY FS_Singleton
    <3>4. QED
      BY <3>2, <3>3
  <2>4. QED
    BY <2>2, <2>3
<1>2. AlmemoIInv => OneReader
  BY <1>1 DEF OneReader
<1>3. QED
  BY <1>2, AlmemoInvariant, PTL

\* As long as readers end in time, a stopped stream stays down until its start
\* is asked for: neither a command nor a crash brings it back.
THEOREM AlmemoStoppedStaysDown == AlmemoSpec => []StoppedStaysDown
<1>1. AlmemoIInv => StoppedStaysDown
  BY DEF AlmemoIInv, StreamsOk, StoppedStaysDown
<1>2. QED
  BY <1>1, AlmemoInvariant, PTL

\* As long as readers end in time, no stop outlives the request that set it.
THEOREM AlmemoNoStopLeftOver == AlmemoSpec => []NoStopLeftOver
<1>1. AlmemoIInv => NoStopLeftOver
  BY DEF AlmemoIInv, RequestOk, StreamsOk, StopAwaited, NoStopLeftOver, ToldToStop,
         Stopping, Doing
<1>2. QED
  BY <1>1, AlmemoInvariant, PTL

\* As long as readers end in time and none crashes, a command gives back every
\* stream it paused.
THEOREM AlmemoGivesBack == AlmemoSpec => []GivesBack
<1>1. ASSUME AlmemoIInv, ~late, crashes = 0, todo = <<>>, NEW s \in pausedStreams
      PROVE  thread[s] # NoReader
  <2>1. Left = {}
    BY <1>1 DEF Left, Of
  <2>2. QED
    BY <1>1, <2>1 DEF AlmemoIInv, StreamsOk, ResumesPaused, Running
<1>2. AlmemoIInv => GivesBack
  BY <1>1 DEF GivesBack
<1>3. QED
  BY <1>2, AlmemoInvariant, PTL
=============================================================================
