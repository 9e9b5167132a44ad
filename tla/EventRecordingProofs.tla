----------------------- MODULE EventRecordingProofs -----------------------
(***************************************************************************)
(* Proofs about EventRecording, for any windows, any length of time, any    *)
(* number of gaps, stops and deaths.                                       *)
(*                                                                         *)
(* RecorderIInv relates what the recorder knows to what is on disk at each  *)
(* point where it may die; that the parts of a window are never lost        *)
(* follows from it.  ClosedIInv says that windows follow one another, and   *)
(* that what is still owed was not passed over by a video.  OwedIInv says   *)
(* of each confirmed anomaly that is not saved yet, and that no window has  *)
(* kept waiting, which window or marker still stands for it.               *)
(***************************************************************************)
EXTENDS EventRecording, WellFoundedInduction, TLAPS

WindowOk(window) ==
  /\ window \in Window
  /\ window.parts \subseteq window.start .. now - 1
  /\ window.start <= now
  /\ window.name[2] = window.start
  /\ window = None \/ window.name[1] > 0

WindowsOk ==
  /\ WindowOk(active) /\ WindowOk(catalog.active)
  /\ marker = NoMarker \/ marker.id > 0

\* What each step of update() leaves to the next.
PhaseOk ==
  /\ pc \in {"release", "remove"} => active # None /\ End(active) <= now
  /\ stopping => /\ pc \in {"finish", "release", "remove", "expire", "expireDue"}
                 /\ active.end <= now
  /\ pc \in {"expireDue", "off"} => active = None
  /\ pc = "expire" /\ stopping => active = None
  /\ pc \in {"remove", "expireDue"} => catalog.active = None

\* The window in catalog.json is the one in memory, which may have got more parts.
Continues ==
  pc = "off" \/ catalog.active = None
    \/ (/\ active # None
        /\ active.name = catalog.active.name
        /\ catalog.active.parts \subseteq active.parts)

\* The parts of both are linked.
Linked == Links(active) \subseteq staged /\ Links(catalog.active) \subseteq staged

\* From _protect to persist the window has all that the buffer has of it.
Protected ==
  pc \in {"finish", "expire"} /\ active # None => Overlapping(active) \subseteq active.parts

\* What there was of a window before the end of its video is in the video.
VideoHas(parts, video) == \A t \in parts : t < video.end => t \in video.parts

Joined ==
  \A video \in videos :
    /\ VideoHas({t \in buffer : video.name[2] <= t}, video)
    /\ active.name = video.name => VideoHas(active.parts, video)
    /\ catalog.active.name = video.name => VideoHas(catalog.active.parts, video)

\* The window is released with its video only.
HasVideo ==
  pc = "release" /\ active.parts # {} => \E video \in videos : video.name = active.name

RecorderIInv ==
  /\ EventTypeOK
  /\ WindowsOk
  /\ PhaseOk
  /\ Continues
  /\ Linked
  /\ Protected
  /\ Joined
  /\ HasVideo

-----------------------------------------------------------------------------
(* Least and greatest of two or three.                                     *)

LEMMA MinOfTwo ==
  ASSUME NEW a \in Int, NEW b \in Int
  PROVE  Min({a, b}) \in {a, b} /\ Min({a, b}) <= a /\ Min({a, b}) <= b
<1>1. \E x \in {a, b} : \A y \in {a, b} : x <= y
  OBVIOUS
<1> QED BY <1>1 DEF Min

LEMMA MaxOfTwo ==
  ASSUME NEW a \in Int, NEW b \in Int
  PROVE  Max({a, b}) \in {a, b} /\ Max({a, b}) >= a /\ Max({a, b}) >= b
<1>1. \E x \in {a, b} : \A y \in {a, b} : x >= y
  OBVIOUS
<1> QED BY <1>1 DEF Max

LEMMA MaxOfThree ==
  ASSUME NEW a \in Int, NEW b \in Int, NEW c \in Int
  PROVE  /\ Max({a, b, c}) \in {a, b, c}
         /\ Max({a, b, c}) >= a /\ Max({a, b, c}) >= b /\ Max({a, b, c}) >= c
<1>1. \E x \in {a, b, c} : \A y \in {a, b, c} : x >= y
  <2>1. CASE a >= b /\ a >= c  BY <2>1
  <2>2. CASE b >= a /\ b >= c  BY <2>2
  <2>3. CASE c >= a /\ c >= b  BY <2>3
  <2> QED BY <2>1, <2>2, <2>3
<1> QED BY <1>1 DEF Max

LEMMA MinOfSome ==
  ASSUME NEW times, times # {}, times \subseteq Nat
  PROVE  Min(times) \in times
<1> DEFINE Before == OpToRel(<, Nat)
<1>1. Before = {pair \in Nat \X Nat : pair[1] < pair[2]}
  BY DEF OpToRel
<1>2. IsWellFoundedOn(Before, Nat)
  BY NatLessThanWellFounded
<1> HIDE DEF Before
<1>3. \E x \in times : \A y \in times : ~(<<y, x>> \in Before)
  BY <1>2, WFMin
<1>4. PICK x \in times : \A y \in times : ~(<<y, x>> \in Before)
  BY <1>3
<1>5. ASSUME NEW y \in times PROVE x <= y
  <2>1. <<y, x>> \in Nat \X Nat /\ <<y, x>> \notin Before
    BY <1>4
  <2>2. ~(<<y, x>>[1] < <<y, x>>[2])
    BY <1>1, <2>1
  <2> QED BY <2>2
<1> QED BY <1>5 DEF Min

LEMMA Parameters ==
  /\ Pre \in Nat /\ Keep \in Nat /\ Grace \in Nat /\ MaxTime \in Nat
  /\ MaxGaps \in Nat /\ MaxStops \in Nat
  /\ Post \in Nat /\ Post > 0 /\ MaxLength \in Nat /\ MaxLength > 0
  /\ Keep > Pre
  BY WindowAssumption

-----------------------------------------------------------------------------
(* Windows.                                                                *)

LEMMA WindowFields ==
  ASSUME NEW w \in Window
  PROVE  /\ w.name \in Names /\ w.name[1] \in Nat /\ w.name[2] \in Nat
         /\ w.start \in Nat /\ w.start <= MaxTime
         /\ w.end \in Nat /\ w.end <= MaxTime + Post
         /\ w.parts \subseteq 0 .. MaxTime
  BY Parameters DEF Window, Names

LEMMA EndFacts ==
  ASSUME NEW w \in Window
  PROVE  /\ End(w) \in Nat /\ End(w) <= w.end /\ End(w) <= w.start + MaxLength
         /\ End(w) = w.end \/ End(w) = w.start + MaxLength
<1>1. w.end \in Nat /\ w.start \in Nat
  BY WindowFields
<1> DEFINE e == Min({w.end, w.start + MaxLength})
<1>2. w.end \in Int /\ w.start + MaxLength \in Int
  BY <1>1, Parameters
<1>3. e \in {w.end, w.start + MaxLength} /\ e <= w.end /\ e <= w.start + MaxLength
  BY <1>2, MinOfTwo
<1>4. End(w) = e
  BY DEF End
<1> HIDE DEF e
<1> QED BY <1>1, <1>3, <1>4, Parameters

LEMMA NoneOk == now \in 0 .. MaxTime => WindowOk(None)
<1> SUFFICES ASSUME now \in 0 .. MaxTime PROVE WindowOk(None)  OBVIOUS
<1>1. None \in Window
  BY Parameters DEF None, Window, Names
<1>2. None.parts = {} /\ None.start = 0 /\ None.name[2] = 0
  BY DEF None
<1> QED BY <1>1, <1>2, Parameters DEF WindowOk

\* A marker that counts asks for a window that begins at what is not saved yet,
\* and ends after now.
LEMMA MarkerFacts ==
  ASSUME EventTypeOK, MarkerCounts
  PROVE  /\ MarkerStart \in 0 .. now
         /\ closedUntil <= MarkerStart
         /\ MarkerStart \in {marker.first - Pre, now - Keep, closedUntil}
         /\ marker.first - Pre <= MarkerStart
         /\ marker.last + Post \in 1 .. MaxTime + Post
         /\ now < marker.last + Post
<1>1. /\ now \in Nat /\ now <= MaxTime
      /\ marker.first \in 0 .. now /\ marker.last \in 0 .. now
      /\ closedUntil \in 0 .. now
  BY Parameters DEF EventTypeOK
<1>2. marker.first - Pre \in Int /\ now - Keep \in Int /\ closedUntil \in Int
  BY <1>1, Parameters
<1>3. /\ MarkerStart \in {marker.first - Pre, now - Keep, closedUntil}
      /\ MarkerStart >= marker.first - Pre /\ MarkerStart >= closedUntil
  BY <1>2, MaxOfThree DEF MarkerStart
<1> QED BY <1>1, <1>3, Parameters DEF MarkerCounts

LEMMA OpenedOk ==
  ASSUME EventTypeOK, WindowsOk, MarkerCounts
  PROVE  WindowOk(Opened) /\ Opened # None
<1>1. MarkerStart \in 0 .. now /\ marker.last + Post \in 1 .. MaxTime + Post
  BY MarkerFacts
<1>2. marker.id \in 0 .. MaxTime /\ marker.id > 0 /\ now \in 0 .. MaxTime
  BY DEF EventTypeOK, WindowsOk, MarkerCounts
<1>3. <<marker.id, MarkerStart>> \in Names /\ MarkerStart \in 0 .. MaxTime
  BY <1>1, <1>2, Parameters DEF Names
<1>4. Opened \in Window
  BY <1>1, <1>3, Parameters DEF Opened, Window
<1>5. /\ Opened.name = <<marker.id, MarkerStart>> /\ Opened.start = MarkerStart
      /\ Opened.parts = {} /\ Opened.end = marker.last + Post
  BY DEF Opened
<1>6. Opened # None
  BY <1>1, <1>5 DEF None
<1> QED BY <1>1, <1>2, <1>4, <1>5, <1>6, Parameters DEF WindowOk

\* Another end makes no other window.
LEMMA NewEnd ==
  ASSUME NEW w, WindowOk(w), w # None, NEW e \in 0 .. MaxTime + Post
  PROVE  /\ WindowOk([w EXCEPT !.end = e]) /\ [w EXCEPT !.end = e] # None
         /\ [w EXCEPT !.end = e].name = w.name /\ [w EXCEPT !.end = e].start = w.start
         /\ [w EXCEPT !.end = e].parts = w.parts /\ [w EXCEPT !.end = e].end = e
<1> DEFINE u == [w EXCEPT !.end = e]
<1>1. /\ u \in Window /\ u.name = w.name /\ u.start = w.start /\ u.parts = w.parts
      /\ u.end = e
  BY DEF WindowOk, Window
<1>2. u.name[1] > 0 /\ u # None
  BY <1>1 DEF WindowOk, None
<1> QED BY <1>1, <1>2 DEF WindowOk

\* The window after _trigger: none, the one there was, it until later, or a new one.
LEMMA TriggeredOk ==
  ASSUME EventTypeOK, WindowsOk
  PROVE  /\ WindowOk(Triggered)
         /\ active # None => /\ Triggered # None
                             /\ Triggered.name = active.name
                             /\ Triggered.start = active.start
                             /\ Triggered.parts = active.parts
                             /\ active.end <= Triggered.end
         /\ active = None => Triggered = IF MarkerCounts THEN Opened ELSE None
<1>1. CASE ~MarkerCounts
  <2>1. active.end \in Nat
    BY WindowFields DEF WindowsOk, WindowOk
  <2> QED BY <1>1, <2>1 DEF Triggered, WindowsOk
<1>2. CASE MarkerCounts /\ active = None
  BY <1>2, OpenedOk DEF Triggered
<1>3. CASE MarkerCounts /\ active # None
  <2> DEFINE e == Max({active.end, marker.last + Post})
  <2>1. active.end \in Nat /\ active.end <= MaxTime + Post
    BY WindowFields DEF WindowsOk, WindowOk
  <2>2. marker.last + Post \in 1 .. MaxTime + Post
    BY <1>3, MarkerFacts
  <2>3. e \in {active.end, marker.last + Post} /\ e >= active.end
    <3>1. active.end \in Int /\ marker.last + Post \in Int
      BY <2>1, <2>2
    <3> QED BY <3>1, MaxOfTwo
  <2>4. e \in 0 .. MaxTime + Post
    BY <2>1, <2>2, <2>3, Parameters
  <2>5. Triggered = active \/ Triggered = [active EXCEPT !.end = e]
    BY <1>3 DEF Triggered
  <2> HIDE DEF e
  <2>6. CASE Triggered = active
    BY <1>3, <2>1, <2>6 DEF WindowsOk
  <2>7. CASE Triggered = [active EXCEPT !.end = e]
    <3>1. WindowOk(active)
      BY DEF WindowsOk
    <3> QED BY <1>3, <2>3, <2>4, <2>7, <3>1, NewEnd
  <2> QED BY <2>5, <2>6, <2>7
<1> QED BY <1>1, <1>2, <1>3

\* _protect adds the parts that are in the buffer.
LEMMA ProtectOk ==
  ASSUME EventTypeOK, NEW w, WindowOk(w), Protect(w)
  PROVE  /\ WindowOk(active')
         /\ w = None => active' = None
         /\ w # None => /\ active' # None
                        /\ active'.name = w.name /\ active'.start = w.start
                        /\ active'.end = w.end
                        /\ active'.parts = w.parts \cup Overlapping(w)
         /\ staged' = staged \cup Links(active')
<1>1. CASE w = None
  BY <1>1 DEF Protect
<1>2. CASE w # None
  <2> DEFINE u == [w EXCEPT !.parts = @ \cup Overlapping(w)]
  <2>1. active' = u /\ staged' = staged \cup Links(u)
    BY <1>2 DEF Protect
  <2>2. /\ now \in 0 .. MaxTime /\ buffer \subseteq 0 .. now - 1
        /\ w.start \in Nat /\ w.parts \subseteq 0 .. MaxTime
    BY WindowFields DEF EventTypeOK, WindowOk
  <2>3. Overlapping(w) \subseteq w.start .. now - 1 /\ Overlapping(w) \subseteq 0 .. MaxTime
    <3> SUFFICES ASSUME NEW t \in Overlapping(w)
                 PROVE  t \in w.start .. now - 1 /\ t \in 0 .. MaxTime
      OBVIOUS
    <3>1. t \in buffer /\ t + 1 > w.start
      BY DEF Overlapping
    <3>2. t \in 0 .. now - 1
      BY <2>2, <3>1
    <3> QED BY <2>2, <3>1, <3>2, Parameters
  <2>4. /\ u \in Window /\ u.name = w.name /\ u.start = w.start /\ u.end = w.end
        /\ u.parts = w.parts \cup Overlapping(w)
    BY <2>2, <2>3 DEF WindowOk, Window
  <2>5. u.name[1] > 0 /\ u # None
    BY <1>2, <2>4 DEF WindowOk, None
  <2>6. WindowOk(u)
    BY <2>3, <2>4, <2>5 DEF WindowOk
  <2> HIDE DEF u
  <2> QED BY <1>2, <2>1, <2>4, <2>5, <2>6
<1> QED BY <1>1, <1>2

LEMMA LinksOk ==
  ASSUME NEW w, WindowOk(w), now \in 0 .. MaxTime
  PROVE  Links(w) \subseteq [name : Names, part : 0 .. now - 1]
<1>1. w.name \in Names /\ w.start \in Nat /\ now \in Nat /\ w.parts \subseteq w.start .. now - 1
  BY WindowFields, Parameters DEF WindowOk
<1>2. w.parts \subseteq 0 .. now - 1
  BY <1>1
<1> QED BY <1>1, <1>2 DEF Links

-----------------------------------------------------------------------------
(* The recorder and what is on disk.                                       *)

LEMMA RecorderInitIInv == Init => RecorderIInv
<1> SUFFICES ASSUME Init PROVE RecorderIInv  OBVIOUS
<1> USE DEF Init
<1>1. now \in 0 .. MaxTime
  BY Parameters
<1>2. WindowOk(None) /\ None \in Window /\ None.parts = {} /\ None.end = 0
  BY <1>1, NoneOk DEF WindowOk, None
<1>3. NoMarker \in [id : 0 .. MaxTime, first : 0 .. now, last : 0 .. now]
  BY Parameters DEF NoMarker
<1>4. EventTypeOK
  <2>1. {active, catalog.active} \subseteq Window /\ {closedUntil, catalog.closedUntil} \subseteq 0 .. now
    BY <1>2
  <2>2. gaps \in 0 .. MaxGaps /\ stops \in 0 .. MaxStops
    BY Parameters
  <2> QED BY <1>1, <1>3, <2>1, <2>2 DEF EventTypeOK
<1>5. WindowsOk
  BY <1>2 DEF WindowsOk
<1>6. Linked
  BY <1>2 DEF Linked, Links
<1> QED BY <1>4, <1>5, <1>6
        DEF RecorderIInv, PhaseOk, Continues, Protected, Joined, HasVideo

\* Links are made before a part counts as part of the window.
LEMMA ProtectIInv ==
  ASSUME RecorderIInv, NEW w, WindowOk(w), Protect(w), pc \in {"due", "done"},
         active # None => w # None /\ w.name = active.name /\ w.parts = active.parts,
         active = None => w.parts = {},
         pc' = "finish", UNCHANGED <<closedUntil, buffer, catalog, videos, now, marker, gaps>>,
         stopping' \in BOOLEAN, stopping' => w.end <= now,
         stops' \in 0 .. MaxStops, owed' \cup keptOut' \subseteq 0 .. now
  PROVE  RecorderIInv'
<1> USE DEF RecorderIInv
<1>1. /\ WindowOk(active')
      /\ w = None => active' = None
      /\ w # None => /\ active' # None
                     /\ active'.name = w.name /\ active'.start = w.start
                     /\ active'.end = w.end
                     /\ active'.parts = w.parts \cup Overlapping(w)
      /\ staged' = staged \cup Links(active')
  BY ProtectOk
<1>2. now \in 0 .. MaxTime /\ now' = now
  BY DEF EventTypeOK
<1>3. active' \in Window /\ None.parts = {} /\ None.end = 0
  BY <1>1 DEF WindowOk, None
<1>4. EventTypeOK'
  <2>1. staged' \subseteq [name : Names, part : 0 .. now - 1]
    BY <1>1, <1>2, LinksOk DEF EventTypeOK
  <2> QED BY <1>2, <1>3, <2>1 DEF EventTypeOK
<1>5. WindowsOk'
  BY <1>1, <1>2 DEF WindowsOk, WindowOk
<1>6. PhaseOk'
  <2>1. stopping' => active'.end <= now
    <3>1. CASE w = None
      BY <1>1, <1>2, <1>3, <3>1
    <3>2. CASE w # None
      BY <1>1, <3>2
    <3> QED BY <3>1, <3>2
  <2> QED BY <1>2, <2>1 DEF PhaseOk
<1>7. Continues'
  <2>1. pc # "off"
    OBVIOUS
  <2>2. CASE catalog.active = None
    BY <2>2 DEF Continues
  <2>3. CASE catalog.active # None
    <3>1. active # None /\ active.name = catalog.active.name
          /\ catalog.active.parts \subseteq active.parts
      BY <2>1, <2>3 DEF Continues
    <3> QED BY <1>1, <3>1 DEF Continues
  <2> QED BY <2>2, <2>3
<1>8. Linked'
  BY <1>1 DEF Linked
<1>9. Protected'
  <2>1. CASE w = None
    BY <1>1, <2>1 DEF Protected
  <2>2. CASE w # None
    <3>1. Overlapping(active)' = Overlapping(w)
      BY <1>1, <2>2 DEF Overlapping
    <3> QED BY <1>1, <2>2, <3>1 DEF Protected
  <2> QED BY <2>1, <2>2
<1>10. Joined'
  <2> SUFFICES ASSUME NEW video \in videos, active'.name = video.name
               PROVE  VideoHas(active'.parts, video)
    BY DEF Joined, VideoHas
  <2>1. CASE w = None
    BY <1>1, <1>3, <2>1 DEF VideoHas
  <2>2. CASE w # None
    <3>1. VideoHas(w.parts, video)
      <4>1. CASE active = None
        BY <4>1 DEF VideoHas
      <4>2. CASE active # None
        BY <1>1, <2>2, <4>2 DEF Joined
      <4> QED BY <4>1, <4>2
    <3>2. Overlapping(w) \subseteq {t \in buffer : video.name[2] <= t}
      <4>1. w.start \in Nat /\ video.name[2] = w.start
        BY <1>1, <2>2, WindowFields DEF WindowOk
      <4>2. \A t \in buffer : t \in Int
        BY DEF EventTypeOK
      <4> QED BY <4>1, <4>2 DEF Overlapping
    <3>3. VideoHas({t \in buffer : video.name[2] <= t}, video)
      BY DEF Joined
    <3> QED BY <1>1, <2>2, <3>1, <3>2, <3>3 DEF VideoHas
  <2> QED BY <2>1, <2>2
<1>11. HasVideo'
  BY DEF HasVideo
<1> QED BY <1>4, <1>5, <1>6, <1>7, <1>8, <1>9, <1>10, <1>11

LEMMA FollowIInv ==
  ASSUME RecorderIInv, Follow
  PROVE  RecorderIInv'
<1>1. /\ WindowOk(Triggered)
      /\ active # None => /\ Triggered # None
                          /\ Triggered.name = active.name
                          /\ Triggered.parts = active.parts
      /\ active = None => Triggered = IF MarkerCounts THEN Opened ELSE None
  BY TriggeredOk DEF RecorderIInv
<1>2. active = None => Triggered.parts = {}
  BY <1>1 DEF Opened, None
<1>3. /\ Protect(Triggered) /\ pc \in {"due", "done"} /\ pc' = "finish"
      /\ UNCHANGED <<closedUntil, buffer, catalog, videos, now, marker, gaps, stops,
                     stopping, owed>>
      /\ keptOut' \subseteq keptOut
  BY DEF Follow, environment
<1>4. ~stopping /\ stopping' \in BOOLEAN /\ ~stopping'
  BY <1>3 DEF RecorderIInv, PhaseOk, EventTypeOK
<1>5. stops' \in 0 .. MaxStops /\ owed' \cup keptOut' \subseteq 0 .. now
  BY <1>3 DEF RecorderIInv, EventTypeOK
<1> QED BY <1>1, <1>2, <1>3, <1>4, <1>5, ProtectIInv

LEMMA StopIInv ==
  ASSUME RecorderIInv, Stop
  PROVE  RecorderIInv'
<1> DEFINE w == IF active = None THEN None ELSE [active EXCEPT !.end = Min({@, now})]
<1>1. WindowOk(active) /\ active \in Window /\ now \in 0 .. MaxTime
      /\ active.end \in Nat /\ active.end <= MaxTime + Post
  BY WindowFields DEF RecorderIInv, WindowsOk, WindowOk, EventTypeOK
<1>2. Min({active.end, now}) \in {active.end, now} /\ Min({active.end, now}) <= now
  <2>1. active.end \in Int /\ now \in Int
    BY <1>1
  <2> QED BY <2>1, MinOfTwo
<1>3. Min({active.end, now}) \in 0 .. MaxTime + Post
  BY <1>1, <1>2, Parameters
<1>4. active # None => /\ WindowOk(w) /\ w # None /\ w.name = active.name
                       /\ w.parts = active.parts /\ w.end <= now
  BY <1>1, <1>2, <1>3, NewEnd
<1>5. active = None => WindowOk(w) /\ w.parts = {} /\ w.end <= now
  <2>1. None.parts = {} /\ None.end = 0
    BY DEF None
  <2> QED BY <1>1, <2>1, NoneOk
<1>6. /\ Protect(w) /\ pc \in {"due", "done"} /\ pc' = "finish" /\ stopping' = TRUE
      /\ UNCHANGED <<closedUntil, buffer, catalog, videos, now, marker, gaps>>
  BY DEF Stop
<1>7. stops' \in 0 .. MaxStops
  BY Parameters DEF Stop, RecorderIInv, EventTypeOK
<1>8. owed' \cup keptOut' \subseteq 0 .. now
  BY DEF Stop, RecorderIInv, EventTypeOK
<1> HIDE DEF w
<1> QED BY <1>4, <1>5, <1>6, <1>7, <1>8, ProtectIInv

\* Steps that change neither windows nor files, and lead to no point that promises
\* more.
LEMMA QuietIInv ==
  ASSUME RecorderIInv, EventTypeOK', PhaseOk',
         UNCHANGED <<memory, disk, now>>,
         marker' = NoMarker \/ marker'.id > 0,
         pc = "off" => pc' = "off",
         pc' \in {"finish", "expire"} => pc \in {"finish", "expire"},
         pc' = "release" => pc = "release" \/ active.parts = {}
  PROVE  RecorderIInv'
<1> USE DEF RecorderIInv, memory, disk
<1>1. WindowsOk'
  BY DEF WindowsOk, WindowOk
<1>2. Continues' /\ Linked' /\ Protected'
  BY DEF Continues, Linked, Links, Protected, Overlapping
<1>3. Joined' /\ HasVideo'
  BY DEF Joined, VideoHas, HasVideo
<1> QED BY <1>1, <1>2, <1>3

\* A window that is ready is over.
LEMMA ReadyIsOver ==
  ASSUME RecorderIInv, Ready \/ Empty
  PROVE  active # None /\ active \in Window /\ End(active) \in 0 .. now
<1>1. active # None /\ active \in Window /\ now \in Nat
  BY Parameters DEF RecorderIInv, EventTypeOK, Ready, Empty
<1>2. End(active) \in Nat /\ End(active) <= active.end /\ active.end \in Nat
  BY <1>1, EndFacts, WindowFields
<1>3. stopping \/ now >= End(active) \/ now > End(active) + Grace
  BY DEF Ready, Empty, GraceOver
<1>4. stopping => active.end <= now
  BY DEF RecorderIInv, PhaseOk
<1> QED BY <1>1, <1>2, <1>3, <1>4, Parameters

LEMMA GiveUpIInv ==
  ASSUME RecorderIInv, GiveUp
  PROVE  RecorderIInv'
<1>1. UNCHANGED <<memory, disk, environment, stopping, owed, keptOut>> /\ pc = "finish"
      /\ pc' = "release" /\ active.parts = {}
  BY DEF GiveUp, Empty, history
<1>2. active # None /\ End(active) \in 0 .. now
  BY ReadyIsOver DEF GiveUp
<1>3. EventTypeOK'
  BY <1>1 DEF RecorderIInv, EventTypeOK, memory, disk, environment
<1>4. PhaseOk'
  <2>1. End(active)' = End(active) /\ now \in Nat
    BY <1>1, Parameters DEF RecorderIInv, EventTypeOK, End, memory
  <2> QED BY <1>1, <1>2, <2>1 DEF RecorderIInv, PhaseOk, memory, environment
<1> QED BY <1>1, <1>3, <1>4, QuietIInv DEF RecorderIInv, WindowsOk, environment

LEMMA NotYetIInv ==
  ASSUME RecorderIInv, NotYet
  PROVE  RecorderIInv'
<1>1. UNCHANGED <<memory, disk, environment, stopping>> /\ pc = "finish" /\ pc' = "expire"
  BY DEF NotYet
<1>2. owed' = owed /\ keptOut' \subseteq keptOut \cup owed
  BY DEF NotYet
<1>3. EventTypeOK'
  BY <1>1, <1>2 DEF RecorderIInv, EventTypeOK, memory, disk, environment
<1>4. stopping => active = None
  BY DEF NotYet, Ready, Empty, GraceOver
<1>5. PhaseOk'
  BY <1>1, <1>4 DEF RecorderIInv, PhaseOk, memory, environment
<1> QED BY <1>1, <1>3, <1>5, QuietIInv DEF RecorderIInv, WindowsOk, environment

\* The video of a window has all its parts up to the end, and all the buffer has.
LEMMA JoinIInv ==
  ASSUME RecorderIInv, Join
  PROVE  RecorderIInv'
<1> USE DEF RecorderIInv
<1>1. /\ UNCHANGED <<memory, buffer, catalog, staged, environment, stopping>>
      /\ pc = "finish" /\ pc' = "release"
  BY DEF Join
<1>2. active # None /\ active \in Window /\ End(active) \in 0 .. now
  BY ReadyIsOver DEF Join
<1>3. /\ WindowOk(active) /\ now \in 0 .. MaxTime /\ now \in Nat
      /\ active.name \in Names /\ active.start \in Nat
      /\ active.parts \subseteq active.start .. now - 1
  BY <1>2, WindowFields, Parameters DEF WindowsOk, WindowOk, EventTypeOK
<1> DEFINE video == [name |-> active.name, end |-> End(active), parts |-> Selected]
<1>4. Selected \subseteq active.parts /\ Selected \subseteq 0 .. now - 1
  BY <1>3 DEF Selected
<1>5. video \in [name : Names, end : 0 .. now, parts : SUBSET (0 .. now - 1)]
  BY <1>2, <1>3, <1>4
<1>6. video.name = active.name /\ video.end = End(active) /\ video.parts = Selected
  OBVIOUS
<1> HIDE DEF video
<1>7. \/ (\E other \in videos : other.name = active.name) /\ videos' = videos
      \/ videos' = videos \cup {video}
  BY DEF Join, video
<1>8. owed' \subseteq owed /\ keptOut' = keptOut
  BY DEF Join
<1>9. EventTypeOK'
  <2>1. videos' \subseteq [name : Names, end : 0 .. now, parts : SUBSET (0 .. now - 1)]
    BY <1>5, <1>7 DEF EventTypeOK
  <2> QED BY <1>1, <1>8, <2>1 DEF EventTypeOK, memory, environment
<1>10. WindowsOk' /\ Continues' /\ Linked' /\ Protected'
  BY <1>1 DEF WindowsOk, WindowOk, Continues, Linked, Links, Protected, memory, environment
<1>11. PhaseOk'
  <2>1. End(active)' = End(active) /\ now \in Nat
    BY <1>1, <1>3 DEF End, memory
  <2> QED BY <1>1, <1>2, <2>1 DEF PhaseOk, memory, environment
<1>12. HasVideo'
  BY <1>1, <1>6, <1>7 DEF HasVideo, memory
<1>13. Joined'
  <2>1. VideoHas(active.parts, video)
    <3> SUFFICES ASSUME NEW t \in active.parts, t < video.end PROVE t \in video.parts
      BY DEF VideoHas
    <3>1. t \in Int /\ End(active) \in Int
      BY <1>2, <1>3
    <3> QED BY <1>6, <3>1 DEF Selected
  <2>2. active.name = catalog.active.name => VideoHas(catalog.active.parts, video)
    <3>1. CASE catalog.active = None
      BY <3>1 DEF VideoHas, None
    <3>2. CASE catalog.active # None
      BY <1>1, <2>1, <3>2 DEF Continues, VideoHas
    <3> QED BY <3>1, <3>2
  <2>3. VideoHas({t \in buffer : video.name[2] <= t}, video)
    <3> SUFFICES ASSUME NEW t \in buffer, video.name[2] <= t, t < video.end
                 PROVE  t \in video.parts
      BY DEF VideoHas
    <3>1. t \in Int /\ active.start <= t
      BY <1>3, <1>6 DEF EventTypeOK, WindowOk
    <3>2. End(active) <= active.end /\ active.end \in Nat /\ End(active) \in Nat
      BY <1>2, EndFacts, WindowFields
    <3>3. t \in Overlapping(active)
      BY <1>3, <1>6, <3>1, <3>2 DEF Overlapping
    <3>4. t \in active.parts
      BY <1>1, <1>2, <3>3 DEF Protected
    <3> QED BY <2>1, <3>4 DEF VideoHas
  <2>4. \A v \in videos' :
          /\ VideoHas({t \in buffer : v.name[2] <= t}, v)
          /\ active.name = v.name => VideoHas(active.parts, v)
          /\ catalog.active.name = v.name => VideoHas(catalog.active.parts, v)
    BY <1>6, <1>7, <2>1, <2>2, <2>3 DEF Joined
  <2> QED BY <1>1, <2>4 DEF Joined, VideoHas, memory
<1> QED BY <1>9, <1>10, <1>11, <1>12, <1>13

LEMMA ReleaseIInv ==
  ASSUME RecorderIInv, Release
  PROVE  RecorderIInv'
<1> USE DEF RecorderIInv
<1>1. /\ UNCHANGED <<memory, buffer, staged, videos, environment, stopping>>
      /\ pc = "release" /\ pc' = "remove"
      /\ catalog' = [active |-> None, closedUntil |-> End(active)]
  BY DEF Release
<1>2. active # None /\ End(active) \in 0 .. now /\ now \in 0 .. MaxTime /\ now \in Nat
  <2>1. active \in Window /\ active # None /\ End(active) <= now /\ now \in 0 .. MaxTime
    BY <1>1 DEF PhaseOk, EventTypeOK
  <2> QED BY <2>1, EndFacts, Parameters
<1>3. /\ catalog'.active = None /\ catalog'.closedUntil = End(active)
      /\ WindowOk(None) /\ None \in Window /\ None.parts = {}
  BY <1>1, <1>2, NoneOk DEF WindowOk, None
<1>4. EventTypeOK'
  BY <1>1, <1>2, <1>3 DEF EventTypeOK, Release, memory, environment
<1>5. WindowsOk'
  BY <1>1, <1>3 DEF WindowsOk, WindowOk, memory, environment
<1>6. PhaseOk'
  <2>1. End(active)' = End(active)
    BY <1>1 DEF End, memory
  <2> QED BY <1>1, <1>2, <1>3, <2>1 DEF PhaseOk, memory, environment
<1>7. Linked' /\ Continues' /\ Protected' /\ HasVideo'
  BY <1>1, <1>3 DEF Linked, Links, Continues, Protected, HasVideo, memory
<1>8. Joined'
  BY <1>1, <1>3 DEF Joined, VideoHas, memory
<1> QED BY <1>4, <1>5, <1>6, <1>7, <1>8

LEMMA RemoveIInv ==
  ASSUME RecorderIInv, Remove
  PROVE  RecorderIInv'
<1> USE DEF RecorderIInv
<1>1. /\ UNCHANGED <<buffer, catalog, environment, stopping, owed, keptOut>>
      /\ pc = "remove" /\ pc' = "expireDue"
      /\ active' = None /\ closedUntil' = End(active)
      /\ staged' \subseteq staged /\ videos' \subseteq videos
  BY DEF Remove, history
<1>2. End(active) \in 0 .. now /\ now \in 0 .. MaxTime /\ now \in Nat
  <2>1. active \in Window /\ End(active) <= now /\ now \in 0 .. MaxTime
    BY <1>1 DEF PhaseOk, EventTypeOK
  <2> QED BY <2>1, EndFacts, Parameters
<1>3. /\ WindowOk(None) /\ None \in Window /\ None.parts = {} /\ None.end = 0
      /\ catalog.active = None
  BY <1>1, <1>2, NoneOk DEF WindowOk, None, PhaseOk
<1>4. EventTypeOK'
  BY <1>1, <1>2, <1>3 DEF EventTypeOK, environment
<1>5. WindowsOk' /\ PhaseOk'
  BY <1>1, <1>2, <1>3 DEF WindowsOk, WindowOk, PhaseOk, environment
<1>6. Linked' /\ Continues' /\ Protected' /\ HasVideo'
  BY <1>1, <1>3 DEF Linked, Links, Continues, Protected, HasVideo
<1>7. Joined'
  BY <1>1, <1>3 DEF Joined, VideoHas
<1> QED BY <1>4, <1>5, <1>6, <1>7

\* The buffer may lose segments ...
LEMMA UnlinkIInv ==
  ASSUME RecorderIInv, Unlink
  PROVE  RecorderIInv'
<1> USE DEF RecorderIInv
<1>1. /\ UNCHANGED <<memory, catalog, staged, videos, environment, pc, stopping, owed,
                     keptOut>>
      /\ buffer' \subseteq buffer
  BY DEF Unlink, history
<1>2. EventTypeOK' /\ WindowsOk'
  BY <1>1 DEF EventTypeOK, WindowsOk, WindowOk, memory, environment
<1>3. PhaseOk'
  <2>1. End(active)' = End(active)
    BY <1>1 DEF End, memory
  <2> QED BY <1>1, <2>1 DEF PhaseOk, memory, environment
<1>4. Linked' /\ Continues' /\ Protected' /\ HasVideo'
  BY <1>1 DEF Linked, Links, Continues, Protected, Overlapping, HasVideo, memory
<1>5. Joined'
  BY <1>1 DEF Joined, VideoHas, memory
<1> QED BY <1>2, <1>3, <1>4, <1>5

\* ... and what the catalog has from now on is linked.
LEMMA PersistIInv ==
  ASSUME RecorderIInv, Persist
  PROVE  RecorderIInv'
<1> USE DEF RecorderIInv
<1>1. /\ UNCHANGED <<memory, buffer, staged, videos, environment, owed, keptOut>>
      /\ pc \in {"expire", "expireDue"} /\ pc' \in {"off", "due", "done"}
      /\ catalog' = [active |-> active, closedUntil |-> closedUntil]
      /\ stopping' = FALSE
      /\ pc' = "off" => stopping
  BY DEF Persist, history
<1>2. catalog'.active = active /\ catalog'.closedUntil = closedUntil
  BY <1>1
<1>3. EventTypeOK'
  BY <1>1, <1>2 DEF EventTypeOK, memory, environment
<1>4. WindowsOk'
  BY <1>1, <1>2 DEF WindowsOk, WindowOk, memory, environment
<1>5. PhaseOk'
  BY <1>1 DEF PhaseOk, memory
<1>6. Linked' /\ Continues' /\ Protected' /\ HasVideo'
  BY <1>1, <1>2 DEF Linked, Links, Continues, Protected, HasVideo, memory
<1>7. Joined'
  BY <1>1, <1>2 DEF Joined, VideoHas, memory
<1> QED BY <1>3, <1>4, <1>5, <1>6, <1>7

LEMMA StartIInv ==
  ASSUME RecorderIInv, Start
  PROVE  RecorderIInv'
<1> USE DEF RecorderIInv
<1>1. /\ UNCHANGED <<disk, environment, stopping, owed, keptOut>>
      /\ pc = "off" /\ pc' = "due"
      /\ active' = catalog.active /\ closedUntil' = catalog.closedUntil
  BY DEF Start, history
<1>2. EventTypeOK' /\ WindowsOk'
  BY <1>1 DEF EventTypeOK, WindowsOk, WindowOk, disk, environment
<1>3. PhaseOk'
  BY <1>1 DEF PhaseOk
<1>4. Linked' /\ Continues' /\ Protected' /\ HasVideo'
  BY <1>1 DEF Linked, Links, Continues, Protected, HasVideo, disk
<1>5. Joined'
  BY <1>1 DEF Joined, VideoHas, disk
<1> QED BY <1>2, <1>3, <1>4, <1>5

LEMMA DieIInv ==
  ASSUME RecorderIInv, Die
  PROVE  RecorderIInv'
<1> USE DEF RecorderIInv
<1>1. /\ UNCHANGED <<disk, now, marker, gaps>> /\ pc' = "off" /\ stopping' = FALSE
      /\ active' = None /\ closedUntil' = 0 /\ owed' \subseteq owed /\ keptOut' = keptOut
  BY DEF Die
<1>2. now \in 0 .. MaxTime /\ now \in Nat
  BY Parameters DEF EventTypeOK
<1>3. WindowOk(None) /\ None \in Window /\ None.parts = {}
  BY <1>2, NoneOk DEF WindowOk, None
<1>4. stops' \in 0 .. MaxStops
  BY Parameters DEF Die, EventTypeOK
<1>5. EventTypeOK' /\ WindowsOk'
  <2>1. closedUntil' \in 0 .. now' /\ owed' \cup keptOut' \subseteq 0 .. now'
    BY <1>1, <1>2 DEF EventTypeOK
  <2>2. EventTypeOK'
    BY <1>1, <1>2, <1>3, <1>4, <2>1 DEF EventTypeOK, disk
  <2>3. WindowsOk'
    BY <1>1, <1>3 DEF WindowsOk, WindowOk, disk
  <2> QED BY <2>2, <2>3
<1>6. PhaseOk' /\ Linked' /\ Continues' /\ Protected' /\ HasVideo'
  BY <1>1, <1>3 DEF PhaseOk, Linked, Links, Continues, Protected, HasVideo, disk
<1>7. Joined'
  BY <1>1, <1>3 DEF Joined, VideoHas, disk
<1> QED BY <1>5, <1>6, <1>7

\* The markers of the analysis.
LEMMA MarkerIInv ==
  ASSUME RecorderIInv, ConfirmAgain \/ Clear \/ \E first \in {now, now - 1} \cap Nat : ConfirmNew(first)
  PROVE  RecorderIInv'
<1> USE DEF RecorderIInv
<1>1. UNCHANGED <<memory, disk, now, gaps, stops, pc, stopping>>
  BY DEF ConfirmAgain, Clear, ConfirmNew
<1>2. now \in 0 .. MaxTime /\ now \in Nat
  BY Parameters DEF EventTypeOK
<1>3. owed' \subseteq owed \cup {now} /\ keptOut' = keptOut
  BY DEF ConfirmAgain, Clear, ConfirmNew
<1> DEFINE Markers == [id : 0 .. MaxTime, first : 0 .. now, last : 0 .. now]
<1>4. marker' \in Markers /\ (marker' = NoMarker \/ marker'.id > 0)
  <2>1. CASE ConfirmAgain
    <3>1. marker' = [marker EXCEPT !.last = now] /\ marker # NoMarker
      BY <2>1 DEF ConfirmAgain
    <3>2. marker \in Markers /\ marker.id > 0
      BY <3>1 DEF EventTypeOK, WindowsOk
    <3>3. marker' \in Markers /\ marker'.id = marker.id
      BY <1>2, <3>1, <3>2
    <3> QED BY <3>2, <3>3
  <2>2. CASE Clear
    <3>1. NoMarker \in Markers
      BY <1>2, Parameters DEF NoMarker
    <3> QED BY <2>2, <3>1 DEF Clear
  <2>3. CASE \E first \in {now, now - 1} \cap Nat : ConfirmNew(first)
    <3>1. PICK first \in {now, now - 1} \cap Nat :
            marker' = [id |-> now + 1, first |-> first, last |-> now] /\ now < MaxTime
      BY <2>3 DEF ConfirmNew
    <3>2. now + 1 \in 0 .. MaxTime /\ now + 1 > 0 /\ first \in 0 .. now /\ now \in 0 .. now
      BY <1>2, <3>1, Parameters
    <3> QED BY <3>1, <3>2
  <2> QED BY <2>1, <2>2, <2>3
<1>5. EventTypeOK'
  BY <1>1, <1>2, <1>3, <1>4 DEF EventTypeOK, memory, disk
<1>6. PhaseOk'
  <2>1. End(active)' = End(active)
    BY <1>1 DEF End, memory
  <2> QED BY <1>1, <2>1 DEF PhaseOk, memory, disk
<1>7. pc \notin {"release"} /\ pc' = pc
  BY <1>1 DEF ConfirmAgain, Clear, ConfirmNew, BetweenUpdates
<1> QED BY <1>1, <1>4, <1>5, <1>6, <1>7, QuietIInv

\* Time passes between updates only.
LEMMA TickIInv ==
  ASSUME RecorderIInv, NEW recorded \in BOOLEAN, Tick(recorded)
  PROVE  RecorderIInv'
<1> USE DEF RecorderIInv
<1>1. /\ UNCHANGED <<memory, catalog, staged, videos, stops, stopping>>
      /\ pc \in {"done", "off"} /\ pc' = (IF pc = "done" THEN "due" ELSE "off")
      /\ now < MaxTime /\ now' = now + 1
      /\ buffer' \subseteq buffer \cup {now} /\ owed' \subseteq owed /\ keptOut' = keptOut
      /\ marker' = marker \/ marker' = NoMarker
  BY DEF Tick
<1>2. now \in 0 .. MaxTime /\ now \in Nat /\ now' \in 0 .. MaxTime /\ now' \in Nat
  BY <1>1, Parameters DEF EventTypeOK
<1>3. gaps' \in 0 .. MaxGaps
  BY Parameters DEF Tick, EventTypeOK
<1>4. 0 .. now \subseteq 0 .. now' /\ 0 .. now - 1 \subseteq 0 .. now' - 1 /\ now \in 0 .. now' - 1
  BY <1>1, <1>2
<1>5. EventTypeOK'
  <2>1. buffer' \subseteq 0 .. now' - 1 /\ owed' \cup keptOut' \subseteq 0 .. now'
    BY <1>1, <1>4 DEF EventTypeOK
  <2>2. marker' \in [id : 0 .. MaxTime, first : 0 .. now', last : 0 .. now']
    <3>1. NoMarker \in [id : 0 .. MaxTime, first : 0 .. now', last : 0 .. now']
      BY <1>2, Parameters DEF NoMarker
    <3>2. marker \in [id : 0 .. MaxTime, first : 0 .. now', last : 0 .. now']
      BY <1>4 DEF EventTypeOK
    <3> QED BY <1>1, <3>1, <3>2
  <2>3. /\ staged \subseteq [name : Names, part : 0 .. now' - 1]
        /\ videos \subseteq [name : Names, end : 0 .. now', parts : SUBSET (0 .. now' - 1)]
    BY <1>4 DEF EventTypeOK
  <2>4. {closedUntil, catalog.closedUntil} \subseteq 0 .. now'
    BY <1>4 DEF EventTypeOK
  <2> QED BY <1>1, <1>2, <1>3, <2>1, <2>2, <2>3, <2>4 DEF EventTypeOK, memory
<1>6. WindowsOk'
  <2>1. ASSUME NEW w, WindowOk(w)
        PROVE  w.parts \subseteq w.start .. now' - 1 /\ w.start <= now'
    <3>1. w.start \in Nat
      BY <2>1, WindowFields DEF WindowOk
    <3> QED BY <1>1, <1>2, <2>1, <3>1 DEF WindowOk
  <2> QED BY <1>1, <2>1 DEF WindowsOk, WindowOk, memory
<1>7. PhaseOk'
  BY <1>1 DEF PhaseOk, memory
<1>8. Continues' /\ Linked' /\ Protected' /\ HasVideo'
  BY <1>1 DEF Continues, Linked, Links, Protected, HasVideo, memory
<1>9. Joined'
  <2>1. \A v \in videos : v.end \in 0 .. now
    BY DEF EventTypeOK
  <2> QED BY <1>1, <1>2, <2>1 DEF Joined, VideoHas, memory
<1> QED BY <1>5, <1>6, <1>7, <1>8, <1>9

LEMMA RecorderNextIInv ==
  ASSUME RecorderIInv, [Next]_vars
  PROVE  RecorderIInv'
<1>1. CASE Follow \/ Stop \/ Join \/ GiveUp \/ NotYet
  BY <1>1, FollowIInv, StopIInv, JoinIInv, GiveUpIInv, NotYetIInv
<1>2. CASE Release \/ Remove \/ Unlink \/ Persist \/ Start \/ Die
  BY <1>2, ReleaseIInv, RemoveIInv, UnlinkIInv, PersistIInv, StartIInv, DieIInv
<1>3. CASE ConfirmAgain \/ Clear \/ \E first \in {now, now - 1} \cap Nat : ConfirmNew(first)
  BY <1>3, MarkerIInv
<1>4. CASE \E recorded \in BOOLEAN : Tick(recorded)
  BY <1>4, TickIInv
<1>5. CASE UNCHANGED vars
  <2> USE DEF RecorderIInv
  <2>1. UNCHANGED <<memory, disk, now, marker, gaps, stops, pc, stopping, owed,
                    keptOut>>
    BY <1>5 DEF vars, environment, history
  <2>2. EventTypeOK'
    BY <2>1 DEF EventTypeOK, memory, disk
  <2>3. End(active)' = End(active)
    BY <2>1 DEF End, memory
  <2>4. PhaseOk'
    BY <2>1, <2>3 DEF PhaseOk, memory, disk
  <2> QED BY <2>1, <2>2, <2>4, QuietIInv DEF WindowsOk
<1> QED BY <1>1, <1>2, <1>3, <1>4, <1>5 DEF Next

THEOREM RecorderInvariant == Spec => []RecorderIInv
<1>1. RecorderIInv /\ [Next]_vars => RecorderIInv'
  BY RecorderNextIInv
<1> QED BY <1>1, RecorderInitIInv, PTL DEF Spec

\* Types; times are never ahead of now, but for the end of a window.
THEOREM EventTypeCorrect == Spec => []EventTypeOK
<1>1. RecorderIInv => EventTypeOK
  BY DEF RecorderIInv
<1> QED BY <1>1, RecorderInvariant, PTL

\* Whenever the recorder dies, what catalog.json calls part of a window stays linked
\* until it is in a video; but for Unjoined, the times after the end of a video that
\* was made of the window before a death and found there again.
THEOREM EventPartsSaved == Spec => PartsSaved
<1> DEFINE Saved(t) ==
      \/ /\ catalog'.active.name = catalog.active.name
         /\ t \in catalog'.active.parts
         /\ [name |-> catalog.active.name, part |-> t] \in staged'
      \/ \E video \in videos' : t \in video.parts
      \/ Unjoined(t, catalog.active)
<1>1. ASSUME RecorderIInv, [Next]_vars, NEW t \in catalog.active.parts
      PROVE  Saved(t)
  <2> USE <1>1 DEF RecorderIInv
  <2>1. catalog.active # None
    BY <1>1 DEF None
  <2>2. [name |-> catalog.active.name, part |-> t] \in staged
    BY DEF Linked, Links
  <2>3. CASE catalog' = catalog /\ staged \subseteq staged'
    BY <2>2, <2>3
  <2>4. CASE Remove
    BY <2>1, <2>4 DEF Remove, PhaseOk
  <2>5. CASE Persist
    <3>1. pc = "expire"
      BY <2>1, <2>5 DEF Persist, PhaseOk
    <3>2. active.name = catalog.active.name /\ t \in active.parts
      BY <2>1, <3>1 DEF Continues
    <3>3. catalog'.active = active /\ staged' = staged
      BY <2>5 DEF Persist
    <3> QED BY <2>2, <3>2, <3>3
  <2>6. CASE Release
    <3>1. pc = "release" /\ videos' = videos
      BY <2>6 DEF Release
    <3>2. active.name = catalog.active.name /\ t \in active.parts
      BY <2>1, <3>1 DEF Continues
    <3>3. PICK video \in videos : video.name = active.name
      BY <3>1, <3>2 DEF HasVideo
    <3>4. t < video.end => t \in video.parts
      BY <3>2, <3>3 DEF Joined, VideoHas
    <3>5. video.end \in Int /\ t \in Int
      <4>1. t \in catalog.active.start .. now - 1
        BY DEF WindowsOk, WindowOk
      <4> QED BY <4>1 DEF EventTypeOK
    <3> QED BY <3>1, <3>2, <3>3, <3>4, <3>5 DEF Unjoined
  <2>7. CASE Follow \/ Stop
    <3>1. \E w : Protect(w) /\ catalog' = catalog
      BY <2>7 DEF Follow, Stop
    <3> QED BY <2>3, <3>1 DEF Protect
  <2>8. CASE Join \/ GiveUp \/ NotYet \/ Unlink \/ Start \/ Die
    BY <2>3, <2>8 DEF Join, GiveUp, NotYet, Unlink, Start, Die, disk
  <2>9. CASE ConfirmAgain \/ Clear \/ \E first \in {now, now - 1} \cap Nat : ConfirmNew(first)
    BY <2>3, <2>9 DEF ConfirmAgain, Clear, ConfirmNew, disk
  <2>10. CASE \E recorded \in BOOLEAN : Tick(recorded)
    BY <2>3, <2>10 DEF Tick
  <2>11. CASE UNCHANGED vars
    BY <2>3, <2>11 DEF vars, disk
  <2> QED BY <2>4, <2>5, <2>6, <2>7, <2>8, <2>9, <2>10, <2>11 DEF Next
<1>2. RecorderIInv /\ [Next]_vars =>
        [\A t \in catalog.active.parts : LET window == catalog.active IN
           \/ /\ catalog'.active.name = window.name
              /\ t \in catalog'.active.parts
              /\ [name |-> window.name, part |-> t] \in staged'
           \/ \E video \in videos' : t \in video.parts
           \/ Unjoined(t, window)]_vars
  BY <1>1
<1> QED BY <1>2, RecorderInvariant, PTL DEF Spec, PartsSaved

-----------------------------------------------------------------------------
(* Windows follow one another.                                             *)

\* A window begins where the last one closed, and not after its end.
Follows(window, closed) ==
  window # None => closed <= window.start /\ window.start <= window.end

AfterClosed ==
  /\ pc # "off" => catalog.closedUntil = (IF pc = "remove" THEN End(active) ELSE closedUntil)
  /\ Follows(active, closedUntil)
  /\ Follows(catalog.active, catalog.closedUntil)

\* A video that reaches beyond time t is one of the window that still has t, or the
\* windows were closed after t.
NotPassed(t, video) ==
  \/ video.end <= t
  \/ t < catalog.closedUntil
  \/ Pending # None /\ video.name = Pending.name /\ t < End(Pending)

OwedNotPassed == \A t \in owed : \A video \in videos : NotPassed(t, video)

ClosedIInv == AfterClosed /\ OwedNotPassed

\* The types of what the following lemmas compare.
LEMMA ClosedTypes ==
  ASSUME RecorderIInv
  PROVE  /\ now \in Nat /\ owed \subseteq 0 .. now
         /\ closedUntil \in Nat /\ catalog.closedUntil \in Nat
         /\ active \in Window /\ catalog.active \in Window
         /\ active.start \in Nat /\ active.end \in Nat /\ active.start <= now
         /\ End(active) \in Nat /\ End(active) <= active.end
         /\ active.start <= active.end => active.start <= End(active)
         /\ \A video \in videos : video.end \in Nat /\ video.end <= now
<1>1. /\ now \in Nat /\ owed \subseteq 0 .. now
      /\ closedUntil \in Nat /\ catalog.closedUntil \in Nat
      /\ active \in Window /\ catalog.active \in Window
      /\ \A video \in videos : video.end \in Nat /\ video.end <= now
  BY Parameters DEF RecorderIInv, EventTypeOK
<1>2. active.start \in Nat /\ active.end \in Nat /\ active.start <= now
  BY <1>1, WindowFields DEF RecorderIInv, WindowsOk, WindowOk
<1>3. /\ End(active) \in Nat /\ End(active) <= active.end
      /\ End(active) = active.end \/ End(active) = active.start + MaxLength
  BY <1>1, EndFacts
<1> QED BY <1>1, <1>2, <1>3, Parameters

\* A marker opens a window, or the window there is becomes longer.
LEMMA FollowClosed ==
  ASSUME RecorderIInv, RecorderIInv', ClosedIInv, Follow
  PROVE  ClosedIInv'
<1>1. /\ pc \in {"due", "done"} /\ pc' = "finish" /\ Protect(Triggered)
      /\ UNCHANGED <<closedUntil, catalog, videos, owed>>
  BY DEF Follow
<1>2. /\ WindowOk(Triggered) /\ Triggered \in Window
      /\ active # None => /\ Triggered # None
                          /\ Triggered.name = active.name
                          /\ Triggered.start = active.start
                          /\ active.end <= Triggered.end
      /\ active = None => Triggered = IF MarkerCounts THEN Opened ELSE None
  BY TriggeredOk DEF RecorderIInv, WindowOk
<1>3. /\ Triggered = None => active' = None
      /\ Triggered # None => /\ active' # None
                             /\ active'.name = Triggered.name
                             /\ active'.start = Triggered.start
                             /\ active'.end = Triggered.end
  BY <1>1, <1>2, ProtectOk DEF RecorderIInv
<1>4. active \in Window /\ active' \in Window
  BY DEF RecorderIInv, EventTypeOK
<1>5. Follows(active', closedUntil)
  <2>1. CASE active # None
    <3>1. /\ closedUntil <= active.start /\ active.start <= active.end
          /\ active'.start = active.start /\ active.end <= active'.end
      BY <1>2, <1>3, <2>1 DEF ClosedIInv, AfterClosed, Follows
    <3>2. active.start \in Nat /\ active.end \in Nat /\ active'.end \in Nat
      BY <1>4, WindowFields
    <3> QED BY <3>1, <3>2 DEF Follows
  <2>2. CASE active = None /\ MarkerCounts
    <3>1. /\ closedUntil <= MarkerStart /\ MarkerStart \in Int
          /\ MarkerStart < marker.last + Post /\ marker.last + Post \in Int
      BY <2>2, MarkerFacts DEF RecorderIInv, MarkerCounts
    <3>2. Triggered = Opened /\ Opened # None
      BY <1>2, <2>2, OpenedOk DEF RecorderIInv
    <3>3. active'.start = MarkerStart /\ active'.end = marker.last + Post
      BY <1>3, <3>2 DEF Opened
    <3> QED BY <3>1, <3>3 DEF Follows
  <2>3. CASE active = None /\ ~MarkerCounts
    BY <1>2, <1>3, <2>3 DEF Follows
  <2> QED BY <2>1, <2>2, <2>3
<1>6. AfterClosed'
  BY <1>1, <1>5 DEF ClosedIInv, AfterClosed, Follows
<1>7. ASSUME NEW t \in owed, NEW video \in videos
      PROVE  NotPassed(t, video)'
  <2>1. NotPassed(t, video) /\ t \in Int
    BY ClosedTypes DEF ClosedIInv, OwedNotPassed
  <2>2. CASE active # None /\ video.name = active.name /\ t < End(active)
    <3>1. t < End(active')
      <4>1. /\ End(active) \in Nat /\ End(active) <= active.end
            /\ End(active) <= active.start + MaxLength
            /\ End(active') \in Nat
            /\ End(active') = active'.end \/ End(active') = active'.start + MaxLength
        BY <1>4, EndFacts
      <4>2. active.end \in Nat /\ active'.end \in Nat /\ active.start \in Nat
        BY <1>4, WindowFields
      <4>3. active'.start = active.start /\ active.end <= active'.end
        BY <1>2, <1>3, <2>2
      <4> QED BY <2>1, <2>2, <4>1, <4>2, <4>3, Parameters
    <3>2. active' # None /\ video.name = active'.name
      BY <1>2, <1>3, <2>2
    <3>3. Pending' = active' /\ End(Pending)' = End(Pending')
      BY <1>1 DEF Pending, End
    <3> QED BY <3>1, <3>2, <3>3 DEF NotPassed
  <2>3. CASE video.end <= t \/ t < catalog.closedUntil
    BY <1>1, <2>3 DEF NotPassed
  <2> QED BY <1>1, <2>1, <2>2, <2>3 DEF NotPassed, Pending
<1> QED BY <1>1, <1>6, <1>7 DEF ClosedIInv, OwedNotPassed

\* A stop ends the window now at the latest, and owes nothing after.
LEMMA StopClosed ==
  ASSUME RecorderIInv, RecorderIInv', ClosedIInv, Stop
  PROVE  ClosedIInv'
<1>1. /\ pc = "done" /\ pc' = "finish" /\ owed' = {t \in owed : t < now}
      /\ UNCHANGED <<closedUntil, catalog, videos>>
  BY DEF Stop
<1>2. CASE active = None
  <2>1. active' = None
    BY <1>2 DEF Stop, Protect
  <2>2. AfterClosed'
    BY <1>1, <2>1 DEF ClosedIInv, AfterClosed, Follows
  <2>3. OwedNotPassed'
    BY <1>1, <1>2, <2>1 DEF ClosedIInv, OwedNotPassed, NotPassed, Pending
  <2> QED BY <2>2, <2>3 DEF ClosedIInv
<1>3. CASE active # None
  <2> DEFINE e == Min({active.end, now})
             w == [active EXCEPT !.end = e]
  <2>1. /\ active.end \in Nat /\ active.end <= MaxTime + Post /\ active.start \in Nat
        /\ WindowOk(active) /\ active \in Window /\ active' \in Window
        /\ now \in Nat /\ now <= MaxTime /\ active.start <= now
    BY WindowFields, Parameters DEF RecorderIInv, WindowsOk, WindowOk, EventTypeOK
  <2>2. e \in {active.end, now} /\ e <= active.end /\ e <= now
    <3>1. active.end \in Int /\ now \in Int
      BY <2>1
    <3> QED BY <3>1, MinOfTwo
  <2>3. e \in 0 .. MaxTime + Post
    BY <2>1, <2>2, Parameters
  <2>4. Protect(w)
    BY <1>3 DEF Stop
  <2> HIDE DEF e
  <2>5. /\ WindowOk(w) /\ w # None /\ w.name = active.name /\ w.start = active.start
        /\ w.end = e
    BY <1>3, <2>1, <2>3, NewEnd
  <2> HIDE DEF w
  <2>6. /\ active' # None /\ active'.name = active.name
        /\ active'.start = active.start /\ active'.end = e
    BY <2>4, <2>5, ProtectOk DEF RecorderIInv
  <2>7. closedUntil <= active.start /\ active.start <= active.end
    BY <1>3 DEF ClosedIInv, AfterClosed, Follows
  <2>8. AfterClosed'
    BY <1>1, <2>1, <2>2, <2>6, <2>7 DEF ClosedIInv, AfterClosed, Follows
  <2>9. ASSUME NEW t \in owed', NEW video \in videos'
        PROVE  NotPassed(t, video)'
    <3>1. NotPassed(t, video) /\ t \in Int /\ t < now
      BY <1>1, ClosedTypes DEF ClosedIInv, OwedNotPassed
    <3>2. CASE video.name = active.name /\ t < End(active)
      <4>1. /\ End(active) \in Nat /\ End(active) <= active.end
            /\ End(active) <= active.start + MaxLength
            /\ End(active') \in Nat
            /\ End(active') = active'.end \/ End(active') = active'.start + MaxLength
        BY <2>1, EndFacts
      <4>2. t < End(active')
        BY <2>1, <2>2, <2>6, <3>1, <3>2, <4>1, Parameters
      <4>3. Pending' = active' /\ End(Pending)' = End(Pending')
        BY <1>1 DEF Pending, End
      <4> QED BY <2>6, <3>2, <4>2, <4>3 DEF NotPassed
    <3> QED BY <1>1, <3>1, <3>2 DEF NotPassed, Pending
  <2> QED BY <2>8, <2>9 DEF ClosedIInv, OwedNotPassed
<1> QED BY <1>2, <1>3

\* The video of the window has what is owed before the window's end.
LEMMA JoinClosed ==
  ASSUME RecorderIInv, RecorderIInv', ClosedIInv, Join
  PROVE  ClosedIInv'
<1>1. /\ pc = "finish" /\ pc' = "release" /\ active # None /\ owed' \subseteq owed
      /\ UNCHANGED <<memory, catalog>>
      /\ \A video \in videos' : video \in videos \/ (/\ video.name = active.name
                                                     /\ video.end = End(active))
  BY DEF Join, Ready
<1>2. End(active)' = End(active) /\ Pending = active /\ Pending' = active
      /\ End(Pending)' = End(active)
  BY <1>1 DEF End, Pending, memory
<1>3. AfterClosed'
  BY <1>1, <1>2 DEF ClosedIInv, AfterClosed, Follows, memory
<1>4. ASSUME NEW t \in owed', NEW video \in videos'
      PROVE  NotPassed(t, video)'
  <2>1. CASE video \in videos
    BY <1>1, <1>2, <2>1 DEF ClosedIInv, OwedNotPassed, NotPassed
  <2>2. CASE video.name = active.name /\ video.end = End(active)
    <3>1. t \in Int /\ End(active) \in Int
      BY <1>1, ClosedTypes
    <3> QED BY <1>1, <1>2, <2>2, <3>1 DEF NotPassed
  <2> QED BY <1>1, <2>1, <2>2
<1> QED BY <1>3, <1>4 DEF ClosedIInv, OwedNotPassed

\* The window is closed at its end, after all that was closed before.
LEMMA ReleaseClosed ==
  ASSUME RecorderIInv, RecorderIInv', ClosedIInv, Release
  PROVE  ClosedIInv'
<1>1. /\ pc = "release" /\ pc' = "remove" /\ owed' \subseteq owed
      /\ UNCHANGED <<memory, videos>>
      /\ catalog'.active = None /\ catalog'.closedUntil = End(active)
  BY DEF Release
<1>2. active # None /\ End(active)' = End(active)
  BY <1>1 DEF RecorderIInv, PhaseOk, End, memory
<1>3. AfterClosed'
  BY <1>1, <1>2 DEF ClosedIInv, AfterClosed, Follows, memory
<1>4. /\ catalog.closedUntil \in Nat /\ End(active) \in Nat
      /\ catalog.closedUntil <= End(active)
  <2>1. /\ catalog.closedUntil = closedUntil /\ closedUntil <= active.start
        /\ active.start <= active.end
    BY <1>1, <1>2 DEF ClosedIInv, AfterClosed, Follows
  <2> QED BY <2>1, ClosedTypes
<1>5. ASSUME NEW t \in owed', NEW video \in videos'
      PROVE  NotPassed(t, video)'
  <2>1. NotPassed(t, video) /\ t \in Int /\ Pending = active
    BY <1>1, ClosedTypes DEF ClosedIInv, OwedNotPassed, Pending
  <2> QED BY <1>1, <1>4, <2>1 DEF NotPassed
<1> QED BY <1>3, <1>5 DEF ClosedIInv, OwedNotPassed

LEMMA RemoveClosed ==
  ASSUME RecorderIInv, RecorderIInv', ClosedIInv, Remove
  PROVE  ClosedIInv'
<1>1. /\ pc = "remove" /\ pc' = "expireDue" /\ active' = None /\ closedUntil' = End(active)
      /\ UNCHANGED <<catalog, owed>>
      /\ videos' = {video \in videos : video.name # active.name}
  BY DEF Remove, history
<1>2. catalog.closedUntil = End(active) /\ Pending = active /\ Pending' = None
  BY <1>1 DEF ClosedIInv, AfterClosed, Pending
<1>3. AfterClosed'
  BY <1>1, <1>2 DEF ClosedIInv, AfterClosed, Follows
<1>4. OwedNotPassed'
  BY <1>1, <1>2 DEF ClosedIInv, OwedNotPassed, NotPassed
<1> QED BY <1>3, <1>4 DEF ClosedIInv

\* The catalog has the window in memory, which is the one after a start.
LEMMA PersistClosed ==
  ASSUME RecorderIInv, RecorderIInv', ClosedIInv, Persist \/ Start
  PROVE  ClosedIInv'
<1>1. CASE Persist
  <2>1. /\ pc \in {"expire", "expireDue"} /\ pc' \in {"off", "due", "done"}
        /\ UNCHANGED <<memory, videos, owed>>
        /\ catalog'.active = active /\ catalog'.closedUntil = closedUntil
    BY <1>1 DEF Persist, history
  <2>2. Pending = active /\ Pending' = active /\ End(Pending)' = End(active)
    BY <2>1 DEF Pending, End, memory
  <2>3. AfterClosed'
    BY <2>1 DEF ClosedIInv, AfterClosed, Follows, memory
  <2>4. catalog.closedUntil = closedUntil
    BY <2>1 DEF ClosedIInv, AfterClosed
  <2>5. OwedNotPassed'
    BY <2>1, <2>2, <2>4 DEF ClosedIInv, OwedNotPassed, NotPassed
  <2> QED BY <2>3, <2>5 DEF ClosedIInv
<1>2. CASE Start
  <2>1. /\ pc = "off" /\ pc' = "due" /\ UNCHANGED <<catalog, videos, owed>>
        /\ active' = catalog.active /\ closedUntil' = catalog.closedUntil
    BY <1>2 DEF Start, disk, history
  <2>2. Pending' = Pending /\ End(Pending)' = End(Pending)
    BY <2>1 DEF Pending, End
  <2>3. AfterClosed'
    BY <2>1 DEF ClosedIInv, AfterClosed, Follows
  <2>4. OwedNotPassed'
    BY <2>1, <2>2 DEF ClosedIInv, OwedNotPassed, NotPassed
  <2> QED BY <2>3, <2>4 DEF ClosedIInv
<1> QED BY <1>1, <1>2

\* What is owed after a death was within the window of the catalog.
LEMMA DieClosed ==
  ASSUME RecorderIInv, RecorderIInv', ClosedIInv, Die
  PROVE  ClosedIInv'
<1>1. /\ pc # "off" /\ pc' = "off" /\ active' = None /\ UNCHANGED <<catalog, videos>>
      /\ owed' \subseteq {t \in owed : Within(t, catalog.active)}
  BY DEF Die, disk
<1>2. AfterClosed'
  BY <1>1 DEF ClosedIInv, AfterClosed, Follows
<1>3. ASSUME NEW t \in owed', NEW video \in videos'
      PROVE  NotPassed(t, video)'
  <2>1. NotPassed(t, video) /\ Pending = active
    BY <1>1 DEF ClosedIInv, OwedNotPassed, Pending
  <2>2. catalog.active # None /\ t < End(catalog.active)
    BY <1>1 DEF Within
  <2>3. active.name = catalog.active.name
    BY <1>1, <2>2 DEF RecorderIInv, Continues
  <2>4. Pending' = catalog.active /\ End(Pending)' = End(catalog.active)
    BY <1>1 DEF Pending, End
  <2> QED BY <1>1, <2>1, <2>2, <2>3, <2>4 DEF NotPassed
<1> QED BY <1>2, <1>3 DEF ClosedIInv, OwedNotPassed

\* The other steps close no window; what is confirmed now is after all videos.
LEMMA QuietClosed ==
  ASSUME RecorderIInv, ClosedIInv,
         UNCHANGED <<memory, catalog, videos>>,
         owed' \subseteq owed \cup {now},
         pc' = "off" <=> pc = "off", pc' = "remove" <=> pc = "remove"
  PROVE  ClosedIInv'
<1>1. End(active)' = End(active) /\ Pending' = Pending /\ End(Pending)' = End(Pending)
  BY DEF End, Pending, memory
<1>2. AfterClosed'
  BY <1>1 DEF ClosedIInv, AfterClosed, Follows, memory
<1>3. ASSUME NEW t \in owed', NEW video \in videos'
      PROVE  NotPassed(t, video)'
  <2>1. t = now => video.end <= t
    BY ClosedTypes
  <2>2. t \in owed => NotPassed(t, video)
    BY DEF ClosedIInv, OwedNotPassed
  <2> QED BY <1>1, <2>1, <2>2 DEF NotPassed
<1> QED BY <1>2, <1>3 DEF ClosedIInv, OwedNotPassed

LEMMA ClosedNextIInv ==
  ASSUME RecorderIInv, RecorderIInv', ClosedIInv, [Next]_vars
  PROVE  ClosedIInv'
<1>1. CASE Follow \/ Stop \/ Join \/ Release \/ Remove \/ Persist \/ Start \/ Die
  BY <1>1, FollowClosed, StopClosed, JoinClosed, ReleaseClosed, RemoveClosed, PersistClosed,
     DieClosed
<1>2. CASE GiveUp \/ NotYet \/ Unlink
  BY <1>2, QuietClosed DEF GiveUp, NotYet, Unlink, disk, history
<1>3. CASE ConfirmAgain \/ Clear \/ \E first \in {now, now - 1} \cap Nat : ConfirmNew(first)
  <2>1. UNCHANGED <<memory, catalog, videos, pc>> /\ owed' \subseteq owed \cup {now}
    BY <1>3 DEF ConfirmAgain, Clear, ConfirmNew, disk
  <2> QED BY <2>1, QuietClosed
<1>4. CASE \E recorded \in BOOLEAN : Tick(recorded)
  <2>1. /\ UNCHANGED <<memory, catalog, videos>> /\ owed' \subseteq owed
        /\ pc \in {"done", "off"} /\ pc' = (IF pc = "done" THEN "due" ELSE "off")
    BY <1>4 DEF Tick
  <2> QED BY <2>1, QuietClosed
<1>5. CASE UNCHANGED vars
  BY <1>5, QuietClosed DEF vars, disk, history
<1> QED BY <1>1, <1>2, <1>3, <1>4, <1>5 DEF Next

\* Windows follow one another, and what is still owed was not passed over.
THEOREM ClosedInvariant == Spec => []ClosedIInv
<1>1. Init => ClosedIInv
  BY DEF Init, ClosedIInv, AfterClosed, Follows, OwedNotPassed
<1>2. RecorderIInv /\ RecorderIInv' /\ ClosedIInv /\ [Next]_vars => ClosedIInv'
  BY ClosedNextIInv
<1> QED BY <1>1, <1>2, RecorderInvariant, PTL DEF Spec

-----------------------------------------------------------------------------
(* The confirmed anomalies.  An update comes at least once per unit of time, *)
(* so a window has to begin a unit before what it is for and to end a unit  *)
(* after the segment of it, or the marker may be gone unseen.  And one that *)
(* begins with the oldest segment has to reach to the newest.               *)

WideWindow == Pre >= 1 /\ Post >= 2 /\ MaxLength > Keep

\* The marker still asks for a window with time t.
Marked(t) ==
  /\ marker # NoMarker
  /\ marker.first - Pre <= t /\ t <= marker.last
  /\ now - 1 <= t
  /\ t \in buffer \/ t = now

\* Nothing that has been closed, in memory or on disk, was to have it.
NotClosed(t) ==
  /\ catalog.closedUntil <= t
  /\ pc # "off" => closedUntil <= t /\ (active # None => active.start <= t)

\* Where an anomaly that is owed lies in each phase: it is in the window once
\* update() has decided to keep that, and not in a window that is released.
AtPhase(t) ==
  /\ pc = "finish" => active # None
  /\ pc = "expire" => Within(t, active)
  /\ pc = "done" => Within(t, active) \/ t = now
  /\ pc = "off" => Within(t, catalog.active)
  /\ pc = "release" => End(active) <= t \/ Unjoined(t, active)
  /\ pc = "remove" => End(active) <= t
  /\ stopping => pc \in {"finish", "release"} /\ Within(t, active)

OwedOk(t) ==
  /\ \A video \in videos : video.end <= t
  /\ Recorded(t, Pending)
  /\ NotClosed(t)
  /\ pc # "off" => Within(t, active) \/ Marked(t)
  /\ AtPhase(t)

OwedIInv == \A t \in owed \ keptOut : OwedOk(t)

LEMMA WithinFacts ==
  ASSUME NEW w \in Window, NEW t \in Int
  PROVE  Within(t, w) <=> /\ w # None /\ w.start <= t
                         /\ t < w.end /\ t < w.start + MaxLength
<1>1. /\ End(w) \in Nat /\ End(w) <= w.end /\ End(w) <= w.start + MaxLength
      /\ End(w) = w.end \/ End(w) = w.start + MaxLength
  BY EndFacts
<1>2. w.end \in Nat /\ w.start \in Nat
  BY WindowFields
<1> QED BY <1>1, <1>2, Parameters DEF Within

\* The types the following lemmas need of an anomaly and the windows.
LEMMA OwedTypes ==
  ASSUME RecorderIInv, NEW t \in owed
  PROVE  /\ t \in Int /\ 0 <= t /\ t <= now /\ now \in Nat
         /\ active \in Window /\ catalog.active \in Window
         /\ closedUntil \in Nat /\ closedUntil <= now
         /\ catalog.closedUntil \in Nat /\ catalog.closedUntil <= now
  BY Parameters DEF RecorderIInv, EventTypeOK

\* An anomaly outside the window has a marker that counts, for a window with it.
LEMMA MarkedCounts ==
  ASSUME RecorderIInv, WideWindow, NEW t \in owed, Marked(t), closedUntil <= t
  PROVE  MarkerCounts /\ MarkerStart <= t
<1>1. /\ now \in Nat /\ closedUntil \in 0 .. now
      /\ marker.first \in 0 .. now /\ marker.last \in 0 .. now
  BY Parameters DEF RecorderIInv, EventTypeOK
<1>2. t \in Int /\ marker.first - Pre <= t /\ t <= marker.last /\ now - 1 <= t
  BY OwedTypes DEF Marked
<1>3. MarkerStart \in {marker.first - Pre, now - Keep, closedUntil}
  <2>1. marker.first - Pre \in Int /\ now - Keep \in Int /\ closedUntil \in Int
    BY <1>1, Parameters
  <2> QED BY <2>1, MaxOfThree DEF MarkerStart
<1>4. MarkerStart \in Int /\ MarkerStart <= t
  BY <1>1, <1>2, <1>3, Parameters
<1>5. marker.last + Post > now /\ MarkerStart < marker.last + Post
  BY <1>1, <1>2, <1>4, Parameters DEF WideWindow
<1> QED BY <1>4, <1>5 DEF MarkerCounts, Marked

\* A window that is opened now reaches from its beginning, which the buffer still
\* has, to now.
LEMMA OpenedReaches ==
  ASSUME RecorderIInv, WideWindow, MarkerCounts, NEW t \in owed,
         MarkerStart <= t, t <= marker.last
  PROVE  Within(t, Opened)
<1>1. /\ MarkerStart \in Nat /\ marker.last \in Nat /\ now \in Nat /\ t \in Int /\ t <= now
      /\ now - Keep <= MarkerStart
  <2>1. marker.first - Pre \in Int /\ now - Keep \in Int /\ closedUntil \in Int
    BY Parameters DEF RecorderIInv, EventTypeOK
  <2>2. now - Keep <= MarkerStart
    BY <2>1, MaxOfThree DEF MarkerStart
  <2> QED BY <2>2, MarkerFacts, OwedTypes DEF RecorderIInv, EventTypeOK
<1>2. Opened \in Window /\ Opened # None
  BY OpenedOk DEF RecorderIInv, WindowOk
<1>3. Opened.start = MarkerStart /\ Opened.end = marker.last + Post
  BY DEF Opened
<1> QED BY <1>1, <1>2, <1>3, WithinFacts, Parameters DEF WideWindow

LEMMA FollowOwed ==
  ASSUME RecorderIInv, RecorderIInv', ClosedIInv, OwedIInv, WideWindow, Follow
  PROVE  OwedIInv'
<1> SUFFICES ASSUME NEW t \in owed' \ keptOut' PROVE OwedOk(t)'
  BY DEF OwedIInv
<1>1. /\ t \in owed /\ pc \in {"due", "done"} /\ pc' = "finish"
      /\ UNCHANGED <<closedUntil, buffer, catalog, videos, now, marker, stopping>>
      /\ OwedOk(t) \/ Wanted(t)
  BY DEF Follow, OwedIInv, environment
<1>2. /\ t \in Int /\ active \in Window /\ active' \in Window /\ ~stopping
      /\ closedUntil \in Nat
  BY <1>1, OwedTypes DEF RecorderIInv, EventTypeOK, PhaseOk
<1>3. WindowOk(Triggered) /\ Triggered \in Window
  BY TriggeredOk DEF RecorderIInv, WindowOk
<1>4. /\ Triggered # None => /\ active' # None
                             /\ active'.start = Triggered.start
                             /\ active'.end = Triggered.end
                             /\ Triggered.parts \subseteq active'.parts
  BY <1>3, ProtectOk DEF Follow, RecorderIInv
<1>5. CASE active = None /\ OwedOk(t)
  <2>1. ~Within(t, active) /\ closedUntil <= t
    BY <1>1, <1>5 DEF Within, OwedOk, NotClosed
  <2>2. MarkerCounts /\ MarkerStart <= t
    BY <1>1, <1>5, <2>1, MarkedCounts DEF OwedOk
  <2>3. Triggered = Opened /\ Opened # None /\ Opened.start = MarkerStart
    BY <1>5, <2>2, TriggeredOk, OpenedOk DEF RecorderIInv, Opened
  <2>4. active' # None /\ active'.start <= t
    BY <1>4, <2>2, <2>3
  <2>5. Recorded(t, active)' /\ Marked(t)'
    BY <1>1, <1>5, <2>1 DEF OwedOk, Recorded, Marked, Pending, None
  <2> QED BY <1>1, <1>2, <1>5, <2>1, <2>4, <2>5 DEF OwedOk, NotClosed, AtPhase, Pending
<1>6. CASE active # None /\ OwedOk(t)
  <2>1. /\ Triggered # None /\ Triggered.start = active.start
        /\ Triggered.parts = active.parts /\ active.end <= Triggered.end
    BY <1>6, TriggeredOk DEF RecorderIInv
  <2>2. /\ active' # None /\ active'.start = active.start
        /\ active.end <= active'.end /\ active.parts \subseteq active'.parts
    BY <1>4, <2>1
  <2>3. active.start <= t /\ closedUntil <= t
    BY <1>1, <1>6 DEF OwedOk, NotClosed
  <2>4. Recorded(t, active)'
    BY <1>1, <1>6, <2>2 DEF OwedOk, Recorded, Pending
  <2>5. Within(t, active) => Within(t, active')
    <3>1. active.end \in Nat /\ active'.end \in Nat /\ active.start \in Nat
      BY <1>2, WindowFields
    <3> QED BY <1>2, <2>2, <3>1, WithinFacts, Parameters
  <2>6. Within(t, active)' \/ Marked(t)'
    <3>1. Within(t, active)' <=> Within(t, active')
      BY DEF Within, End
    <3> QED BY <1>1, <1>6, <2>5, <3>1 DEF OwedOk, Marked
  <2> QED BY <1>1, <1>2, <1>6, <2>2, <2>3, <2>4, <2>6
          DEF OwedOk, NotClosed, AtPhase, Pending
<1>7. CASE Wanted(t)
  <2>1. /\ active = None /\ MarkerCounts /\ MarkerStart <= t /\ t <= marker.last
        /\ t \in buffer \/ t = now
    BY <1>7 DEF Wanted, Recorded, None
  <2>2. Triggered = Opened /\ Opened # None /\ Opened.start = MarkerStart
        /\ Opened \in Window /\ Opened.end = marker.last + Post
    BY <2>1, TriggeredOk, OpenedOk DEF RecorderIInv, Opened, WindowOk
  <2>3. Within(t, active)'
    <3>1. Within(t, Opened)
      BY <1>1, <2>1, OpenedReaches
    <3>2. Within(t, active')
      BY <1>2, <1>4, <2>2, <3>1, WithinFacts
    <3> QED BY <3>2 DEF Within, End
  <2>4. catalog.closedUntil = closedUntil /\ closedUntil <= MarkerStart /\ MarkerStart \in Int
    BY <1>1, <2>1, MarkerFacts DEF ClosedIInv, AfterClosed, RecorderIInv
  <2>5. \A video \in videos : video.end <= t
    <3>1. Pending = None /\ ~(t < catalog.closedUntil)
      BY <1>1, <1>2, <2>1, <2>4 DEF Pending
    <3> QED BY <1>1, <3>1 DEF ClosedIInv, OwedNotPassed, NotPassed
  <2>6. NotClosed(t)'
    BY <1>1, <1>2, <1>4, <2>1, <2>2, <2>4 DEF NotClosed
  <2>7. Recorded(t, active)'
    BY <1>1, <2>1 DEF Recorded
  <2>8. active' # None
    BY <1>4, <2>2
  <2> QED BY <1>1, <1>2, <2>3, <2>5, <2>6, <2>7, <2>8 DEF OwedOk, AtPhase, Pending
<1> QED BY <1>1, <1>5, <1>6, <1>7

\* A stop ends the window now, and an anomaly before now stays in it.
LEMMA StopOwed ==
  ASSUME RecorderIInv, RecorderIInv', OwedIInv, Stop
  PROVE  OwedIInv'
<1> SUFFICES ASSUME NEW t \in owed' \ keptOut' PROVE OwedOk(t)'
  BY DEF OwedIInv
<1>1. /\ t \in owed /\ t < now /\ OwedOk(t) /\ pc = "done" /\ pc' = "finish"
      /\ UNCHANGED <<closedUntil, buffer, catalog, videos, now>>
  BY DEF Stop, OwedIInv
<1>2. t \in Int /\ now \in Nat /\ active \in Window /\ active' \in Window
  BY <1>1, OwedTypes DEF RecorderIInv, EventTypeOK
<1>3. active # None /\ Within(t, active)
  BY <1>1, <1>2 DEF OwedOk, AtPhase, Within
<1> DEFINE e == Min({active.end, now})
           w == [active EXCEPT !.end = e]
<1>4. /\ active.end \in Nat /\ active.end <= MaxTime + Post /\ active.start \in Nat
      /\ WindowOk(active)
  BY <1>2, WindowFields DEF RecorderIInv, WindowsOk
<1>5. e \in {active.end, now}
  <2>1. active.end \in Int /\ now \in Int
    BY <1>2, <1>4
  <2> QED BY <2>1, MinOfTwo
<1>6. e \in 0 .. MaxTime + Post
  BY <1>4, <1>5, Parameters DEF RecorderIInv, EventTypeOK
<1>7. Protect(w)
  BY <1>3 DEF Stop
<1> HIDE DEF e
<1>8. /\ WindowOk(w) /\ w # None /\ w.start = active.start /\ w.parts = active.parts
      /\ w.end = e
  BY <1>3, <1>4, <1>6, NewEnd
<1> HIDE DEF w
<1>9. /\ active' # None /\ active'.start = active.start /\ active'.end = e
      /\ active.parts \subseteq active'.parts
  BY <1>7, <1>8, ProtectOk DEF RecorderIInv
<1>10. Within(t, active')
  BY <1>1, <1>2, <1>3, <1>4, <1>5, <1>9, WithinFacts, Parameters
<1>11. Within(t, active)'
  BY <1>10 DEF Within, End
<1>12. Recorded(t, active)'
  BY <1>1, <1>9 DEF OwedOk, Recorded, Pending
<1>14. NotClosed(t)'
  BY <1>1, <1>3, <1>9 DEF OwedOk, NotClosed
<1> QED BY <1>1, <1>9, <1>11, <1>12, <1>14 DEF OwedOk, AtPhase, Pending

\* When the window is finished, all that is owed of it is among its parts.
LEMMA PartsAtFinish ==
  ASSUME RecorderIInv, pc = "finish", NEW t \in owed, OwedOk(t), active # None,
         End(active) <= now, t < End(active)
  PROVE  Within(t, active) /\ t \in active.parts
<1>1. t \in Int /\ now \in Nat /\ active \in Window
  BY OwedTypes
<1>2. active.start <= t
  BY DEF OwedOk, NotClosed
<1>3. Within(t, active)
  BY <1>2 DEF Within
<1>4. End(active) \in Nat
  BY <1>1, EndFacts
<1>5. t \in active.parts \/ t \in buffer
  BY <1>1, <1>4 DEF OwedOk, Recorded, Pending
<1>6. CASE t \in buffer
  <2>1. t < active.end /\ active.start \in Nat
    BY <1>1, <1>3, WithinFacts, WindowFields
  <2>2. t \in Overlapping(active)
    BY <1>1, <1>2, <1>6, <2>1 DEF Overlapping
  <2> QED BY <1>3, <2>2 DEF RecorderIInv, Protected
<1> QED BY <1>3, <1>5, <1>6

LEMMA JoinOwed ==
  ASSUME RecorderIInv, RecorderIInv', OwedIInv, Join
  PROVE  OwedIInv'
<1> SUFFICES ASSUME NEW t \in owed' \ keptOut' PROVE OwedOk(t)'
  BY DEF OwedIInv
<1>1. /\ t \in owed /\ OwedOk(t) /\ pc = "finish" /\ pc' = "release"
      /\ UNCHANGED <<memory, buffer, catalog, environment, stopping>>
  BY DEF Join, OwedIInv
<1>2. active # None /\ active \in Window /\ End(active) \in 0 .. now
  BY ReadyIsOver DEF Join
<1>3. t \in Int /\ now \in Nat
  BY <1>1, OwedTypes
<1>4. /\ \A video \in videos' : video.end <= t
      /\ End(active) <= t \/ \E video \in videos' : video.name = active.name /\ video.end <= t
  <2>1. CASE \E video \in videos : video.name = active.name
    BY <1>1, <2>1 DEF Join, OwedOk
  <2>2. CASE ~\E video \in videos : video.name = active.name
    <3>1. t \notin Selected
      BY <2>2 DEF Join
    <3>2. End(active) <= t
      <4> SUFFICES ASSUME t < End(active) PROVE FALSE
        BY <1>2, <1>3
      <4>1. t \in active.parts
        BY <1>1, <1>2, PartsAtFinish
      <4> QED BY <1>2, <1>3, <3>1, <4>1 DEF Selected
    <3>3. videos' = videos \cup {[name |-> active.name, end |-> End(active),
                                  parts |-> Selected]}
      BY <2>2 DEF Join
    <3> QED BY <1>1, <3>2, <3>3 DEF OwedOk
  <2> QED BY <2>1, <2>2
<1>5. (End(active) <= t \/ Unjoined(t, active))'
  BY <1>1, <1>4 DEF End, Unjoined, memory
<1>6. stopping' => Within(t, active)'
  BY <1>1 DEF OwedOk, AtPhase, Within, End, memory
<1>7. Recorded(t, active)' /\ NotClosed(t)' /\ (Within(t, active) \/ Marked(t))'
  BY <1>1 DEF OwedOk, Recorded, NotClosed, Within, End, Marked, Pending, memory, environment
<1> QED BY <1>1, <1>4, <1>5, <1>6, <1>7 DEF OwedOk, AtPhase, Pending

LEMMA GiveUpOwed ==
  ASSUME RecorderIInv, RecorderIInv', OwedIInv, GiveUp
  PROVE  OwedIInv'
<1> SUFFICES ASSUME NEW t \in owed' \ keptOut' PROVE OwedOk(t)'
  BY DEF OwedIInv
<1>1. /\ t \in owed /\ OwedOk(t) /\ pc = "finish" /\ pc' = "release"
      /\ UNCHANGED <<memory, disk, environment, stopping>> /\ active.parts = {}
  BY DEF GiveUp, OwedIInv, Empty, history
<1>2. active # None /\ active \in Window /\ End(active) \in 0 .. now
  BY ReadyIsOver DEF GiveUp
<1>3. t \in Int /\ now \in Nat
  BY <1>1, OwedTypes
<1>4. End(active) <= t
  <2> SUFFICES ASSUME t < End(active) PROVE FALSE
    BY <1>2, <1>3
  <2> QED BY <1>1, <1>2, PartsAtFinish
<1>5. (End(active) <= t)'
  BY <1>1, <1>4 DEF End, memory
<1>6. stopping' => Within(t, active)'
  BY <1>1 DEF OwedOk, AtPhase, Within, End, memory
<1>7. Recorded(t, active)' /\ NotClosed(t)' /\ (Within(t, active) \/ Marked(t))'
  BY <1>1
  DEF OwedOk, Recorded, NotClosed, Within, End, Marked, Pending, memory, disk, environment
<1> QED BY <1>1, <1>5, <1>6, <1>7 DEF OwedOk, AtPhase, Pending, disk

\* Outside a window that is over only what it keeps waiting.
LEMMA NotYetOwed ==
  ASSUME RecorderIInv, RecorderIInv', OwedIInv, NotYet
  PROVE  OwedIInv'
<1> SUFFICES ASSUME NEW t \in owed' \ keptOut' PROVE OwedOk(t)'
  BY DEF OwedIInv
<1>1. /\ t \in owed \ keptOut /\ OwedOk(t) /\ pc = "finish" /\ pc' = "expire"
      /\ UNCHANGED <<memory, disk, environment, stopping>>
  BY DEF NotYet, OwedIInv
<1>2. t \in Int /\ t <= now /\ now \in Nat /\ active \in Window
  BY <1>1, OwedTypes
<1>3. active # None
  BY <1>1 DEF OwedOk, AtPhase
<1>4. ~stopping
  BY <1>3 DEF NotYet, Ready, Empty, GraceOver
<1>5. t < End(active)
  <2>1. CASE now >= End(active)
    <3>1. ~(t >= End(active))
      BY <1>1, <1>3, <2>1 DEF NotYet
    <3> QED BY <1>2, <3>1, EndFacts
  <2>2. CASE ~(now >= End(active))
    BY <1>2, <2>2, EndFacts
  <2> QED BY <2>1, <2>2
<1>6. Within(t, active)
  BY <1>1, <1>3, <1>5 DEF OwedOk, NotClosed, Within
<1>7. Recorded(t, active)' /\ NotClosed(t)' /\ Within(t, active)'
  BY <1>1, <1>6
  DEF OwedOk, Recorded, NotClosed, Within, End, Pending, memory, disk, environment
<1> QED BY <1>1, <1>4, <1>7 DEF OwedOk, AtPhase, Pending, disk

LEMMA ReleaseOwed ==
  ASSUME RecorderIInv, RecorderIInv', OwedIInv, Release
  PROVE  OwedIInv'
<1> SUFFICES ASSUME NEW t \in owed' \ keptOut' PROVE OwedOk(t)'
  BY DEF OwedIInv
<1>1. /\ t \in owed /\ OwedOk(t) /\ pc = "release" /\ pc' = "remove"
      /\ UNCHANGED <<memory, buffer, staged, videos, environment, stopping>>
      /\ catalog'.active = None /\ catalog'.closedUntil = End(active)
      /\ t < End(active) => ~Unjoined(t, active)
  BY DEF Release, OwedIInv
<1>2. t \in Int /\ active \in Window /\ End(active) \in Nat
  BY <1>1, OwedTypes, EndFacts
<1>3. End(active) <= t
  BY <1>1, <1>2 DEF OwedOk, AtPhase
<1>4. ~stopping
  BY <1>1, <1>2, <1>3 DEF OwedOk, AtPhase, Within
<1>5. (End(active) <= t)' /\ ~Within(t, catalog.active)'
  BY <1>1, <1>3 DEF End, Within, memory
<1>6. Recorded(t, active)' /\ (Within(t, active) \/ Marked(t))'
  BY <1>1 DEF OwedOk, Recorded, Within, End, Marked, Pending, memory, environment
<1>7. NotClosed(t)'
  BY <1>1, <1>3 DEF OwedOk, NotClosed, memory
<1> QED BY <1>1, <1>4, <1>5, <1>6, <1>7 DEF OwedOk, AtPhase, Pending

\* What the closed window did not reach to is left to the marker.
LEMMA RemoveOwed ==
  ASSUME RecorderIInv, RecorderIInv', OwedIInv, Remove
  PROVE  OwedIInv'
<1> SUFFICES ASSUME NEW t \in owed' \ keptOut' PROVE OwedOk(t)'
  BY DEF OwedIInv
<1>1. /\ t \in owed /\ OwedOk(t) /\ pc = "remove" /\ pc' = "expireDue"
      /\ UNCHANGED <<buffer, catalog, environment, stopping>>
      /\ active' = None /\ closedUntil' = End(active) /\ videos' \subseteq videos
  BY DEF Remove, OwedIInv, history
<1>2. t \in Int /\ active \in Window /\ End(active) \in Nat
  BY <1>1, OwedTypes, EndFacts
<1>3. End(active) <= t /\ ~stopping
  BY <1>1 DEF OwedOk, AtPhase
<1>4. Marked(t)
  BY <1>1, <1>2, <1>3 DEF OwedOk, Within
<1>5. Marked(t)' /\ Recorded(t, active)'
  BY <1>1, <1>4 DEF Marked, Recorded, environment
<1>7. NotClosed(t)'
  BY <1>1, <1>3 DEF OwedOk, NotClosed
<1> QED BY <1>1, <1>3, <1>5, <1>7 DEF OwedOk, AtPhase, Pending

\* The buffer gives up only what is in the window already or too old to be owed.
LEMMA UnlinkOwed ==
  ASSUME RecorderIInv, RecorderIInv', OwedIInv, Unlink
  PROVE  OwedIInv'
<1> SUFFICES ASSUME NEW t \in owed' \ keptOut' PROVE OwedOk(t)'
  BY DEF OwedIInv
<1>1. /\ t \in owed /\ OwedOk(t) /\ pc \in {"expire", "expireDue"}
      /\ UNCHANGED <<memory, catalog, staged, videos, environment, pc, stopping>>
      /\ buffer' = buffer \ {Min(Expired)} /\ Expired # {}
  BY DEF Unlink, OwedIInv, history
<1>2. t \in Int /\ now \in Nat /\ active \in Window
  BY <1>1, OwedTypes
<1>3. Min(Expired) \in Expired
  <2>1. buffer \subseteq 0 .. now - 1
    BY DEF RecorderIInv, EventTypeOK
  <2>2. Expired \subseteq buffer
    BY DEF Expired
  <2>3. 0 .. now - 1 \subseteq Nat
    BY <1>2
  <2> QED BY <1>1, <2>1, <2>2, <2>3, MinOfSome
<1>4. t \in buffer /\ now - 1 <= t => t \in buffer'
  BY <1>1, <1>2, <1>3, Parameters DEF Expired
<1>5. Recorded(t, active)' /\ (Within(t, active) \/ Marked(t))'
  <2>1. CASE pc = "expire"
    <3>1. Within(t, active)
      BY <1>1, <2>1 DEF OwedOk, AtPhase
    <3>2. t \in active.parts \/ t = now
      <4>1. CASE t \in buffer
        <5>1. active # None /\ active.start <= t /\ t < active.end /\ active.start \in Nat
          BY <1>2, <3>1, WithinFacts, WindowFields
        <5>2. t \in Overlapping(active)
          BY <1>2, <4>1, <5>1 DEF Overlapping
        <5> QED BY <2>1, <5>1, <5>2 DEF RecorderIInv, Protected
      <4> QED BY <1>1, <2>1, <4>1 DEF OwedOk, Recorded, Pending
    <3> QED BY <1>1, <3>1, <3>2 DEF Within, End, Recorded, memory, environment
  <2>2. CASE pc = "expireDue"
    <3>1. active = None
      BY <2>2 DEF RecorderIInv, PhaseOk
    <3>2. Marked(t)
      BY <1>1, <2>2, <3>1 DEF OwedOk, Within
    <3>3. Marked(t)'
      BY <1>1, <1>4, <3>2 DEF Marked, environment
    <3> QED BY <3>3 DEF Marked, Recorded
  <2> QED BY <1>1, <2>1, <2>2
<1>6. NotClosed(t)'
  BY <1>1 DEF OwedOk, NotClosed, memory
<1>7. AtPhase(t)'
  BY <1>1 DEF OwedOk, AtPhase, Within, End, Unjoined, memory, environment
<1> QED BY <1>1, <1>5, <1>6, <1>7 DEF OwedOk, Pending

LEMMA PersistOwed ==
  ASSUME RecorderIInv, RecorderIInv', OwedIInv, Persist
  PROVE  OwedIInv'
<1> SUFFICES ASSUME NEW t \in owed' \ keptOut' PROVE OwedOk(t)'
  BY DEF OwedIInv
<1>1. /\ t \in owed /\ OwedOk(t) /\ pc \in {"expire", "expireDue"}
      /\ UNCHANGED <<memory, buffer, staged, videos, environment>>
      /\ catalog'.active = active /\ catalog'.closedUntil = closedUntil
  BY DEF Persist, OwedIInv, history
<1>2. ~stopping
  BY <1>1 DEF OwedOk, AtPhase
<1>3. stopping' = FALSE /\ pc' = IF pc = "expireDue" THEN "due" ELSE "done"
  BY <1>2 DEF Persist
<1>4. Recorded(t, active)' /\ (Within(t, active) \/ Marked(t))'
  BY <1>1 DEF OwedOk, Recorded, Within, End, Marked, Pending, memory, environment
<1>5. NotClosed(t)'
  BY <1>1 DEF OwedOk, NotClosed, memory
<1>6. AtPhase(t)'
  BY <1>1, <1>3 DEF OwedOk, AtPhase, Within, End, memory
<1> QED BY <1>1, <1>3, <1>4, <1>5, <1>6 DEF OwedOk, Pending

\* Dying and starting, the window of catalog.json is what counts.
LEMMA StartOwed ==
  ASSUME RecorderIInv, RecorderIInv', OwedIInv, Start
  PROVE  OwedIInv'
<1> SUFFICES ASSUME NEW t \in owed' \ keptOut' PROVE OwedOk(t)'
  BY DEF OwedIInv
<1>1. /\ t \in owed /\ OwedOk(t) /\ pc = "off" /\ pc' = "due"
      /\ UNCHANGED <<disk, environment, stopping>>
      /\ active' = catalog.active /\ closedUntil' = catalog.closedUntil
  BY DEF Start, OwedIInv, history
<1>2. Within(t, catalog.active) /\ ~stopping
  BY <1>1 DEF OwedOk, AtPhase
<1>3. Within(t, active)' /\ Within(t, catalog.active)'
  BY <1>1, <1>2 DEF Within, End, disk
<1>4. Recorded(t, active)'
  BY <1>1, <1>2 DEF OwedOk, Recorded, Pending, disk, environment
<1>5. NotClosed(t)'
  BY <1>1, <1>2 DEF OwedOk, NotClosed, Within, disk
<1> QED BY <1>1, <1>2, <1>3, <1>4, <1>5 DEF OwedOk, AtPhase, Pending, disk

LEMMA DieOwed ==
  ASSUME RecorderIInv, RecorderIInv', OwedIInv, Die
  PROVE  OwedIInv'
<1> SUFFICES ASSUME NEW t \in owed' \ keptOut' PROVE OwedOk(t)'
  BY DEF OwedIInv
<1>1. /\ t \in owed /\ OwedOk(t) /\ pc' = "off" /\ stopping' = FALSE
      /\ UNCHANGED <<disk, now>>
      /\ Within(t, catalog.active) /\ Recorded(t, catalog.active)
  BY DEF Die, OwedIInv
<1>2. Within(t, catalog.active)' /\ Recorded(t, catalog.active)'
  BY <1>1 DEF OwedOk, Within, End, Recorded, disk
<1>3. NotClosed(t)'
  BY <1>1 DEF OwedOk, NotClosed, disk
<1> QED BY <1>1, <1>2, <1>3 DEF OwedOk, AtPhase, Pending, disk

\* A confirmed anomaly is owed with its marker, and a marker that gives way to the
\* next leaves it a window that begins early enough.
LEMMA ConfirmOwed ==
  ASSUME RecorderIInv, RecorderIInv', OwedIInv, WideWindow,
         ConfirmAgain \/ \E first \in {now, now - 1} \cap Nat : ConfirmNew(first)
  PROVE  OwedIInv'
<1> SUFFICES ASSUME NEW t \in owed' \ keptOut' PROVE OwedOk(t)'
  BY DEF OwedIInv
<1>1. /\ UNCHANGED <<memory, disk, now, gaps, stops, pc, stopping>>
      /\ pc \in {"due", "done", "off"}
      /\ owed' = (IF pc = "off" THEN owed ELSE owed \cup {now}) /\ keptOut' = keptOut
  BY DEF ConfirmAgain, ConfirmNew, BetweenUpdates
<1>2. now \in Nat /\ active \in Window /\ catalog.active \in Window
      /\ closedUntil \in 0 .. now /\ catalog.closedUntil \in 0 .. now
      /\ marker \in [id : 0 .. MaxTime, first : 0 .. now, last : 0 .. now]
  BY Parameters DEF RecorderIInv, EventTypeOK
<1>3. /\ marker' # NoMarker /\ marker'.last = now
      /\ marker'.first = marker.first \/ marker'.first \in {now, now - 1}
      /\ marker'.first <= now
  <2>1. CASE ConfirmAgain
    BY <1>2, <2>1 DEF ConfirmAgain, RecorderIInv, WindowsOk, NoMarker
  <2>2. CASE \E first \in {now, now - 1} \cap Nat : ConfirmNew(first)
    BY <1>2, <2>2 DEF ConfirmNew, NoMarker
  <2> QED BY <2>1, <2>2
<1>4. marker'.first \in Int
  BY <1>2, <1>3
<1>5. CASE t \in owed
  <2>1. OwedOk(t) /\ t \in Int /\ t <= now
    BY <1>1, <1>5, OwedTypes DEF OwedIInv
  <2>2. pc # "off" => Within(t, active)' \/ Marked(t)'
    <3>1. CASE Within(t, active)
      BY <1>1, <3>1 DEF Within, End, memory
    <3>2. CASE Marked(t)
      <4>1. marker'.first - Pre <= t
        BY <1>2, <1>3, <1>4, <2>1, <3>2, Parameters DEF Marked, WideWindow
      <4> QED BY <1>1, <1>3, <2>1, <3>2, <4>1 DEF Marked, disk
    <3> QED BY <2>1, <3>1, <3>2 DEF OwedOk
  <2>3. Recorded(t, Pending)' /\ NotClosed(t)'
    BY <1>1, <2>1 DEF OwedOk, Recorded, NotClosed, Pending, memory, disk
  <2>5. AtPhase(t)'
    BY <1>1, <2>1 DEF OwedOk, AtPhase, Within, End, memory, disk
  <2> QED BY <1>1, <2>1, <2>2, <2>3, <2>5 DEF OwedOk, disk
<1>6. CASE t = now /\ pc # "off"
  <2>1. \A video \in videos' : video.end <= t
    BY <1>1, <1>6 DEF RecorderIInv, EventTypeOK, disk
  <2>2. Marked(t)'
    BY <1>1, <1>2, <1>3, <1>4, <1>6, Parameters DEF Marked
  <2>3. Recorded(t, active)'
    BY <1>1, <1>6 DEF Recorded
  <2>4. NotClosed(t)'
    <3>1. active.start <= now
      BY DEF RecorderIInv, WindowsOk, WindowOk
    <3> QED BY <1>1, <1>2, <1>6, <3>1 DEF NotClosed, memory, disk
  <2>5. ~stopping'
    BY <1>1 DEF RecorderIInv, PhaseOk
  <2> QED BY <1>1, <1>6, <2>1, <2>2, <2>3, <2>4, <2>5 DEF OwedOk, AtPhase, Pending
<1> QED BY <1>1, <1>5, <1>6

LEMMA ClearOwed ==
  ASSUME RecorderIInv, RecorderIInv', OwedIInv, Clear
  PROVE  OwedIInv'
<1> SUFFICES ASSUME NEW t \in owed' \ keptOut' PROVE OwedOk(t)'
  BY DEF OwedIInv
<1>1. /\ t \in owed /\ OwedOk(t) /\ Within(t, Pending)
      /\ UNCHANGED <<memory, disk, now, pc, stopping>>
  BY DEF Clear, OwedIInv
<1>2. pc # "off" => Within(t, active)'
  BY <1>1 DEF Pending, Within, End, memory
<1>3. Recorded(t, Pending)' /\ NotClosed(t)'
  BY <1>1 DEF OwedOk, Recorded, NotClosed, Pending, memory, disk
<1>5. AtPhase(t)'
  BY <1>1 DEF OwedOk, AtPhase, Within, End, Unjoined, memory, disk
<1> QED BY <1>1, <1>2, <1>3, <1>5 DEF OwedOk, disk

\* A marker outlasts the unit of its anomaly, so the next update finds it.
LEMMA TickOwed ==
  ASSUME RecorderIInv, RecorderIInv', OwedIInv, WideWindow, NEW recorded \in BOOLEAN,
         Tick(recorded)
  PROVE  OwedIInv'
<1> SUFFICES ASSUME NEW t \in owed' \ keptOut' PROVE OwedOk(t)'
  BY DEF OwedIInv
<1>1. /\ t \in owed /\ OwedOk(t)
      /\ UNCHANGED <<memory, catalog, videos, stopping>>
      /\ pc \in {"done", "off"} /\ pc' = (IF pc = "done" THEN "due" ELSE "off")
      /\ now' = now + 1
      /\ buffer' = (IF recorded THEN buffer \cup {now} ELSE buffer)
      /\ t = now => recorded
      /\ marker' = (IF marker.last + Post <= now' THEN NoMarker ELSE marker)
  BY DEF Tick, OwedIInv
<1>2. /\ t \in Int /\ now \in Nat /\ ~stopping
      /\ marker.first \in 0 .. now /\ marker.last \in 0 .. now
  BY <1>1, OwedTypes DEF RecorderIInv, EventTypeOK, OwedOk, AtPhase
<1>3. \A window : Recorded(t, window) => t \in window.parts \/ t \in buffer'
  BY <1>1 DEF Recorded
<1>4. Recorded(t, Pending)'
  BY <1>1, <1>3 DEF OwedOk, Recorded, Pending, memory
<1>6. NotClosed(t)'
  BY <1>1 DEF OwedOk, NotClosed, memory
<1>7. pc = "done" => Within(t, active)' \/ Marked(t)'
  <2>1. CASE Within(t, active)
    BY <1>1, <2>1 DEF Within, End, memory
  <2>2. CASE pc = "done" /\ ~Within(t, active)
    <3>1. Marked(t) /\ t = now
      BY <1>1, <2>2 DEF OwedOk, AtPhase
    <3>2. marker' = marker
      BY <1>1, <1>2, <3>1, Parameters DEF Marked, WideWindow
    <3> QED BY <1>1, <1>2, <3>1, <3>2 DEF Marked
  <2> QED BY <2>1, <2>2
<1>8. pc = "off" => Within(t, catalog.active)'
  BY <1>1 DEF OwedOk, AtPhase, Within, End
<1> QED BY <1>1, <1>2, <1>4, <1>6, <1>7, <1>8 DEF OwedOk, AtPhase

LEMMA OwedNextIInv ==
  ASSUME RecorderIInv, RecorderIInv', ClosedIInv, OwedIInv, WideWindow, [Next]_vars
  PROVE  OwedIInv'
<1>1. CASE Follow \/ Stop \/ Join \/ GiveUp \/ NotYet
  BY <1>1, FollowOwed, StopOwed, JoinOwed, GiveUpOwed, NotYetOwed
<1>2. CASE Release \/ Remove \/ Unlink \/ Persist \/ Start \/ Die
  BY <1>2, ReleaseOwed, RemoveOwed, UnlinkOwed, PersistOwed, StartOwed, DieOwed
<1>3. CASE ConfirmAgain \/ \E first \in {now, now - 1} \cap Nat : ConfirmNew(first)
  BY <1>3, ConfirmOwed
<1>4. CASE Clear
  BY <1>4, ClearOwed
<1>5. CASE \E recorded \in BOOLEAN : Tick(recorded)
  BY <1>5, TickOwed
<1>6. CASE UNCHANGED vars
  <2> SUFFICES ASSUME NEW t \in owed' \ keptOut' PROVE OwedOk(t)'
    BY DEF OwedIInv
  <2>1. /\ t \in owed /\ OwedOk(t)
        /\ UNCHANGED <<memory, disk, now, marker, pc, stopping>>
    BY <1>6 DEF OwedIInv, vars, environment, history
  <2> QED BY <2>1
          DEF OwedOk, Recorded, NotClosed, AtPhase, Within, End, Unjoined, Marked, Pending,
              memory, disk
<1> QED BY <1>1, <1>2, <1>3, <1>4, <1>5, <1>6 DEF Next

THEOREM OwedInvariant == WideWindow /\ Spec => []OwedIInv
<1>1. Init => OwedIInv
  BY DEF Init, OwedIInv
<1>2. WideWindow /\ RecorderIInv /\ RecorderIInv' /\ ClosedIInv /\ OwedIInv /\ [Next]_vars
        => OwedIInv'
  BY OwedNextIInv
<1>3. CASE WideWindow
  <2>1. RecorderIInv /\ RecorderIInv' /\ ClosedIInv /\ OwedIInv /\ [Next]_vars => OwedIInv'
    BY <1>2, <1>3
  <2>2. Spec => []OwedIInv
    BY <1>1, <2>1, RecorderInvariant, ClosedInvariant, PTL DEF Spec
  <2> QED BY <2>2
<1> QED BY <1>3

\* The windows that merge, split and follow one another leave no confirmed anomaly
\* out, if they are wider than the time between two updates and may be longer than
\* video is kept: but for one that came while a window that was over waited for its
\* video, and that no update found asked for by a marker with no window open, and for
\* what the recorder no longer had when it died (see ConfirmedSaved).
THEOREM EventConfirmedSaved == WideWindow /\ Spec => []ConfirmedSaved
<1>1. CASE WideWindow
  <2>1. RecorderIInv /\ OwedIInv => ConfirmedSaved
    <3> SUFFICES ASSUME RecorderIInv, OwedIInv, pc = "done", active = None,
                        NEW t \in owed \ keptOut
                 PROVE  now < t + Post
      BY DEF ConfirmedSaved
    <3>1. t = now
      BY DEF OwedIInv, OwedOk, AtPhase, Within
    <3> QED BY <3>1, OwedTypes, Parameters
  <2>2. Spec => []ConfirmedSaved
    BY <1>1, <2>1, OwedInvariant, RecorderInvariant, PTL
  <2> QED BY <2>2
<1> QED BY <1>1
=============================================================================
