--------------------------- MODULE EventRecording ---------------------------
(***************************************************************************)
(* The event recorder of the cameras (app/cameras/event_recording.py): a    *)
(* buffer of closed segments, the window that is open around a confirmed    *)
(* anomaly, and the video made of it.                                      *)
(*                                                                         *)
(* The unit of time is one segment; segment t lasts from t to t + 1 and is  *)
(* closed, or lost with the stream, when it ends.  update() runs at least   *)
(* once per unit and is several steps, for the recorder may die between one *)
(* change of a file and the next: what is left is the buffer, the linked    *)
(* parts, the videos and catalog.json.  The links of one update are made in *)
(* one step, and a directory is removed in one: nothing reads some of them. *)
(* The marker is the file video-trigger.json of the analysis.              *)
(***************************************************************************)
EXTENDS Integers, FiniteSetsExt

CONSTANTS
  Pre, Post,     \* CAMERA_EVENT_PRE_SEC, CAMERA_EVENT_POST_SEC
  Keep,          \* keep
  Grace,         \* the 30 seconds a window waits for its video
  MaxLength,     \* the 300 seconds after which an event is split
  MaxTime,       \* bound of the model: units of time
  MaxGaps,       \* bound of the model: segments lost while recording
  MaxStops       \* bound of the model: stops and deaths of the recorder

ASSUME WindowAssumption ==
  /\ {Pre, Keep, Grace, MaxTime, MaxGaps, MaxStops} \subseteq Nat
  /\ {Post, MaxLength} \subseteq Nat \ {0}
  /\ Keep > Pre

VARIABLES
  now,
  buffer,       \* closed segments in .buffer
  marker,       \* video-trigger.json
  pc,           \* how far update() is; "off" without a recorder that runs
  stopping,     \* finish_on_stop, not update
  active,       \* the window, or None
  closedUntil,
  catalog,      \* the window and closed_until in catalog.json
  staged,       \* links in the directories of the windows
  videos,       \* event-*.mkv of the windows not forgotten; end is the window's
                \* when it was joined
  gaps, stops,  \* counters of the bounds
  owed,         \* history: times of confirmed anomalies that are not saved yet
  keptOut       \* history: those a window that is over has kept waiting, and no
                \* update could take since

memory == <<active, closedUntil>>
disk == <<buffer, catalog, staged, videos>>
environment == <<now, marker, gaps, stops>>
history == <<owed, keptOut>>
vars == <<memory, disk, environment, pc, stopping, history>>

None == [name |-> <<0, 0>>, start |-> 0, end |-> 0, parts |-> {}]
NoMarker == [id |-> 0, first |-> 0, last |-> 0]

Init ==
  /\ now = 0
  /\ buffer = {}
  /\ marker = NoMarker
  /\ pc = "due"
  /\ stopping = FALSE
  /\ active = None
  /\ closedUntil = 0
  /\ catalog = [active |-> None, closedUntil |-> 0]
  /\ staged = {}
  /\ videos = {}
  /\ gaps = 0
  /\ stops = 0
  /\ owed = {}
  /\ keptOut = {}

-----------------------------------------------------------------------------
(* The window.                                                             *)

\* end = min(active.end, active.start + 300).
End(window) == Min({window.end, window.start + MaxLength})

\* Mutant: the segment that is still written counts, too.
OverlappingOpen(window) ==
  {t \in buffer \cup {now} : t < window.end /\ t + 1 > window.start}

\* overlaps: a segment and the window.
Overlapping(window) ==
  {t \in buffer : t < window.end /\ t + 1 > window.start}

Coverage(window) == Max({t + 1 : t \in window.parts})

\* The window a marker asks for begins where nothing was saved yet.
MarkerStart == Max({marker.first - Pre, now - Keep, closedUntil})

MarkerCounts ==
  /\ marker # NoMarker
  /\ marker.last + Post > now
  /\ MarkerStart < marker.last + Post

Opened == [name |-> <<marker.id, MarkerStart>>, start |-> MarkerStart,
           end |-> marker.last + Post, parts |-> {}]

\* Mutant: a window that is over gives way to the next.
TriggeredReplacing ==
  IF ~MarkerCounts THEN active
  ELSE IF active = None \/ MarkerStart > active.end THEN Opened
  ELSE [active EXCEPT !.end = Max({@, marker.last + Post})]

\* _trigger: a marker opens a window or extends the one it overlaps; one that
\* begins after the window has to wait.
Triggered ==
  IF ~MarkerCounts THEN active
  ELSE IF active = None THEN Opened
  ELSE IF MarkerStart <= active.end
  THEN [active EXCEPT !.end = Max({@, marker.last + Post})]
  ELSE active

-----------------------------------------------------------------------------
(* update().                                                               *)

Links(window) == {[name |-> window.name, part |-> t] : t \in window.parts}

\* _protect: the closed segments that overlap the window are linked.
Protect(window) ==
  LET protected == IF window = None THEN None
                   ELSE [window EXCEPT !.parts = @ \cup Overlapping(window)]
  IN  /\ active' = protected
      /\ staged' = staged \cup Links(protected)

\* The segment of time t is in the window, in the buffer, or not over yet.
Recorded(t, window) == t \in window.parts \/ t \in buffer \/ t = now

\* No window is open, and the marker asks for the time t, whose segment is there.
Wanted(t) ==
  /\ active = None
  /\ MarkerCounts
  /\ MarkerStart <= t /\ t <= marker.last
  /\ Recorded(t, None)

\* _trigger and _protect.
Follow ==
  /\ pc \in {"due", "done"}
  /\ Protect(Triggered)
  /\ pc' = "finish"
  /\ keptOut' = {t \in keptOut : ~Wanted(t)}
  /\ UNCHANGED <<closedUntil, buffer, catalog, videos, environment, stopping, owed>>

\* finish_on_stop, after a last update: nothing from now on is owed.
Stop ==
  /\ pc = "done"
  /\ stops < MaxStops
  /\ stops' = stops + 1
  /\ Protect(IF active = None THEN None ELSE [active EXCEPT !.end = Min({@, now})])
  /\ stopping' = TRUE
  /\ pc' = "finish"
  /\ owed' = {t \in owed : t < now}
  /\ UNCHANGED <<closedUntil, buffer, catalog, videos, now, marker, gaps, keptOut>>

GraceOver == stopping \/ now > End(active) + Grace

\* _finish: the window has its video, or will not get more of it.
Ready ==
  /\ active # None
  /\ active.parts # {}
  /\ stopping \/ now >= End(active)
  /\ Coverage(active) >= End(active) \/ GraceOver

\* A window without any video makes none.
Empty == active # None /\ active.parts = {} /\ GraceOver

Selected == {t \in active.parts : t <= End(active)}

\* concatenate, unless a video of that name is there.
Join ==
  /\ pc = "finish"
  /\ Ready
  /\ IF \E video \in videos : video.name = active.name
     THEN UNCHANGED <<videos, owed>>
     ELSE /\ videos' = videos \cup {[name |-> active.name, end |-> End(active),
                                     parts |-> Selected]}
          /\ owed' = owed \ Selected
  /\ pc' = "release"
  /\ UNCHANGED <<memory, buffer, catalog, staged, environment, stopping, keptOut>>

GiveUp ==
  /\ pc = "finish"
  /\ Empty
  /\ pc' = "release"
  /\ UNCHANGED <<memory, disk, environment, stopping, history>>

\* A window that is over waits for segments that are missing, and keeps an anomaly
\* after it waiting, whose marker may be gone by then.
NotYet ==
  /\ pc = "finish"
  /\ ~Ready
  /\ ~Empty
  /\ pc' = "expire"
  /\ keptOut' = IF active # None /\ now >= End(active)
                THEN keptOut \cup {t \in owed : t >= End(active)} ELSE keptOut
  /\ UNCHANGED <<memory, disk, environment, stopping, owed>>

\* The window has a video from before the recorder died, and was extended since:
\* the times that video is without.
Unjoined(t, window) ==
  \E video \in videos : video.name = window.name /\ video.end <= t

\* The metadata, then the catalog without the window.
Release ==
  /\ pc = "release"
  /\ catalog' = [active |-> None, closedUntil |-> End(active)]
  /\ pc' = "remove"
  /\ owed' = {t \in owed : t < End(active) => ~Unjoined(t, active)}
  /\ UNCHANGED <<memory, buffer, staged, videos, environment, stopping, keptOut>>

\* rmtree of the window's directory; the video is left to prune.
Remove ==
  /\ pc = "remove"
  /\ staged' = {link \in staged : link.name # active.name}
  /\ videos' = {video \in videos : video.name # active.name}
  /\ active' = None
  /\ closedUntil' = End(active)
  /\ pc' = "expireDue"
  /\ UNCHANGED <<buffer, catalog, environment, stopping, history>>

Expired == {t \in buffer : t + 1 < now - Keep}

\* What the buffer no longer needs is unlinked, one segment after the other ...
Unlink ==
  /\ pc \in {"expire", "expireDue"}
  /\ ~stopping
  /\ Expired # {}
  /\ buffer' = buffer \ {Min(Expired)}
  /\ UNCHANGED <<memory, catalog, staged, videos, environment, pc, stopping, history>>

\* ... and only then the catalog is written: persist.  The next update comes after a
\* second, so one that closed a window is followed by one in this unit.
Persist ==
  /\ pc \in {"expire", "expireDue"}
  /\ stopping \/ Expired = {}
  /\ catalog' = [active |-> active, closedUntil |-> closedUntil]
  /\ pc' = IF stopping THEN "off" ELSE IF pc = "expireDue" THEN "due" ELSE "done"
  /\ stopping' = FALSE
  /\ UNCHANGED <<memory, buffer, staged, videos, environment, history>>

\* Mutant: the window is not in the catalog that is read.
StartForgets ==
  /\ pc = "off"
  /\ active' = None
  /\ closedUntil' = catalog.closedUntil
  /\ pc' = "due"
  /\ UNCHANGED <<disk, environment, stopping, history>>

\* The catalog is read again, and recording goes on.
Start ==
  /\ pc = "off"
  /\ active' = catalog.active
  /\ closedUntil' = catalog.closedUntil
  /\ pc' = "due"
  /\ UNCHANGED <<disk, environment, stopping, history>>

-----------------------------------------------------------------------------
(* Around the recorder.                                                    *)

Within(t, window) == window # None /\ window.start <= t /\ t < End(window)

\* The window the recorder has, or will have when it is started again.
Pending == IF pc = "off" THEN catalog.active ELSE active

\* Killed, or an exception: recover() keeps the closed segments.  Owed is what the
\* window of catalog.json is to have, and does have or can still get.
Die ==
  /\ pc # "off"
  /\ stops < MaxStops
  /\ stops' = stops + 1
  /\ pc' = "off"
  /\ stopping' = FALSE
  /\ active' = None
  /\ closedUntil' = 0
  /\ owed' = {t \in owed : Within(t, catalog.active) /\ Recorded(t, catalog.active)}
  /\ UNCHANGED <<disk, now, marker, gaps, keptOut>>

\* An update reads the marker once, so a change of it between two updates is
\* as good as one during an update.
BetweenUpdates == pc \in {"due", "done", "off"}

\* A picture confirms an anomaly that was first suspected a moment ago.
ConfirmNew(first) ==
  /\ BetweenUpdates
  /\ now < MaxTime
  /\ marker = NoMarker \/ marker.last < first
  /\ marker' = [id |-> now + 1, first |-> first, last |-> now]
  /\ owed' = IF pc = "off" THEN owed ELSE owed \cup {now}
  /\ UNCHANGED <<memory, disk, now, gaps, stops, pc, stopping, keptOut>>

\* The anomaly goes on.
ConfirmAgain ==
  /\ BetweenUpdates
  /\ now < MaxTime
  /\ marker # NoMarker
  /\ marker.last >= now - 1
  /\ marker' = [marker EXCEPT !.last = now]
  /\ owed' = IF pc = "off" THEN owed ELSE owed \cup {now}
  /\ UNCHANGED <<memory, disk, now, gaps, stops, pc, stopping, keptOut>>

\* A command to the analysis clears the marker.
Clear ==
  /\ BetweenUpdates
  /\ marker # NoMarker
  /\ marker' = NoMarker
  /\ owed' = {t \in owed : Within(t, Pending)}
  /\ UNCHANGED <<memory, disk, now, gaps, stops, pc, stopping, keptOut>>

\* A segment is over; with the recorder down nothing is recorded.  A marker that
\* no longer counts is as good as none.
Tick(recorded) ==
  /\ pc \in {"done", "off"}
  /\ now < MaxTime
  /\ recorded => pc = "done"
  /\ ~recorded /\ pc = "done" => gaps < MaxGaps
  /\ now' = now + 1
  /\ marker' = IF marker.last + Post <= now' THEN NoMarker ELSE marker
  /\ buffer' = IF recorded THEN buffer \cup {now} ELSE buffer
  /\ gaps' = IF ~recorded /\ pc = "done" THEN gaps + 1 ELSE gaps
  /\ pc' = IF pc = "done" THEN "due" ELSE "off"
  /\ owed' = IF recorded THEN owed ELSE owed \ {now}
  /\ UNCHANGED <<memory, catalog, staged, videos, stops, stopping, keptOut>>

Next ==
  \/ Follow \/ Stop \/ Join \/ GiveUp \/ NotYet \/ Release \/ Remove
  \/ Unlink \/ Persist
  \/ Start \/ Die \/ ConfirmAgain \/ Clear
  \/ \E first \in {now, now - 1} \cap Nat : ConfirmNew(first)
  \/ \E recorded \in BOOLEAN : Tick(recorded)

Spec == Init /\ [][Next]_vars

-----------------------------------------------------------------------------
(* Properties.                                                             *)

Names == (0 .. MaxTime) \X (0 .. MaxTime)
Window == [name : Names, start : 0 .. MaxTime, end : 0 .. MaxTime + Post,
           parts : SUBSET (0 .. MaxTime)]

EventTypeOK ==
  /\ now \in 0 .. MaxTime
  /\ buffer \subseteq 0 .. now - 1
  /\ marker \in [id : 0 .. MaxTime, first : 0 .. now, last : 0 .. now]
  /\ pc \in {"due", "done", "finish", "release", "remove", "expire",
             "expireDue", "off"}
  /\ stopping \in BOOLEAN
  /\ {active, catalog.active} \subseteq Window
  /\ {closedUntil, catalog.closedUntil} \subseteq 0 .. now
  /\ staged \subseteq [name : Names, part : 0 .. now - 1]
  /\ videos \subseteq [name : Names, end : 0 .. now, parts : SUBSET (0 .. now - 1)]
  /\ gaps \in 0 .. MaxGaps
  /\ stops \in 0 .. MaxStops
  /\ owed \cup keptOut \subseteq 0 .. now

\* A segment that catalog.json calls part of a window stays linked until it is
\* in a video, whenever the recorder dies ("retains pending event state and
\* protected segments across container restarts", docs/camera-anomaly.md:189).
\* The exception is Unjoined, what the window's video is without: segments from the
\* end of the window on, which the next one may have, but also what the window got
\* after the recorder had died with the video made.
PartsSaved ==
  [][\A t \in catalog.active.parts : LET window == catalog.active IN
       \/ /\ catalog'.active.name = window.name
          /\ t \in catalog'.active.parts
          /\ [name |-> window.name, part |-> t] \in staged'
       \/ \E video \in videos' : t \in video.parts
       \/ Unjoined(t, window)]_vars

\* When no window is open, no confirmed anomaly whose marker no longer counts is
\* without a video of the segment it was confirmed in: windows that merge, split
\* and follow one another leave none out, and a window that waits for missing video
\* costs an anomaly only if no update found, with the window closed, a marker that
\* still asked for it (keptOut).  Not owed, or no longer, is what was confirmed
\* without a recorder or whose segment was lost with the stream, what a stop or a
\* command cut off, and of a recorder that died what neither the window of
\* catalog.json nor the buffer had and what a video made before its death is without.
ConfirmedSaved ==
  pc = "done" /\ active = None => \A t \in owed \ keptOut : now < t + Post
=============================================================================
