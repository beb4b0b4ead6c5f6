------------------------------- MODULE VideoWatch -------------------------------
(***************************************************************************)
(* How the page finds out that the remote picture froze:                   *)
(*   browserRemoteSession.ts (readings of getStats and samples of the      *)
(*   video element), browserRemote/diagnostics.ts (the verdict on two      *)
(*   successive readings), useRemoteVideoController.ts and                 *)
(*   remoteVideoModel.ts (the video shown), RemoteVideoTile.tsx (the       *)
(*   samples), useRemoteRecoveryController.ts (the streak of stalls), and   *)
(*   remoteControlPresentation.ts, remoteConnectionQuality.ts and          *)
(*   remoteSessionUiModel.ts (what the user is told and offered).          *)
(*                                                                         *)
(* A counter of the browser is compared only with its own earlier value,   *)
(* so it is modelled by what it did since, chosen when it is read: it      *)
(* stayed, it grew, or (after the element got another stream) anything;    *)
(* the difference of counters of two tracks may be anything too.  Readings settle in the order they are  *)
(* taken, as browsers answer getStats, one after the other; the page has   *)
(* rendered each verdict before the next.  The room stays joined and no other operation is busy.  A   *)
(* new session is a new object; the late readings of an old one are        *)
(* RemoteNegotiation's subject.                                            *)
(***************************************************************************)
EXTENDS Integers

CONSTANTS
  Tracks,   \* the video tracks a session may get, named 1, 2, ... as
            \* they come while the user has chosen none
  None,
  Browsers, \* sets of counters a browser reports, of AllCounters
  MaxChanges \* bound: other events than the arrival of tracks, samples and readings

AllCounters == {"framesDecoded", "framesReceived", "elementFrames"}

ASSUME BrowserAssumption ==
  /\ Browsers \subseteq SUBSET AllCounters /\ Tracks \subseteq Nat
  /\ None \notin Int /\ None # "transport_stalled"  \* it is no counter and no verdict

VARIABLES
  browser,  \* the counters this browser reports
  stage,    \* BrowserRemoteSessionState.stage, or "failed": idle with a failureReason
  link,     \* "open" (or opening), "closed" or "unmatched": controlChannelState, ~signalGatewayMatchesRoom
  changes,
  track,    \* per track: "absent", "live" or "ended"
  play,     \* per track: what its packets lead to now
  another,  \* the tracks whose element got another stream since its newest recorded sample
  report,   \* the tracks the reading of getStats under way will report, or None
  previous, \* previousStatsSample.inboundVideo: its track, or None
  element,  \* state.videoElement: its track and whether it is active, or None
  seen,     \* previousStatsVideoElementSample: its track, or None
  moved,    \* the element's frames from `seen` to `element`
  fresh,    \* `element` was recorded after `seen`
  samples,  \* remoteVideoSamplesById: the tracks with an active sample
  selected, \* selectedRemoteVideoId
  primary,  \* primaryRemoteVideoId
  status,   \* videoFlow.status, or None
  streak,   \* decodeStalledStreak, up to 2
  frozen,   \* history: readings in a row that really found the picture standing, up to 2
  dark      \* history: nothing came for the video read between the last two readings

mediaVars   == <<track, play, another>>
sessionVars == <<report, previous, element, seen, moved, fresh>>
pageVars    == <<samples, selected, primary>>
flowVars    == <<status, streak>>
linkVars    == <<stage, link, changes>>
witnessVars == <<frozen, dark>>
vars == <<browser, linkVars, mediaVars, sessionVars, pageVars, flowVars, witnessVars>>

Grows == 0..3  \* nothing came, packets, whole frames, frames that were decoded

Changes == changes < MaxChanges /\ changes' = changes + 1

-----------------------------------------------------------------------------
(* Differences of counters.                                                  *)

(* The frames of two successive stretches together                           *)
Joined(a, b) == IF a = "same" THEN b ELSE IF b = "same" \/ a = b THEN a ELSE "any"

(* The signs the difference of such a stretch may have                       *)
Signs(m) == CASE m = "same" -> {0} [] m = "more" -> {1} [] OTHER -> {-1, 0, 1}

(* The signs diffNumber may give for the element's frames; {None} when the   *)
(* samples are missing, the same, or of different tracks.                    *)
ElementDelta(fromTrack, to, stretch) ==
  IF "elementFrames" \notin browser \/ fromTrack = None \/ to = None \/ fromTrack # to.track
  THEN {None}
  ELSE Signs(stretch)

(* diagnoseVideoFlow: `inbound` the track read, `same` whether the reading   *)
(* before was of that track, `grew` what came since, `frames` the sign of    *)
(* the difference of the element's frames, or None.                          *)
Verdict(inbound, same, grew, frames) ==
  CASE inbound = None -> "waiting"
    [] inbound # None /\ ~same -> "receiving"
    [] inbound # None /\ same /\ "framesDecoded" \in browser ->
         IF grew = 3 THEN IF frames = 0 THEN "presentation_stalled" ELSE "receiving"
         ELSE IF grew > 0 THEN "decode_stalled"
              ELSE IF frames = 1 THEN "receiving" ELSE "transport_stalled"
    [] OTHER ->
         IF (grew > 1 /\ "framesReceived" \in browser) \/ frames = 1 THEN "receiving"
         ELSE IF grew = 0 THEN "transport_stalled"
              ELSE IF "framesReceived" \notin browser /\ frames = None
                   THEN "receiving" ELSE "decode_stalled"

-----------------------------------------------------------------------------
(* The video the page shows.                                                 *)

Streams == {t \in Tracks : track[t] = "live"}

(* resolvePrimaryRemoteVideoId: the selected video, else one of those with   *)
(* the highest score, else any that has not ended.                           *)
Primaries(select, active, streams) ==
  LET scored == streams \intersect active
  IN CASE select \in streams -> {select}
       [] select \notin streams /\ scored # {} -> scored
       [] OTHER -> IF streams = {} THEN {None} ELSE streams

(* handleRemoteMediaStream: other streams for the elements, no samples yet.  *)
ShowStreams(tracks) ==
  LET streams == {t \in Tracks : tracks[t] = "live"}
  IN /\ track' = tracks
     /\ another' = streams
     /\ samples' = {}
     /\ primary' \in Primaries(selected, {}, streams)
     /\ UNCHANGED selected

(* The user picks a video.                                                   *)
Select(t) ==
  /\ t \in Streams /\ Changes /\ selected' = t
  /\ primary' \in Primaries(t, samples, Streams)
  /\ UNCHANGED <<browser, stage, link, mediaVars, sessionVars, samples, flowVars, witnessVars>>

-----------------------------------------------------------------------------
(* The media.                                                                *)

TrackArrives(t) ==
  /\ stage \in {"offered", "connected"} /\ track[t] = "absent"
  /\ selected = None => \A u \in Tracks : u < t => track[u] # "absent"
  /\ ShowStreams([track EXCEPT ![t] = "live"])
  /\ UNCHANGED <<browser, linkVars, play, sessionVars, flowVars, witnessVars>>

TrackEnds(t) ==
  /\ track[t] = "live" /\ Changes
  /\ ShowStreams([track EXCEPT ![t] = "ended"])
  /\ play' = [play EXCEPT ![t] = "plays"]
  /\ UNCHANGED <<browser, stage, link, sessionVars, flowVars, witnessVars>>

(* Of these the browser's counters can tell apart                            *)
Told ==
  {"silent", "plays"} \union (IF "framesDecoded" \in browser THEN {"undecoded"} ELSE {})
                      \union (IF "elementFrames" \in browser THEN {"unshown"} ELSE {})

(* The network, the decoder or the compositor starts or stops serving t.     *)
PlayChanges(t) ==
  /\ track[t] = "live" /\ Changes
  /\ \E p \in Told : p # play[t] /\ play' = [play EXCEPT ![t] = p]
  /\ UNCHANGED <<browser, stage, link, track, another, sessionVars, pageVars, flowVars, witnessVars>>

(* What of t may have come since the counters were read before               *)
Comes(t) ==
  CASE play[t] = "silent" -> {0}
    [] play[t] = "undecoded" -> 0..2
    [] OTHER -> IF "framesDecoded" \in browser THEN Grows ELSE 0..2

(* What the element of t may have shown since its newest sample              *)
Shows(t) ==
  IF "elementFrames" \notin browser THEN {"more"}
  ELSE IF t \in another THEN {"any"} ELSE IF play[t] = "plays" THEN {"same", "more"} ELSE {"same"}

-----------------------------------------------------------------------------
(* The verdict, and the stalls in a row the recovery hook counts.            *)

Stalling == {"decode_stalled", "presentation_stalled"}

(* videoFlow is replaced: one more stall in a row, or none.                  *)
ShowFlow(verdict) ==
  /\ status' = verdict
  /\ streak' = IF verdict \in Stalling THEN IF streak < 2 THEN streak + 1 ELSE 2 ELSE 0

-----------------------------------------------------------------------------
(* Samples of the video element.                                             *)

(* shouldUseSample                                                           *)
Used(sample) == sample.active \/ element = None \/ ~element.active

(* recordVideoElementSample of the primary video                             *)
Record(sample) ==
  LET t == sample.track
  IN IF ~Used(sample) THEN UNCHANGED <<another, sessionVars, flowVars>>
     ELSE /\ \E stretch \in Shows(t) :
             /\ \E d \in ElementDelta(IF element = None THEN None ELSE element.track, sample, stretch) :
                  IF d = 1 THEN ShowFlow("receiving")
                  ELSE IF status = None THEN ShowFlow("waiting")
                  ELSE UNCHANGED flowVars
             /\ moved' = IF seen = t THEN Joined(moved, stretch) ELSE moved
          /\ element' = sample
          /\ fresh' = TRUE
          /\ another' = another \ {t}
          /\ UNCHANGED <<report, previous, seen>>

(* The timer or an event of the element of t: an element is active once it   *)
(* has shown a frame, and may have been before.                              *)
Sample(t) ==
  /\ t \in Streams
  /\ \E active \in BOOLEAN :
       /\ t \in samples => active
       /\ samples' = IF active THEN samples \union {t} ELSE samples
       /\ IF t = primary THEN Record([track |-> t, active |-> active])
                         ELSE UNCHANGED <<another, sessionVars, flowVars>>
       /\ primary' \in Primaries(selected, samples', Streams)
  /\ UNCHANGED <<browser, linkVars, track, play, selected, witnessVars>>

-----------------------------------------------------------------------------
(* Readings of getStats.                                                     *)

FaultyReadStats ==
  /\ stage = "offered" /\ report = None
  /\ report' = {t \in Tracks : track[t] # "absent"}
  /\ UNCHANGED <<browser, linkVars, mediaVars, previous, element, seen, moved, fresh,
                 pageVars, flowVars, witnessVars>>

(* The poll of 0.6 s, of a connected session 1.5 s: the element is sampled   *)
(* every second, so there its newest sample is new.  (The last reading of a  *)
(* loop that a change of the stage has replaced makes one interval shorter,  *)
(* which these steps do not tell apart.)                                     *)
ReadStats ==
  /\ stage \in {"offered", "connected"} /\ report = None
  /\ stage = "offered" \/ element = None \/ fresh \/ primary = None
  /\ report' = {t \in Tracks : track[t] # "absent"}
  /\ UNCHANGED <<browser, linkVars, mediaVars, previous, element, seen, moved, fresh,
                 pageVars, flowVars, witnessVars>>

(* readInboundVideoStats: the record of the element's track, else the one    *)
(* that decoded most.                                                        *)
Inbound ==
  IF element # None /\ element.track \in report THEN {element.track}
  ELSE IF report = {} THEN {None} ELSE report

FaultySame(inbound) == previous # None

(* isSameInboundVideo                                                        *)
Same(inbound) == previous # None /\ previous = inbound

(* History: a reading of `inbound` really found that `came` had come.        *)
Witness(inbound, came) ==
  LET again == inbound # None /\ previous = inbound
      still == came < 3 \/ (fresh /\ seen = element.track /\ moved # "more")
  IN /\ frozen' = IF again /\ still THEN IF frozen < 2 THEN frozen + 1 ELSE 2 ELSE 0
     /\ dark' = (again /\ came = 0)

(* refreshConnectionStats goes on with a report.                             *)
StatsRead ==
  /\ report # None /\ report' = None
  /\ \E inbound \in Inbound :
       /\ \E came \in IF inbound = None THEN {0} ELSE Comes(inbound) :
            /\ Witness(inbound, came)
            /\ \E frames \in IF fresh THEN ElementDelta(seen, element, moved) ELSE {None} :
               \E grew \in IF previous = inbound THEN {came} ELSE Grows :
                 ShowFlow(Verdict(inbound, Same(inbound), grew, frames))
       /\ previous' = inbound
  /\ seen' = IF element = None THEN None ELSE element.track
  /\ moved' = "same" /\ fresh' = FALSE
  /\ UNCHANGED <<browser, linkVars, mediaVars, element, pageVars>>

-----------------------------------------------------------------------------
(* What the page makes of it.                                                *)

Persists == status \in Stalling /\ streak >= 2

(* canRecover of the recovery hook                                           *)
CanRecover ==
  \/ stage = "failed"
  \/ stage = "connected" /\ (link # "open" \/ status = "transport_stalled" \/ Persists)

FaultyRecoverable ==
  stage = "failed" \/ (stage = "connected" /\ (link = "closed" \/ status = "transport_stalled"))

(* browserConnectionRecoverable of the presentation                          *)
Recoverable ==
  \/ stage = "failed"
  \/ stage = "connected" /\ (link = "closed" \/ status = "transport_stalled" \/ Persists)

(* getNextAction, of a joined room with no operation running                 *)
NextAction ==
  CASE link = "unmatched" \/ stage \in {"idle", "failed"} -> "start"
    [] link # "unmatched" /\ stage = "offered" -> "wait"
    [] OTHER -> IF Recoverable THEN "reconnect" ELSE "control"

(* getRemoteConnectionQuality                                                *)
Quality ==
  CASE stage # "connected" -> "pending"
    [] stage = "connected" /\ (link = "closed" \/ status = "transport_stalled") -> "bad"
    [] OTHER -> IF status \in Stalling THEN "warn" ELSE IF status = "receiving" THEN "good" ELSE "pending"

-----------------------------------------------------------------------------
(* The session.                                                              *)

Init ==
  /\ browser \in Browsers
  /\ stage = "offered" /\ link = "closed" /\ changes = 0
  /\ track = [t \in Tracks |-> "absent"] /\ play = [t \in Tracks |-> "plays"] /\ another = {}
  /\ report = None /\ previous = None
  /\ element = None /\ seen = None /\ moved = "same" /\ fresh = FALSE
  /\ samples = {} /\ selected = None /\ primary = None
  /\ status = None /\ streak = 0
  /\ frozen = 0 /\ dark = FALSE

Connected ==
  /\ stage = "offered" /\ stage' = "connected" /\ link' = "open"
  /\ UNCHANGED <<browser, changes, mediaVars, report, previous, element, seen, moved, fresh,
                 pageVars, flowVars, witnessVars>>

LinkChanges ==
  /\ stage = "connected" /\ link = "open" /\ Changes
  /\ link' \in {"closed", "unmatched"}
  /\ UNCHANGED <<browser, stage, mediaVars, sessionVars, pageVars, flowVars, witnessVars>>

(* What the session kept is gone with it, and its tracks are over.           *)
SessionOver ==
  /\ stage \in {"offered", "connected"} /\ Changes
  /\ link' = "closed"
  /\ track' = [t \in Tracks |-> "absent"] /\ play' = [t \in Tracks |-> "plays"] /\ another' = {}
  /\ report' = None /\ previous' = None
  /\ element' = None /\ seen' = None /\ moved' = "same" /\ fresh' = FALSE
  /\ samples' = {} /\ primary' = None
  /\ status' = None /\ streak' = 0
  /\ frozen' = 0 /\ dark' = FALSE
  /\ UNCHANGED browser

(* resetBrowserRemoteSession                                                 *)
SessionCloses == SessionOver /\ stage' = "idle" /\ selected' = None

(* fail, 20 s without an answer or without a picture.  The page keeps the    *)
(* elements of the old session, in which nothing comes, until the next one   *)
(* has tracks, and the user's choice.                                        *)
SessionFails ==
  /\ stage = "offered" \/ status = "waiting" \/ \A t \in Tracks : track[t] # "live"
  /\ SessionOver /\ stage' = "failed" /\ UNCHANGED selected

(* A new session, over a gateway of the room.                                *)
SessionStarts ==
  /\ stage \in {"idle", "failed"} /\ stage' = "offered"
  /\ UNCHANGED <<browser, link, changes, mediaVars, sessionVars, pageVars, flowVars, witnessVars>>

Next ==
  \/ \E t \in Tracks : \/ TrackArrives(t) \/ TrackEnds(t) \/ PlayChanges(t) \/ Select(t) \/ Sample(t)
  \/ ReadStats \/ StatsRead
  \/ Connected \/ LinkChanges \/ SessionCloses \/ SessionFails \/ SessionStarts

Spec == Init /\ [][Next]_vars

(* Polls, samples, answers of getStats, effects and the media keep coming.   *)
SampleShown == \E t \in Tracks : t = primary /\ Sample(t)
Poll        == ReadStats \/ StatsRead

Fairness == WF_vars(SampleShown) /\ WF_vars(Poll)

FairSpec == Spec /\ Fairness

-----------------------------------------------------------------------------
(* A stall the recovery hook acts on is one the browser had: the picture has *)
(* stood through two readings in a row, or nothing came for it between two.  *)
(* Whatever tracks replace each other and whichever video the user shows,    *)
(* the verdict (diagnoseVideoFlow) never compares two of them.               *)
StallsAreReal ==
  /\ Persists => frozen = 2
  /\ status = "transport_stalled" => dark

(* The video the page shows has stopped in a way this browser can tell.      *)
Stopped(t) ==
  /\ stage = "connected" /\ primary = t /\ t \in Streams /\ t \in samples
  /\ play[t] \in {"silent"}
       \union (IF "framesDecoded" \in browser THEN {"undecoded"} ELSE {})
       \union (IF {"framesDecoded", "elementFrames"} \subseteq browser THEN {"unshown"} ELSE {})

(* A picture that stops for good is noticed: however samples and readings    *)
(* alternate, the page ends up, again and again, seeing a cause to reconnect *)
(* (canRecover of useRemoteRecoveryController).                              *)
FreezeIsNoticed == \A t \in Tracks : <>[]Stopped(t) => []<>CanRecover

(* The hook and the presentation decide separately what is broken: when the  *)
(* hook would reconnect, the button of the page offers a way out, and what   *)
(* the button would rebuild is not called a good connection.                 *)
RecoveryIsOffered ==
  /\ CanRecover => NextAction \in {"start", "reconnect"}
  /\ NextAction = "reconnect" => Quality # "good"

(* Together: the watch raises no false alarm, and a real one has a way out.  *)
WatchIsHonest == StallsAreReal /\ RecoveryIsOffered
=============================================================================
