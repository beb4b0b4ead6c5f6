------------------------------ MODULE RemoteAudio ------------------------------
(***************************************************************************)
(* The sound of the remote device: useRemoteAudioController.ts, which gives *)
(* the first audio track that has not ended a stream of its own, shows that *)
(* stream through an effect in the page's <audio> element, plays it, and    *)
(* RemoteAudioControl.tsx in RemoteCommandBar.tsx, where that element      *)
(* lives: it is part of the toolbar's content, which is not rendered while *)
(* the toolbar is collapsed, so every time the toolbar is expanded the page *)
(* has another element.                                                    *)
(*                                                                         *)
(* A stream is named by its track.  A call of play() settles once: it is   *)
(* rejected when its element is paused, gets another stream or leaves the  *)
(* page, and may be rejected by the browser (NotAllowedError) or the media. *)
(* `plays` holds the calls of the current playGeneration; a step that      *)
(* increments it forgets the older ones, whose outcome the hook ignores.   *)
(* The volume is left out, it is treated like `muted`.                     *)
(***************************************************************************)
EXTENDS Integers

CONSTANTS
  Sounds,     \* the audio tracks a session may get
  None,
  MaxElements \* bound: times the toolbar is shown

VARIABLES
  sound,    \* per track: "absent", "live", "ended", or "dead": its peer was closed, without an event
  active,   \* activeTrackRef
  sink,     \* remoteAudioStreamRef
  shown,    \* remoteAudioStream
  ran,      \* the newest run of the effect: its stream, and the element it found
  element,  \* audioElementRef: the number of the element on the page, or None
  elements, \* the elements there have been
  source,   \* per element: srcObject
  on,       \* the elements that play, or are about to
  plays,    \* calls of play() under way: stream, element, and whether the element aborted it
  playback, \* playbackState
  muted,    \* the page's switch
  hushed    \* the elements that are muted

audioVars == <<sound, active, sink, shown, ran, element, elements, source, on, plays,
               playback, muted, hushed>>

Elements == 1..MaxElements

TypeOK ==
  /\ sound \in [Sounds -> {"absent", "live", "ended", "dead"}]
  /\ {active, sink, shown, ran.stream} \subseteq Sounds \union {None}
  /\ {element, ran.element} \subseteq Elements \union {None} /\ elements \in Elements
  /\ source \in [Elements -> Sounds \union {None}]
  /\ on \subseteq Elements /\ hushed \subseteq Elements
  /\ plays \subseteq [stream : Sounds, element : Elements, aborted : BOOLEAN]
  /\ playback \in {"idle", "waiting", "playing", "blocked", "error"} /\ muted \in BOOLEAN

AudioInit ==
  /\ sound = [t \in Sounds |-> "absent"]
  /\ active = None /\ sink = None /\ shown = None
  /\ ran = [stream |-> None, element |-> 1]
  /\ element = 1 /\ elements = 1
  /\ source = [e \in Elements |-> None] /\ on = {} /\ plays = {}
  /\ playback = "idle" /\ muted = FALSE /\ hushed = {}

(* The calls of play() on e are rejected with AbortError.                    *)
Abort(calls, e) == {[p EXCEPT !.aborted = p.aborted \/ p.element = e] : p \in calls}

-----------------------------------------------------------------------------
(* Tracks.                                                                   *)

(* handleRemoteAudioStream, whenever a track came or ended: the first audio  *)
(* track that has not ended becomes the one to hear.                         *)
HandleStream(tracks) ==
  LET live == {t \in Sounds : tracks[t] = "live"}
  IN /\ sound' = tracks
     /\ IF live = {} \/ active \in live
        THEN UNCHANGED <<active, sink, shown, playback>>
        ELSE \E t \in live : active' = t /\ sink' = t /\ shown' = t /\ playback' = "waiting"

SoundArrives(t) ==
  /\ sound[t] = "absent"
  /\ HandleStream([sound EXCEPT ![t] = "live"])
  /\ UNCHANGED <<ran, element, elements, source, on, plays, muted, hushed>>

(* resetRemoteAudio; clearAudioSink reaches the element of the page only.    *)
ResetRemoteAudio ==
  /\ active' = None /\ sink' = None /\ shown' = None /\ playback' = "idle"
  /\ plays' = {}
  /\ source' = IF element = None THEN source ELSE [source EXCEPT ![element] = None]
  /\ on' = on \ {element}
  /\ UNCHANGED <<ran, element, elements, muted, hushed>>

FaultyTrackGoes(t) ==
  /\ HandleStream([sound EXCEPT ![t] = "ended"])
  /\ UNCHANGED <<ran, element, elements, source, on, plays, muted, hushed>>

(* The event "ended" of t: the session's handler takes t out of the stream   *)
(* and hands the rest to the hook; the hook's own listener is still attached *)
(* when no other track took over.                                            *)
TrackGoes(t) ==
  LET tracks == [sound EXCEPT ![t] = "ended"]
  IN IF active = t /\ \A u \in Sounds : tracks[u] # "live"
     THEN sound' = tracks /\ ResetRemoteAudio
     ELSE /\ HandleStream(tracks)
          /\ UNCHANGED <<ran, element, elements, source, on, plays, muted, hushed>>

SoundEnds(t) == sound[t] = "live" /\ TrackGoes(t)

(* The peer connection was closed: its tracks are over, and no event says so. *)
Dead == [t \in Sounds |-> IF sound[t] = "live" THEN "dead" ELSE sound[t]]

-----------------------------------------------------------------------------
(* The effect.                                                               *)

(* attemptPlayback on the element of the page, in which s is shown: a new    *)
(* playGeneration, the page waits.                                           *)
Attempt(s) ==
  /\ plays' = {[stream |-> s, element |-> element, aborted |-> FALSE]}
  /\ playback' = "waiting"

(* The cleanup of the newest run: the stream it showed leaves its element.   *)
Leaves(e) == e = ran.element /\ ran.stream # None /\ source[e] = ran.stream

Cleared == [e \in Elements |-> IF Leaves(e) THEN None ELSE source[e]]

(* React has rendered `shown`: the cleanup, then the effect on the element   *)
(* the page has now, if it has one.                                          *)
Effect ==
  /\ shown # ran.stream
  /\ ran' = [stream |-> shown, element |-> element]
  /\ IF element = None
     THEN /\ source' = Cleared /\ on' = {e \in on : ~Leaves(e)}
          /\ plays' = IF ran.element = None THEN plays ELSE {}
          /\ UNCHANGED <<sink, playback>>
     ELSE /\ source' = [Cleared EXCEPT ![element] = shown]
          /\ on' = {e \in on : ~Leaves(e) /\ e # element} \union (IF shown = None THEN {} ELSE {element})
          /\ sink' = shown
          /\ IF shown = None THEN plays' = {} /\ UNCHANGED playback ELSE Attempt(shown)
  /\ UNCHANGED <<sound, active, shown, element, elements, muted, hushed>>

(* What the resolved play() checks besides the generation                    *)
StillShown(p) == sink = p.stream /\ source[p.element] = p.stream

(* A call of play() settles.                                                 *)
PlayResolves(p) ==
  /\ p \in plays /\ ~p.aborted /\ plays' = plays \ {p}
  /\ playback' = IF StillShown(p) THEN "playing" ELSE playback
  /\ UNCHANGED <<sound, active, sink, shown, ran, element, elements, source, on, muted, hushed>>

PlayRejected(p) ==
  /\ p \in plays /\ plays' = plays \ {p}
  /\ playback' \in IF p.aborted THEN {"error"} ELSE {"blocked", "error"}
  /\ on' = IF p.aborted THEN on ELSE on \ {p.element}
  /\ UNCHANGED <<sound, active, sink, shown, ran, element, elements, source, muted, hushed>>

-----------------------------------------------------------------------------
(* The toolbar and its controls.                                             *)

(* The toolbar collapses, 2.5 s after the pointer left it or by its button:  *)
(* its <audio> leaves the page, which pauses it.                             *)
ToolbarCollapses ==
  /\ element # None /\ element' = None
  /\ on' = on \ {element}
  /\ plays' = Abort(plays, element)
  /\ UNCHANGED <<sound, active, sink, shown, ran, elements, source, playback, muted, hushed>>

ToolbarExpands ==
  /\ element = None /\ elements < MaxElements
  /\ elements' = elements + 1 /\ element' = elements'
  /\ UNCHANGED <<sound, active, sink, shown, ran, source, on, plays, playback, muted, hushed>>

Offered == element # None /\ shown # None

(* The button of a blocked or failed playback                                *)
ResumePlayback ==
  /\ Offered /\ playback \in {"blocked", "error"}
  /\ muted' = FALSE /\ hushed' = hushed \ {element}
  /\ IF sink # None /\ source[element] = sink
     THEN Attempt(sink) /\ on' = on \union {element}
     ELSE UNCHANGED <<plays, playback, on>>
  /\ UNCHANGED <<sound, active, sink, shown, ran, element, elements, source>>

Hush(e, to) == hushed' = IF to THEN hushed \union {e} ELSE hushed \ {e}

(* The same button of any other playback                                     *)
ToggleMuted ==
  /\ Offered /\ playback \notin {"blocked", "error"}
  /\ muted' = ~muted /\ Hush(element, muted')
  /\ UNCHANGED <<sound, active, sink, shown, ran, element, elements, source, on, plays, playback>>

-----------------------------------------------------------------------------
(* The element the newest effect found is still the one on the page.         *)
Undisturbed == element # None /\ ran = [stream |-> shown, element |-> element]

(* What the page says of the sound is so, as long as the toolbar has stayed  *)
(* (useRemoteAudioController): "playing" is the track taken, in an element   *)
(* that plays it; "waiting" has a call of play() that will end it, whatever  *)
(* tracks replaced each other and whichever calls are still to settle; the   *)
(* track is not one that ended; nothing but what the page shows is heard,    *)
(* and nothing while it is muted.                                            *)
AudioIsHonest ==
  /\ active # None => sound[active] # "ended"
  /\ Undisturbed /\ playback = "playing" =>
       element \in on /\ active = sink /\ source[element] = sink /\ sink = shown
  /\ Undisturbed /\ playback = "waiting" => plays # {}
  /\ \A e \in on : e = element /\ (ran.stream = shown => source[e] = shown)
  /\ Undisturbed /\ elements = 1 => (muted <=> element \in hushed)

(* The page says that the remote sound plays only while its element plays    *)
(* it.  (remoteAudioControl.test.tsx:38-42; README.md:25)                    *)
PlayingIsHeard ==
  playback = "playing" /\ shown = ran.stream => element # None /\ element \in on

=============================================================================
