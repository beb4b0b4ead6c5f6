------------------------------ MODULE RemoteStage ------------------------------
(***************************************************************************)
(* What the page builds around a browser session, and takes down with it   *)
(* (resetBrowserRemoteSession and handleRemoteStream of                    *)
(* useRemoteControlController.ts): the videos (VideoWatch), the sound      *)
(* (RemoteAudio), the cursor (RemoteCursor) and the control channel with   *)
(* its heartbeat (browserRemote/channels.ts).  The device keeps sending    *)
(* pictures only while it hears the heartbeat.                             *)
(*                                                                         *)
(* Sound and cursor do not touch each other, and neither needs the readings *)
(* of the statistics: each behaviour follows one of them, its scope, along *)
(* with the tracks, the channel and the session they share.                *)
(*                                                                         *)
(* The other channels and their messages are RemoteClipboard's subject.    *)
(* Every channel is set to "arraybuffer", so Blobs do not come; the        *)
(* handlers of a channel are taken off before it is closed with its session. *)
(***************************************************************************)
EXTENDS VideoWatch

CONSTANTS
  Scopes,    \* of "video", "sound" and "cursor"
  Sounds, MaxElements,
  Displays, Engines, MaxShapes

ASSUME StageAssumption ==
  /\ MaxElements \in Nat \ {0} /\ None \notin Sounds
  /\ MaxShapes \in Nat /\ None \notin Displays
  /\ None \notin Nat \X {"original", "resized"}  \* it is no object URL

VARIABLES
  scope,
  channel, \* readyState of the control channel
  beating, \* echoHeartbeatTimer is set
  framed,  \* previousPrimaryVideoIdRef, or None
  sound, active, sink, shown, ran, audio, elements, source, on, plays, playback, muted, hushed,
  engine, shapes, display, cursor, resource, urls, resizing, pointer, controls, css,
  overlayMode, overlay

Audio  == INSTANCE RemoteAudio WITH element <- audio
Cursor == INSTANCE RemoteCursor

channelVars == <<channel, beating>>
pageSound   == <<active, sink, shown, ran, audio, elements, source, on, plays, playback, muted, hushed>>
audioVars   == <<sound, pageSound>>
cursorVars  == <<engine, shapes, display, cursor, resource, urls, resizing, pointer, controls, css,
                 overlayMode, overlay>>
stageVars   == <<vars, scope, channelVars, framed, audioVars, cursorVars>>

Silence      == UNCHANGED audioVars
NoCursorStep == UNCHANGED <<cursorVars, framed>>

-----------------------------------------------------------------------------
(* The control channel.                                                      *)

(* onopen: the heartbeat starts and the page turns input control on.         *)
ChannelOpens ==
  /\ stage = "connected" /\ link = "open" /\ channel = "connecting"
  /\ channel' = "open" /\ beating' = TRUE
  /\ Cursor!ControlChanges(TRUE)
  /\ UNCHANGED <<vars, scope, framed>> /\ Silence

(* The device or the network starts to close it, which no handler sees.      *)
ChannelCloses ==
  /\ channel = "open" /\ channel' = "closing"
  /\ UNCHANGED <<vars, scope, beating>> /\ Silence /\ NoCursorStep

(* sendEchoHeartbeat of a channel that is not open                           *)
Beat ==
  /\ beating /\ channel # "open" /\ beating' = FALSE
  /\ UNCHANGED <<vars, scope, channel>> /\ Silence /\ NoCursorStep

(* stopEchoHeartbeat, of onclose, an error on a closed channel and closeAll  *)
Closed == channel' = "closed" /\ beating' = FALSE

(* onclose, after onerror if there was one; or the gateway serves another room. *)
LinkGoes ==
  /\ LinkChanges
  /\ IF link' = "closed"
     THEN Closed /\ Cursor!ControlChanges(FALSE)
     ELSE UNCHANGED <<channelVars, cursorVars>>
  /\ UNCHANGED <<scope, framed>> /\ Silence

(* The user switches between watching and controlling.                       *)
ToggleInputControl ==
  /\ scope = "cursor" /\ beating /\ channel \in {"open", "closing"}
  /\ Cursor!ControlChanges(~controls)
  /\ UNCHANGED <<vars, scope, channelVars, framed>> /\ Silence

-----------------------------------------------------------------------------
(* Tracks.                                                                   *)

(* The primary video is another than the one before.                         *)
Replaces(id) == framed # None /\ id # None /\ framed # id

(* The page is rendered with other videos: the overlay comes or goes, and    *)
(* the effect of primaryVideoId.                                             *)
VideosRendered ==
  LET o == Cursor!OverlayFor(\E t \in Tracks : track'[t] = "live")
  IN /\ IF Replaces(primary')
        THEN Cursor!ResetRemoteCursor(o, controls) /\ UNCHANGED display
        ELSE /\ overlay' = o
             /\ UNCHANGED <<engine, shapes, display, cursor, resource, urls, resizing, pointer,
                            controls, css, overlayMode>>
     /\ framed' = IF primary' = None THEN framed ELSE primary'

(* handleRemoteStream for a video track                                      *)
Videos ==
  /\ scope = "cursor"
  /\ \E t \in Tracks : TrackArrives(t) \/ TrackEnds(t) \/ Select(t)
  /\ VideosRendered
  /\ UNCHANGED <<scope, channelVars>> /\ Silence

(* handleRemoteStream for an audio track: the videos get new elements too.   *)
SoundComes ==
  /\ scope = "sound" /\ stage \in {"offered", "connected"}
  /\ \E t \in Sounds : Audio!SoundArrives(t) \/ Audio!SoundEnds(t)
  /\ ShowStreams(track)
  /\ UNCHANGED <<browser, linkVars, play, sessionVars, flowVars, witnessVars,
                 scope, channelVars>> /\ NoCursorStep

-----------------------------------------------------------------------------
(* The session.                                                              *)

(* The close of the session: its peer, its channels, its cursor.             *)
SessionClosed(closedSound) ==
  /\ Closed
  /\ Cursor!ResetRemoteCursor([state |-> "absent", image |-> None], FALSE) /\ display' = None
  /\ closedSound
  /\ UNCHANGED <<scope, framed>>

(* resetBrowserRemoteSession                                                 *)
PageCloses == SessionCloses /\ SessionClosed(sound' = Audio!Dead /\ Audio!ResetRemoteAudio)

(* session.fail: the page keeps the sound's stream until another replaces it. *)
Fails ==
  SessionFails /\ SessionClosed(sound' = Audio!Dead /\ UNCHANGED pageSound)

Starts ==
  /\ SessionStarts /\ channel' = "connecting"
  /\ UNCHANGED <<scope, beating>> /\ Silence /\ NoCursorStep

-----------------------------------------------------------------------------
StageInit ==
  /\ Init /\ scope \in Scopes /\ channel = "connecting" /\ beating = FALSE /\ framed = None
  /\ Audio!AudioInit /\ Cursor!CursorInit
  /\ scope # "video" => browser = AllCounters

VideoScope == scope = "video" /\ UNCHANGED <<scope, channelVars, framed, audioVars, cursorVars>>

VideoOnly == Next /\ VideoScope

Hears ==
  /\ scope = "sound"
  /\ \/ Audio!Effect
     \/ \E p \in plays : Audio!PlayResolves(p) \/ Audio!PlayRejected(p)
     \/ Audio!ToolbarCollapses \/ Audio!ToolbarExpands
     \/ Audio!ResumePlayback \/ Audio!ToggleMuted
  /\ UNCHANGED <<vars, scope, channelVars>> /\ NoCursorStep

Points ==
  /\ scope = "cursor"
  /\ \/ /\ channel = "open"
        /\ \/ \E i \in Cursor!Images, d \in Displays \union {None} : Cursor!ShapeComes(i, d)
           \/ \E d \in Displays \union {None} : Cursor!CaptureChanges(d)
     \/ \E n \in resizing : Cursor!ResizeSettles(n)
     \/ \E touch \in BOOLEAN : Cursor!PointerMoves(touch)
     \/ Cursor!PointerLeaves
  /\ UNCHANGED <<vars, scope, channelVars, framed>> /\ Silence

Together ==
  /\ scope # "video"
  /\ \/ ChannelOpens \/ ChannelCloses \/ Beat \/ LinkGoes \/ ToggleInputControl
     \/ Videos \/ SoundComes
     \/ PageCloses \/ Fails \/ Starts
     \/ Connected /\ UNCHANGED <<scope, channelVars>> /\ Silence /\ NoCursorStep

StageNext == VideoOnly \/ Hears \/ Points \/ Together

StageSpec == StageInit /\ [][StageNext]_stageVars

(* Fairness of VideoWatch, in the behaviours that follow the video           *)
StageFairSpec ==
  /\ StageSpec
  /\ WF_stageVars(VideoScope /\ SampleShown)
  /\ WF_stageVars(VideoScope /\ Poll)

-----------------------------------------------------------------------------
(* The sound: see RemoteAudio; and of a session the page has closed nothing  *)
(* is heard and nothing is offered.                                          *)
SoundIsHonest ==
  /\ Audio!AudioIsHonest
  /\ stage = "idle" => on = {} /\ playback = "idle"

(* See RemoteAudio.                                                          *)
PlayingIsHeard == Audio!PlayingIsHeard

(* The cursor: see RemoteCursor; and no shape outlives the session that sent *)
(* it, nor does an object URL.                                               *)
CursorIsShown ==
  /\ Cursor!CursorIsTheDevices
  /\ stage \in {"idle", "failed"} => cursor = Cursor!DefaultCursor /\ urls = {}

(* The device stops sending pictures when the heartbeat stops                *)
(* (BrowserRemoteChannels): it runs whenever the control channel is open and *)
(* ends with it and with the session, and the page controls the device only  *)
(* over a channel it has seen open.                                          *)
DeviceHearsBeats ==
  /\ channel = "open" => beating
  /\ beating => channel \in {"open", "closing"} /\ stage = "connected"
  /\ controls => channel \in {"open", "closing"} /\ link # "closed"

(* The page shows the device's cursor and controls it exactly as long as the *)
(* session and its control channel last.                                     *)
CursorFollowsSession == CursorIsShown /\ DeviceHearsBeats

=============================================================================
