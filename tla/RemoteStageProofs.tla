--------------------------- MODULE RemoteStageProofs ---------------------------
(***************************************************************************)
(* Proofs that what the page builds around a browser session is true to    *)
(* it: the watch over the picture (WatchIsHonest), the sound               *)
(* (SoundIsHonest), the cursor and the control channel                     *)
(* (CursorFollowsSession), for any tracks, sounds, displays, browsers and  *)
(* bounds.  Each part has an invariant of its own, kept by its own steps;   *)
(* ChannelInv says what the parts owe to the session, and a step of the    *)
(* stage keeps them together.                                              *)
(***************************************************************************)
EXTENDS RemoteStage, TLAPS

-----------------------------------------------------------------------------
(* The watch over the picture.                                               *)

LEMMA ShownDelta ==
  ASSUME NEW b, NEW to, NEW m, 0 \in ElementDelta(b, to, m)
  PROVE  b = to.track /\ m # "more"
  BY BrowserAssumption DEF ElementDelta, Signs

LEMMA StallIsSeen ==
  ASSUME NEW inbound, NEW came \in IF inbound = None THEN {0} ELSE Comes(inbound),
         NEW frames \in IF fresh THEN ElementDelta(seen, element, moved) ELSE {None},
         NEW grew \in IF previous = inbound THEN {came} ELSE Grows,
         NEW verdict, verdict = Verdict(inbound, Same(inbound), grew, frames)
  PROVE  /\ verdict \in Stalling =>
              /\ inbound # None /\ previous = inbound
              /\ came < 3 \/ (fresh /\ seen = element.track /\ moved # "more")
         /\ verdict = "transport_stalled" => inbound # None /\ previous = inbound /\ came = 0
<1> USE DEF Stalling
<1>1. CASE inbound = None \/ ~Same(inbound)
  BY <1>1 DEF Verdict
<1>2. CASE inbound # None /\ Same(inbound)
  <2>1. previous = inbound /\ grew = came /\ came \in Comes(inbound)
    BY <1>2 DEF Same
  <2>2. came \in 0..3 /\ ("framesDecoded" \notin browser => came \in 0..2)
    BY <2>1 DEF Comes, Grows
  <2>3. frames = 0 => fresh /\ seen = element.track /\ moved # "more"
    <3>1. ASSUME frames = 0 PROVE fresh
      BY <3>1, BrowserAssumption
    <3> QED BY <3>1, ShownDelta
  <2>4. CASE "framesDecoded" \in browser
    <3>1. verdict = IF grew = 3 THEN IF frames = 0 THEN "presentation_stalled" ELSE "receiving"
                    ELSE IF grew > 0 THEN "decode_stalled"
                    ELSE IF frames = 1 THEN "receiving" ELSE "transport_stalled"
      BY <1>2, <2>4 DEF Verdict
    <3>2. (verdict \in Stalling => came < 3 \/ frames = 0) /\ (verdict = "transport_stalled" => came = 0)
      BY <2>1, <2>2, <3>1
    <3> QED BY <1>2, <2>1, <2>3, <3>2
  <2>5. CASE "framesDecoded" \notin browser
    <3>1. verdict = IF (grew > 1 /\ "framesReceived" \in browser) \/ frames = 1 THEN "receiving"
                    ELSE IF grew = 0 THEN "transport_stalled"
                    ELSE IF "framesReceived" \notin browser /\ frames = None
                         THEN "receiving" ELSE "decode_stalled"
      BY <1>2, <2>5 DEF Verdict
    <3>2. came < 3 /\ (verdict = "transport_stalled" => came = 0)
      BY <2>1, <2>2, <2>5, <3>1
    <3> QED BY <1>2, <2>1, <3>2
  <2> QED BY <2>4, <2>5
<1> QED BY <1>1, <1>2

WatchTypes ==
  /\ stage \in {"idle", "offered", "connected", "failed"}
  /\ link \in {"open", "closed", "unmatched"}
  /\ streak \in 0..2 /\ frozen \in 0..2

\* The hook counts no more stalls than there were.
StallsCounted == streak <= frozen /\ (status = "transport_stalled" => dark)

WatchInv == WatchTypes /\ StallsCounted

LEMMA WatchInit == Init => WatchInv
  BY BrowserAssumption DEF Init, WatchInv, WatchTypes, StallsCounted

LEMMA RecordKeeps ==
  ASSUME WatchInv, NEW sample, Record(sample), UNCHANGED <<stage, link, frozen, dark>>
  PROVE  WatchInv'
<1> USE DEF WatchInv, WatchTypes, StallsCounted
<1>1. UNCHANGED flowVars \/ (streak' = 0 /\ status' \in {"receiving", "waiting"})
  <2>1. CASE ~Used(sample)
    BY <2>1 DEF Record
  <2>2. CASE Used(sample)
    <3>1. ShowFlow("receiving") \/ ShowFlow("waiting") \/ UNCHANGED flowVars
      BY <2>2 DEF Record
    <3> QED BY <3>1 DEF ShowFlow, Stalling
  <2> QED BY <2>1, <2>2
<1> QED BY <1>1 DEF flowVars

LEMMA StatsReadKeeps ==
  ASSUME WatchInv, StatsRead
  PROVE  WatchInv'
<1> USE DEF WatchInv, WatchTypes, StallsCounted
<1>1. PICK inbound \in Inbound :
        \E came \in IF inbound = None THEN {0} ELSE Comes(inbound) :
            /\ Witness(inbound, came)
            /\ \E frames \in IF fresh THEN ElementDelta(seen, element, moved) ELSE {None} :
               \E grew \in IF previous = inbound THEN {came} ELSE Grows :
                 ShowFlow(Verdict(inbound, Same(inbound), grew, frames))
  BY DEF StatsRead
<1>2. PICK came \in IF inbound = None THEN {0} ELSE Comes(inbound) :
            /\ Witness(inbound, came)
            /\ \E frames \in IF fresh THEN ElementDelta(seen, element, moved) ELSE {None} :
               \E grew \in IF previous = inbound THEN {came} ELSE Grows :
                 ShowFlow(Verdict(inbound, Same(inbound), grew, frames))
  BY <1>1
<1>3. PICK frames \in IF fresh THEN ElementDelta(seen, element, moved) ELSE {None},
           grew \in IF previous = inbound THEN {came} ELSE Grows :
        ShowFlow(Verdict(inbound, Same(inbound), grew, frames))
  BY <1>2
<1> DEFINE verdict == Verdict(inbound, Same(inbound), grew, frames)
           again == inbound # None /\ previous = inbound
           still == came < 3 \/ (fresh /\ seen = element.track /\ moved # "more")
<1>4. /\ verdict \in Stalling => again /\ still
      /\ verdict = "transport_stalled" => again /\ came = 0
  BY StallIsSeen
<1>5. /\ frozen' = IF again /\ still THEN IF frozen < 2 THEN frozen + 1 ELSE 2 ELSE 0
      /\ dark' = (again /\ came = 0)
  BY <1>2 DEF Witness
<1>6. /\ status' = verdict
      /\ streak' = IF verdict \in Stalling THEN IF streak < 2 THEN streak + 1 ELSE 2 ELSE 0
  BY <1>3 DEF ShowFlow
<1>7. stage' = stage /\ link' = link
  BY DEF StatsRead, linkVars
<1> HIDE DEF verdict, again, still
<1>8. (verdict = "transport_stalled") => dark'
  BY <1>4, <1>5
<1>9. streak' <= frozen' /\ streak' \in 0..2 /\ frozen' \in 0..2
  <2>1. streak \in 0..2 /\ frozen \in 0..2 /\ streak <= frozen
    OBVIOUS
  <2>2. CASE again /\ still
    BY <1>5, <1>6, <2>1, <2>2
  <2>3. CASE ~(again /\ still)
    <3>1. verdict \notin Stalling
      BY <1>4, <2>3
    <3> QED BY <1>5, <1>6, <2>1, <2>3, <3>1
  <2> QED BY <2>2, <2>3
<1> QED BY <1>6, <1>7, <1>8, <1>9

LEMMA WatchStep == WatchInv /\ [Next]_vars => WatchInv'
<1> SUFFICES ASSUME WatchInv, [Next]_vars PROVE WatchInv'
  OBVIOUS
<1> USE DEF WatchInv, WatchTypes, StallsCounted, flowVars, witnessVars
<1>1. ASSUME NEW t \in Tracks, TrackArrives(t) \/ TrackEnds(t) \/ PlayChanges(t) \/ Select(t) PROVE WatchInv'
  BY <1>1 DEF TrackArrives, TrackEnds, PlayChanges, Select, linkVars
<1>2. ASSUME NEW t \in Tracks, Sample(t) PROVE WatchInv'
  <2>1. UNCHANGED <<stage, link, frozen, dark>>
    BY <1>2 DEF Sample, linkVars
  <2>2. UNCHANGED flowVars \/ \E running \in BOOLEAN : Record([track |-> t, active |-> running])
    BY <1>2 DEF Sample
  <2> QED BY <2>1, <2>2, RecordKeeps
<1>3. CASE ReadStats
  BY <1>3 DEF ReadStats, linkVars
<1>4. CASE StatsRead
  BY <1>4, StatsReadKeeps
<1>5. CASE Connected \/ LinkChanges \/ SessionStarts
  BY <1>5 DEF Connected, LinkChanges, SessionStarts
<1>6. CASE SessionCloses \/ SessionFails
  BY <1>6, BrowserAssumption DEF SessionCloses, SessionFails, SessionOver
<1>7. CASE UNCHANGED vars
  BY <1>7 DEF vars, linkVars
<1> QED BY <1>1, <1>2, <1>3, <1>4, <1>5, <1>6, <1>7 DEF Next

LEMMA WatchTold == WatchInv => WatchIsHonest
<1> SUFFICES ASSUME WatchInv PROVE WatchIsHonest
  OBVIOUS
<1> USE DEF WatchInv, WatchTypes, StallsCounted
<1>1. StallsAreReal
  BY DEF StallsAreReal, Persists
<1>2. RecoveryIsOffered
  BY DEF RecoveryIsOffered, CanRecover, NextAction, Recoverable, Quality, Persists, Stalling
<1> QED BY <1>1, <1>2 DEF WatchIsHonest

-----------------------------------------------------------------------------
(* The sound.                                                                *)

Elements == Audio!Elements
Calls == [stream : Sounds, element : Elements, aborted : BOOLEAN]

AudioTypes ==
  /\ sound \in [Sounds -> {"absent", "live", "ended", "dead"}]
  /\ shown \in Sounds \union {None}
  /\ ran \in [stream : Sounds \union {None}, element : Elements \union {None}]
  /\ elements \in Elements /\ audio \in {elements, None}
  /\ ran.element # None => ran.element <= elements
  /\ source \in [Elements -> Sounds \union {None}]
  /\ plays \subseteq Calls /\ muted \in BOOLEAN

\* The page has one stream, of a track that has not ended; the stream of the effect's newest
\* run, if it is another one, is over.
OneStream ==
  /\ active = shown /\ sink = shown
  /\ shown # None => sound[shown] \in {"live", "dead"}
  /\ ran.stream # None => sound[ran.stream] # "absent"
  /\ ran.stream \notin {None, shown} => sound[ran.stream] \in {"ended", "dead"}

\* Only the element of the page plays, and a call of play() that can succeed is one of it.
Playing ==
  /\ on \subseteq {audio} \ {None}
  /\ on # {} /\ ran.stream = shown => source[audio] = shown
  /\ shown = None => on = {} /\ plays = {} /\ playback = "idle"
  /\ \A p \in plays : ~p.aborted => p.element = audio /\ audio \in on /\ source[audio] = p.stream
  /\ \A p, q \in plays : p = q

Reported ==
  /\ Audio!Undisturbed /\ playback = "playing" => audio \in on
  /\ Audio!Undisturbed /\ playback = "waiting" => plays # {}
  /\ elements = 1 /\ audio # None => (muted <=> audio \in hushed)

AudioInv == AudioTypes /\ OneStream /\ Playing /\ Reported

LEMMA NoneIsNone == None \notin Elements /\ None \notin Sounds
  BY BrowserAssumption, StageAssumption DEF Elements, Audio!Elements

LEMMA AudioInitKeeps == Audio!AudioInit => AudioInv
<1> SUFFICES ASSUME Audio!AudioInit PROVE AudioInv
  OBVIOUS
<1>1. 1 \in Elements
  BY StageAssumption DEF Elements, Audio!Elements
<1> USE DEF Audio!AudioInit, Elements
<1>2. AudioTypes
  <2>1. /\ sound \in [Sounds -> {"absent", "live", "ended", "dead"}]
        /\ source \in [Elements -> Sounds \union {None}]
    OBVIOUS
  <2>2. ran \in [stream : Sounds \union {None}, element : Elements \union {None}]
    BY <1>1
  <2>3. elements \in Elements /\ audio \in {elements, None} /\ ran.element <= elements
    BY <1>1
  <2>4. shown \in Sounds \union {None} /\ plays \subseteq Calls /\ muted \in BOOLEAN
    OBVIOUS
  <2> QED BY <2>1, <2>2, <2>3, <2>4, Zenon DEF AudioTypes
<1>3. OneStream /\ Playing
  BY DEF OneStream, Playing
<1>4. Reported
  BY DEF Reported
<1> QED BY <1>2, <1>3, <1>4 DEF AudioInv

LEMMA HandleKeeps ==
  ASSUME AudioInv, NEW tracks, Audio!HandleStream(tracks),
         UNCHANGED <<ran, audio, elements, source, on, plays, muted, hushed>>,
         tracks \in [Sounds -> {"absent", "live", "ended", "dead"}],
         \A t \in Sounds : sound[t] \in {"ended", "dead"} => tracks[t] = sound[t],
         \A t \in Sounds : sound[t] # "absent" => tracks[t] # "absent",
         shown # None => tracks[shown] # "ended" \/ \E t \in Sounds : tracks[t] = "live"
  PROVE  AudioInv'
<1> USE NoneIsNone
<1>0. sound' = tracks
  BY DEF Audio!HandleStream
<1> USE <1>0
<1>1. CASE UNCHANGED <<active, sink, shown, playback>>
  <2>1. shown # None => tracks[shown] \in {"live", "dead"}
    BY <1>1 DEF AudioInv, AudioTypes, OneStream, Audio!HandleStream
  <2>2. AudioTypes'
    BY <1>1 DEF AudioInv, AudioTypes
  <2>3. OneStream'
    BY <1>1, <2>1 DEF AudioInv, AudioTypes, OneStream
  <2>4. Playing' /\ Reported'
    BY <1>1 DEF AudioInv, Playing, Reported, Audio!Undisturbed
  <2> QED BY <2>2, <2>3, <2>4 DEF AudioInv
<1>2. ASSUME NEW t \in Sounds, tracks[t] = "live", active \notin {u \in Sounds : tracks[u] = "live"},
             active' = t, sink' = t, shown' = t, playback' = "waiting"
      PROVE  AudioInv'
  <2>1. ran.stream # t
    BY <1>2 DEF AudioInv, AudioTypes, OneStream
  <2>2. ran.stream # None => tracks[ran.stream] \in {"ended", "dead"}
    BY <1>2 DEF AudioInv, AudioTypes, OneStream
  <2>3. AudioTypes'
    BY <1>2 DEF AudioInv, AudioTypes
  <2>4. OneStream'
    BY <1>2, <2>1, <2>2 DEF AudioInv, AudioTypes, OneStream
  <2>5. Playing' /\ Reported'
    BY <1>2, <2>1 DEF AudioInv, AudioTypes, Playing, Reported, Audio!Undisturbed
  <2> QED BY <2>3, <2>4, <2>5 DEF AudioInv
<1> QED BY <1>1, <1>2 DEF Audio!HandleStream

LEMMA ResetKeeps ==
  ASSUME AudioInv, Audio!ResetRemoteAudio,
         sound' \in [Sounds -> {"absent", "live", "ended", "dead"}],
         \A t \in Sounds : sound[t] \in {"ended", "dead"} => sound'[t] = sound[t],
         \A t \in Sounds : sound[t] # "absent" => sound'[t] # "absent",
         shown # None => sound'[shown] \in {"ended", "dead"}
  PROVE  AudioInv' /\ shown' = None
<1> USE NoneIsNone DEF Audio!ResetRemoteAudio, Elements
<1>1. AudioTypes'
  <2>1. source' \in [Elements -> Sounds \union {None}]
    BY DEF AudioInv, AudioTypes
  <2> QED BY <2>1 DEF AudioInv, AudioTypes
<1>2. ran.stream # None => sound'[ran.stream] \in {"ended", "dead"}
  BY DEF AudioInv, AudioTypes, OneStream
<1>3. OneStream'
  BY <1>2 DEF OneStream
<1>4. on' = {}
  BY DEF AudioInv, Playing
<1>5. Playing'
  BY <1>4 DEF Playing
<1>6. Reported'
  BY DEF AudioInv, Reported, Audio!Undisturbed
<1> QED BY <1>1, <1>3, <1>5, <1>6 DEF AudioInv

LEMMA ArrivalKeeps ==
  ASSUME AudioInv, NEW t \in Sounds, Audio!SoundArrives(t)
  PROVE  AudioInv'
<1> DEFINE tracks == [sound EXCEPT ![t] = "live"]
<1>1. /\ sound[t] = "absent" /\ Audio!HandleStream(tracks)
      /\ UNCHANGED <<ran, audio, elements, source, on, plays, muted, hushed>>
  BY DEF Audio!SoundArrives
<1>2. /\ tracks \in [Sounds -> {"absent", "live", "ended", "dead"}]
      /\ tracks[t] = "live"
      /\ \A u \in Sounds : u # t => tracks[u] = sound[u]
  BY DEF AudioInv, AudioTypes
<1> HIDE DEF tracks
<1> QED BY <1>1, <1>2, HandleKeeps

LEMMA EndKeeps ==
  ASSUME AudioInv, NEW t \in Sounds, Audio!SoundEnds(t)
  PROVE  AudioInv'
<1> DEFINE tracks == [sound EXCEPT ![t] = "ended"]
<1>1. sound[t] = "live" /\ Audio!TrackGoes(t)
  BY DEF Audio!SoundEnds
<1>2. /\ tracks \in [Sounds -> {"absent", "live", "ended", "dead"}]
      /\ tracks[t] = "ended"
      /\ \A u \in Sounds : u # t => tracks[u] = sound[u]
  BY DEF AudioInv, AudioTypes
<1>3. active = shown /\ (shown # None => shown \in Sounds /\ sound[shown] # "ended")
  BY DEF AudioInv, AudioTypes, OneStream
<1>4. \/ sound' = tracks /\ active = t /\ Audio!ResetRemoteAudio
      \/ /\ Audio!HandleStream(tracks) /\ (active # t \/ \E u \in Sounds : tracks[u] = "live")
         /\ UNCHANGED <<ran, audio, elements, source, on, plays, muted, hushed>>
  BY <1>1 DEF Audio!TrackGoes
<1> HIDE DEF tracks
<1>5. CASE sound' = tracks /\ active = t /\ Audio!ResetRemoteAudio
  BY <1>1, <1>2, <1>3, <1>5, ResetKeeps
<1>6. CASE /\ Audio!HandleStream(tracks) /\ (active # t \/ \E u \in Sounds : tracks[u] = "live")
           /\ UNCHANGED <<ran, audio, elements, source, on, plays, muted, hushed>>
  BY <1>1, <1>2, <1>3, <1>6, HandleKeeps
<1> QED BY <1>4, <1>5, <1>6

LEMMA DeadKeeps ==
  ASSUME AudioInv, sound' = Audio!Dead
  PROVE  /\ UNCHANGED <<active, sink, shown, ran, audio, elements, source, on, plays, playback, muted, hushed>>
              => AudioInv'
         /\ Audio!ResetRemoteAudio => AudioInv' /\ shown' = None
<1>1. /\ sound' \in [Sounds -> {"absent", "live", "ended", "dead"}]
      /\ \A t \in Sounds : sound[t] \in {"ended", "dead"} => sound'[t] = sound[t]
      /\ \A t \in Sounds : sound[t] # "absent" => sound'[t] # "absent"
      /\ \A t \in Sounds : sound[t] \in {"live", "dead"} => sound'[t] = "dead"
  BY DEF Audio!Dead, AudioInv, AudioTypes
<1>2. shown # None => shown \in Sounds /\ sound[shown] \in {"live", "dead"}
  BY DEF AudioInv, AudioTypes, OneStream
<1>3. ASSUME UNCHANGED <<active, sink, shown, ran, audio, elements, source, on, plays, playback, muted, hushed>>
      PROVE  AudioInv'
  <2>1. AudioTypes'
    BY <1>1, <1>3 DEF AudioInv, AudioTypes
  <2>2. OneStream'
    BY <1>1, <1>2, <1>3 DEF AudioInv, AudioTypes, OneStream
  <2>3. Playing' /\ Reported'
    BY <1>3 DEF AudioInv, Playing, Reported, Audio!Undisturbed
  <2> QED BY <2>1, <2>2, <2>3 DEF AudioInv
<1>4. ASSUME Audio!ResetRemoteAudio PROVE AudioInv' /\ shown' = None
  BY <1>1, <1>2, <1>4, ResetKeeps
<1> QED BY <1>3, <1>4

\* A call of play() on the element of the page.
LEMMA AttemptCalls ==
  ASSUME NEW s \in Sounds, audio \in Elements, Audio!Attempt(s)
  PROVE  /\ plays' \subseteq Calls /\ plays' # {} /\ playback' = "waiting"
         /\ \A p \in plays' : ~p.aborted /\ p.element = audio /\ p.stream = s
         /\ \A p, q \in plays' : p = q
<1>1. plays' = {[stream |-> s, element |-> audio, aborted |-> FALSE]} /\ playback' = "waiting"
  BY DEF Audio!Attempt
<1> DEFINE call == [stream |-> s, element |-> audio, aborted |-> FALSE]
<1>2. call \in Calls /\ call.aborted = FALSE /\ call.element = audio /\ call.stream = s
  BY DEF Calls
<1> HIDE DEF call
<1> QED BY <1>1, <1>2 DEF call

LEMMA EffectKeeps == ASSUME AudioInv, Audio!Effect PROVE AudioInv'
<1> USE NoneIsNone
<1>1. /\ shown # ran.stream /\ ran' = [stream |-> shown, element |-> audio]
      /\ UNCHANGED <<sound, active, shown, audio, elements, muted, hushed>>
  BY DEF Audio!Effect
<1>2. ran'.stream = shown /\ ran'.element = audio
  BY <1>1
<1>3. Audio!Cleared \in [Elements -> Sounds \union {None}]
  BY DEF AudioInv, AudioTypes, Elements, Audio!Cleared
<1>4. ran' \in [stream : Sounds \union {None}, element : Elements \union {None}]
  BY <1>1 DEF AudioInv, AudioTypes
<1>5. audio # None => audio = elements /\ audio \in Elements
  BY DEF AudioInv, AudioTypes
<1>6. elements \in Elements /\ elements <= elements
  BY DEF AudioInv, AudioTypes, Elements, Audio!Elements
<1>7. (elements = 1 /\ audio # None => (muted <=> audio \in hushed))'
  BY <1>1 DEF AudioInv, Reported
<1>8. CASE audio = None
  <2>1. /\ source' = Audio!Cleared /\ on' \subseteq on /\ (plays' = plays \/ plays' = {})
        /\ UNCHANGED <<sink, playback>>
    BY <1>8 DEF Audio!Effect
  <2>2. on = {} /\ \A p \in plays : p.aborted
    BY <1>8 DEF AudioInv, Playing
  <2>3. AudioTypes'
    BY <1>1, <1>2, <1>3, <1>4, <1>8, <2>1 DEF AudioInv, AudioTypes
  <2>4. OneStream'
    BY <1>1, <1>2, <2>1 DEF AudioInv, AudioTypes, OneStream
  <2>5. Playing'
    BY <1>1, <2>1, <2>2 DEF AudioInv, Playing
  <2>6. Reported'
    BY <1>1, <1>7, <1>8 DEF Reported, Audio!Undisturbed
  <2> QED BY <2>3, <2>4, <2>5, <2>6 DEF AudioInv
<1>9. CASE audio # None
  <2>1. /\ source' = [Audio!Cleared EXCEPT ![audio] = shown]
        /\ sink' = shown
        /\ on' = {e \in on : ~Audio!Leaves(e) /\ e # audio} \union (IF shown = None THEN {} ELSE {audio})
        /\ IF shown = None THEN plays' = {} /\ UNCHANGED playback ELSE Audio!Attempt(shown)
    BY <1>9 DEF Audio!Effect
  <2>2. source' \in [Elements -> Sounds \union {None}] /\ source'[audio] = shown
    BY <1>3, <1>5, <1>9, <2>1 DEF AudioInv, AudioTypes
  <2>3. on' = IF shown = None THEN {} ELSE {audio}
    BY <2>1 DEF AudioInv, Playing
  <2>4. OneStream'
    BY <1>1, <1>2, <2>1 DEF AudioInv, AudioTypes, OneStream
  <2>5. CASE shown = None
    <3>1. plays' = {} /\ playback' = "idle"
      BY <2>1, <2>5 DEF AudioInv, Playing
    <3>2. AudioTypes'
      BY <1>1, <1>2, <1>4, <1>5, <1>6, <2>2, <3>1 DEF AudioInv, AudioTypes
    <3>3. Playing'
      BY <1>1, <2>3, <2>5, <3>1 DEF Playing
    <3>4. Reported'
      BY <1>7, <3>1 DEF Reported
    <3> QED BY <2>4, <3>2, <3>3, <3>4 DEF AudioInv
  <2>6. CASE shown # None
    <3>1. shown \in Sounds
      BY <2>6 DEF AudioInv, AudioTypes
    <3>2. /\ plays' \subseteq Calls /\ plays' # {} /\ playback' = "waiting"
          /\ \A p \in plays' : ~p.aborted /\ p.element = audio /\ p.stream = shown
          /\ \A p, q \in plays' : p = q
      BY <1>5, <1>9, <2>1, <2>6, <3>1, AttemptCalls
    <3>3. AudioTypes'
      BY <1>1, <1>2, <1>4, <1>5, <1>6, <2>2, <3>2 DEF AudioInv, AudioTypes
    <3>4. Playing'
      BY <1>1, <1>9, <2>2, <2>3, <2>6, <3>2 DEF Playing
    <3>5. Reported'
      BY <1>7, <3>2 DEF Reported
    <3> QED BY <2>4, <3>3, <3>4, <3>5 DEF AudioInv
  <2> QED BY <2>5, <2>6
<1> QED BY <1>8, <1>9

LEMMA ResolvesKeeps == ASSUME AudioInv, NEW p, Audio!PlayResolves(p) PROVE AudioInv'
<1> USE NoneIsNone DEF Audio!PlayResolves
<1>1. p \in plays /\ ~p.aborted /\ plays' = {}
  BY DEF AudioInv, Playing
<1>2. p.element = audio /\ audio \in on /\ source[audio] = p.stream /\ shown # None
  BY <1>1 DEF AudioInv, Playing
<1>3. Audio!Undisturbed => playback' = "playing"
  <2>1. Audio!Undisturbed => source[audio] = shown /\ sink = shown
    BY <1>2 DEF AudioInv, Playing, OneStream, Audio!Undisturbed
  <2> QED BY <1>2, <2>1 DEF Audio!StillShown
<1>4. UNCHANGED <<sound, active, sink, shown, ran, audio, elements, source, on, muted, hushed>>
  OBVIOUS
<1>5. AudioTypes' /\ OneStream'
  BY <1>1, <1>4 DEF AudioInv, AudioTypes, OneStream
<1>6. Playing'
  BY <1>1, <1>2, <1>4 DEF AudioInv, Playing
<1>7. Audio!Undisturbed' = Audio!Undisturbed
  BY <1>4 DEF Audio!Undisturbed
<1>8. (elements = 1 /\ audio # None => (muted <=> audio \in hushed))'
  BY <1>4 DEF AudioInv, Reported
<1>9. Reported'
  BY <1>2, <1>3, <1>4, <1>7, <1>8 DEF Reported
<1> QED BY <1>5, <1>6, <1>9 DEF AudioInv

LEMMA RejectedKeeps == ASSUME AudioInv, NEW p, Audio!PlayRejected(p) PROVE AudioInv'
<1> USE NoneIsNone DEF Audio!PlayRejected
<1>1. plays' = {} /\ playback' \in {"error", "blocked"} /\ on' \subseteq on /\ shown # None
  BY DEF AudioInv, Playing
<1>2. UNCHANGED <<sound, active, sink, shown, ran, audio, elements, source, muted, hushed>>
  OBVIOUS
<1>3. AudioTypes' /\ OneStream'
  BY <1>1, <1>2 DEF AudioInv, AudioTypes, OneStream
<1>4. Playing'
  BY <1>1, <1>2 DEF AudioInv, Playing
<1>5. (elements = 1 /\ audio # None => (muted <=> audio \in hushed))'
  BY <1>2 DEF AudioInv, Reported
<1>6. Reported'
  BY <1>1, <1>5 DEF Reported
<1> QED BY <1>3, <1>4, <1>6 DEF AudioInv

LEMMA CollapseKeeps == ASSUME AudioInv, Audio!ToolbarCollapses PROVE AudioInv'
<1> USE NoneIsNone DEF Audio!ToolbarCollapses
<1>1. /\ audio # None /\ audio' = None /\ plays' = Audio!Abort(plays, audio) /\ on' = {}
      /\ UNCHANGED <<sound, active, sink, shown, ran, elements, source, playback, muted, hushed>>
  BY DEF AudioInv, Playing
<1>2. plays' \subseteq Calls /\ \A p \in plays' : p.aborted
  <2>1. ASSUME NEW p \in plays PROVE /\ [p EXCEPT !.aborted = p.aborted \/ p.element = audio] \in Calls
                                     /\ [p EXCEPT !.aborted = p.aborted \/ p.element = audio].aborted
    <3>1. p \in Calls
      BY DEF AudioInv, AudioTypes
    <3>2. p.aborted \/ p.element = audio
      BY DEF AudioInv, Playing
    <3> QED BY <3>1, <3>2 DEF Calls
  <2>2. ASSUME NEW c \in plays' PROVE c \in Calls /\ c.aborted
    <3>1. PICK p \in plays : c = [p EXCEPT !.aborted = p.aborted \/ p.element = audio]
      BY <1>1 DEF Audio!Abort
    <3> QED BY <2>1, <3>1, Zenon
  <2> QED BY <2>2, Zenon
<1>3. \A p, q \in plays' : p = q
  BY <1>1 DEF AudioInv, Playing, Audio!Abort
<1>4. plays = {} => plays' = {}
  BY <1>1 DEF Audio!Abort
<1>5. AudioTypes'
  BY <1>1, <1>2 DEF AudioInv, AudioTypes
<1>6. OneStream'
  BY <1>1 DEF AudioInv, OneStream
<1>7. Playing'
  BY <1>1, <1>2, <1>3, <1>4 DEF AudioInv, Playing
<1>8. Reported'
  BY <1>1 DEF Reported, Audio!Undisturbed
<1> QED BY <1>5, <1>6, <1>7, <1>8 DEF AudioInv

LEMMA ExpandKeeps == ASSUME AudioInv, Audio!ToolbarExpands PROVE AudioInv'
<1> USE NoneIsNone DEF Audio!ToolbarExpands
<1>1. /\ audio = None /\ elements' = elements + 1 /\ audio' = elements + 1
      /\ elements \in Nat \ {0} /\ elements' \in Elements
      /\ UNCHANGED <<sound, active, sink, shown, ran, source, on, plays, playback, muted, hushed>>
  BY StageAssumption DEF AudioInv, AudioTypes, Elements, Audio!Elements
<1>2. ran.element # None => ran.element <= elements
  BY DEF AudioInv, AudioTypes
<1>3. ran.element # audio'
  <2>1. ran.element \in Nat \/ ran.element = None
    BY DEF AudioInv, AudioTypes, Elements, Audio!Elements
  <2> QED BY <1>1, <1>2, <2>1
<1>4. (ran.element # None => ran.element <= elements)'
  <2>1. ran.element \in Nat \/ ran.element = None
    BY DEF AudioInv, AudioTypes, Elements, Audio!Elements
  <2> QED BY <1>1, <1>2, <2>1
<1>5. AudioTypes'
  BY <1>1, <1>4 DEF AudioInv, AudioTypes
<1>6. OneStream'
  BY <1>1 DEF AudioInv, OneStream
<1>7. on = {}
  BY <1>1 DEF AudioInv, Playing
<1>8. Playing'
  BY <1>1, <1>7 DEF AudioInv, Playing
<1>9. ~Audio!Undisturbed' /\ elements' # 1
  BY <1>1, <1>3 DEF Audio!Undisturbed
<1>10. Reported'
  BY <1>9 DEF Reported
<1> QED BY <1>5, <1>6, <1>8, <1>10 DEF AudioInv

LEMMA ResumeKeeps == ASSUME AudioInv, Audio!ResumePlayback PROVE AudioInv'
<1> USE NoneIsNone DEF Audio!ResumePlayback, Audio!Offered
<1>1. /\ audio # None /\ shown # None /\ muted' = FALSE /\ hushed' = hushed \ {audio}
      /\ playback \in {"blocked", "error"}
      /\ UNCHANGED <<sound, active, sink, shown, ran, audio, elements, source>>
  OBVIOUS
<1>2. audio \in Elements /\ shown \in Sounds /\ sink = shown
  BY <1>1 DEF AudioInv, AudioTypes, OneStream
<1>3. (elements = 1 /\ audio # None => (muted <=> audio \in hushed))'
  BY <1>1
<1>4. OneStream'
  BY <1>1 DEF AudioInv, OneStream
<1>5. CASE source[audio] = sink
  <2>1. Audio!Attempt(shown) /\ on' = on \union {audio}
    BY <1>1, <1>2, <1>5
  <2>2. /\ plays' \subseteq Calls /\ plays' # {} /\ playback' = "waiting"
        /\ \A p \in plays' : ~p.aborted /\ p.element = audio /\ p.stream = shown
        /\ \A p, q \in plays' : p = q
    BY <1>2, <2>1, AttemptCalls
  <2>3. AudioTypes'
    BY <1>1, <2>2 DEF AudioInv, AudioTypes
  <2>4. on' = {audio}
    BY <1>1, <2>1 DEF AudioInv, Playing
  <2>5. Playing'
    BY <1>1, <1>2, <1>5, <2>2, <2>4 DEF Playing
  <2>6. Reported'
    BY <1>3, <2>2 DEF Reported
  <2> QED BY <1>4, <2>3, <2>5, <2>6 DEF AudioInv
<1>6. CASE source[audio] # sink
  <2>1. UNCHANGED <<plays, playback, on>>
    BY <1>6
  <2>2. AudioTypes'
    BY <1>1, <2>1 DEF AudioInv, AudioTypes
  <2>3. Playing'
    BY <1>1, <2>1 DEF AudioInv, Playing
  <2>4. Reported'
    BY <1>1, <1>3, <2>1 DEF AudioInv, Reported
  <2> QED BY <1>4, <2>2, <2>3, <2>4 DEF AudioInv
<1> QED BY <1>5, <1>6

LEMMA ToggleKeeps == ASSUME AudioInv, Audio!ToggleMuted PROVE AudioInv'
<1>1. /\ muted' = ~muted
      /\ hushed' = IF muted' THEN hushed \union {audio} ELSE hushed \ {audio}
      /\ UNCHANGED <<sound, active, sink, shown, ran, audio, elements, source, on, plays, playback>>
  BY DEF Audio!ToggleMuted, Audio!Hush
<1>2. AudioTypes'
  BY <1>1 DEF AudioInv, AudioTypes
<1>3. OneStream' /\ Playing'
  BY <1>1 DEF AudioInv, OneStream, Playing
<1>4. muted' <=> audio \in hushed'
  BY <1>1
<1>5. Audio!Undisturbed' = Audio!Undisturbed
  BY <1>1 DEF Audio!Undisturbed
<1>6. Reported'
  BY <1>1, <1>4, <1>5 DEF AudioInv, Reported
<1> QED BY <1>2, <1>3, <1>6 DEF AudioInv

LEMMA AudioTold == AudioInv => Audio!AudioIsHonest
<1> SUFFICES ASSUME AudioInv PROVE Audio!AudioIsHonest
  OBVIOUS
<1> USE NoneIsNone
<1>1. active # None => sound[active] # "ended"
  BY DEF AudioInv, OneStream
<1>2. Audio!Undisturbed => ran.stream = shown /\ audio # None
  BY DEF Audio!Undisturbed
<1>3. Audio!Undisturbed /\ playback = "playing" =>
        audio \in on /\ active = sink /\ source[audio] = sink /\ sink = shown
  BY <1>2 DEF AudioInv, OneStream, Playing, Reported
<1>4. Audio!Undisturbed /\ playback = "waiting" => plays # {}
  BY DEF AudioInv, Reported
<1>5. \A e \in on : e = audio /\ (ran.stream = shown => source[e] = shown)
  BY DEF AudioInv, Playing
<1>6. Audio!Undisturbed /\ elements = 1 => (muted <=> audio \in hushed)
  BY <1>2 DEF AudioInv, Reported
<1> QED BY <1>1, <1>3, <1>4, <1>5, <1>6 DEF Audio!AudioIsHonest

-----------------------------------------------------------------------------
(* The cursor.                                                               *)

Urls     == Nat \X {"original", "resized"}
Overlays == [state : {"absent", "new", "hidden", "visible"}, image : Urls \union {None}]
Cursors  == [image : Cursor!Images, screen : Displays \union {None}]
Pointers == [inside : BOOLEAN, touch : BOOLEAN]

\* A shape and the object URLs that were made for it.
IsResource(r) ==
  /\ r \in [shape : Nat, original : Urls \union {None}, resized : Urls \union {None}]
  /\ r.original \in {None, <<r.shape, "original">>}
  /\ r.resized \in {None, <<r.shape, "resized">>}

CursorTypes ==
  /\ shapes \in Nat /\ resizing \subseteq Nat \ {0}
  /\ cursor \in Cursors /\ display \in Displays \union {None}
  /\ IsResource(resource)
  /\ pointer \in Pointers /\ controls \in BOOLEAN /\ overlay \in Overlays

\* What the page shows of the shape.
Shown ==
  /\ css.url \in {None, resource.original, resource.resized}
  /\ overlay.state = "visible" => overlay.image = resource.original
  /\ controls /\ pointer.inside /\ cursor.image # "hidden" /\ overlay.state \in {"hidden", "visible"} =>
       (overlay.state = "visible" <=> css.kind = "none")

CursorInv ==
  /\ CursorTypes /\ Shown
  /\ urls = Cursor!UrlsOf(resource)
  /\ display # None => cursor.screen \in {None, display}

LEMMA DefaultTypes ==
  /\ Cursor!DefaultCursor \in Cursors /\ Cursor!DefaultCursor.screen = None
  /\ IsResource(Cursor!NoResource) /\ Cursor!UrlsOf(Cursor!NoResource) = {}
  /\ Cursor!NoResource.shape = 0
  BY DEF Cursor!DefaultCursor, Cursor!NoResource, Cursors, Cursor!Images, IsResource, Cursor!UrlsOf

\* applyCursor shows the cursor it is given.
LEMMA ApplyShows ==
  ASSUME NEW c, NEW r, NEW p \in Pointers, NEW o \in Overlays, NEW a \in BOOLEAN,
         IsResource(r), Cursor!Apply(c, r, p, o, a),
         cursor' = c, resource' = r, pointer' = p, controls' = a
  PROVE  Shown' /\ overlay' \in Overlays
<1>1. Cursor!CssImage(c, r) \in {None, r.original, r.resized}
  BY DEF Cursor!CssImage
<1>2. r.original \in Urls \union {None}
  BY DEF IsResource
<1>3. /\ Cursor!Hidden(o) \in Overlays
      /\ Cursor!Hidden(o).state \in {"absent", "hidden"}
  BY DEF Cursor!Hidden, Overlays
<1>4. CASE ~a \/ c.image = "hidden" \/ ~Cursor!NeedsOverlay(c, r, p)
  <2>1. /\ overlay' = Cursor!Hidden(o)
        /\ css' = IF ~a THEN [kind |-> "unset", url |-> None]
                  ELSE IF c.image = "hidden" THEN Cursor!NoCursor
                  ELSE [kind |-> "cursor", url |-> Cursor!CssImage(c, r)]
    BY <1>4 DEF Cursor!Apply
  <2>2. css'.url \in {None, r.original, r.resized} /\ (a /\ c.image # "hidden" => css'.kind = "cursor")
    BY <1>1, <2>1 DEF Cursor!NoCursor
  <2> QED BY <1>3, <2>1, <2>2 DEF Shown
<1>5. CASE ~(~a \/ c.image = "hidden" \/ ~Cursor!NeedsOverlay(c, r, p))
  <2>1. /\ css' = Cursor!NoCursor
        /\ overlay' = IF o.state = "absent" THEN o
                      ELSE [state |-> IF p.inside THEN "visible" ELSE "hidden", image |-> r.original]
    BY <1>5 DEF Cursor!Apply
  <2>2. css'.url = None /\ css'.kind = "none"
    BY <2>1 DEF Cursor!NoCursor
  <2>3. CASE o.state = "absent"
    BY <2>1, <2>2, <2>3 DEF Shown, Overlays
  <2>4. CASE o.state # "absent"
    <3>1. /\ overlay'.state = IF p.inside THEN "visible" ELSE "hidden"
          /\ overlay'.image = r.original /\ overlay' \in Overlays
      BY <1>2, <2>1, <2>4 DEF Overlays
    <3> QED BY <2>2, <3>1 DEF Shown
  <2> QED BY <2>3, <2>4
<1> QED BY <1>4, <1>5

LEMMA CursorInitKeeps == Cursor!CursorInit => CursorInv
<1> SUFFICES ASSUME Cursor!CursorInit PROVE CursorInv
  OBVIOUS
<1> USE DEF Cursor!CursorInit
<1>1. CursorTypes
  BY DefaultTypes DEF CursorTypes, Pointers, Overlays
<1>2. Shown /\ urls = Cursor!UrlsOf(resource)
  BY DefaultTypes DEF Shown
<1> QED BY <1>1, <1>2 DEF CursorInv

LEMMA ResetShows ==
  ASSUME CursorInv, NEW o \in Overlays, NEW a \in BOOLEAN, Cursor!ResetRemoteCursor(o, a),
         display' \in Displays \union {None}
  PROVE  CursorInv' /\ cursor' = Cursor!DefaultCursor /\ resource' = Cursor!NoResource /\ urls' = {}
<1> USE DefaultTypes DEF Cursor!ResetRemoteCursor
<1>1. urls' = {}
  BY DEF CursorInv
<1>2. Shown' /\ overlay' \in Overlays
  BY ApplyShows DEF CursorInv, CursorTypes
<1>3. CursorTypes'
  BY <1>2 DEF CursorInv, CursorTypes
<1> QED BY <1>1, <1>2, <1>3 DEF CursorInv

LEMMA ControlShows ==
  ASSUME CursorInv, NEW a \in BOOLEAN, Cursor!ControlChanges(a)
  PROVE  CursorInv' /\ UNCHANGED <<cursor, resource, urls, display, resizing>>
<1> USE DEF Cursor!ControlChanges
<1>1. Shown' /\ overlay' \in Overlays
  BY ApplyShows DEF CursorInv, CursorTypes
<1>2. CursorTypes'
  BY <1>1 DEF CursorInv, CursorTypes, IsResource
<1> QED BY <1>1, <1>2 DEF CursorInv, Cursor!UrlsOf

LEMMA ShapeShows ==
  ASSUME CursorInv, NEW image \in Cursor!Images, NEW screen \in Displays \union {None},
         Cursor!ShapeComes(image, screen)
  PROVE  CursorInv'
<1> DEFINE c == [image |-> image, screen |-> screen]
           n == shapes + 1
           r == [shape |-> n, resized |-> None,
                 original |-> IF c.image \in {"fits", "dense", "huge"} THEN Cursor!Url(n, "original") ELSE None]
<1>1. shapes' = shapes + 1 /\ UNCHANGED <<display, pointer, controls>>
  BY DEF Cursor!ShapeComes
<1>2. CASE ~Cursor!Accepts(screen)
  <2>1. UNCHANGED <<cursor, resource, urls, resizing, css, overlay>>
    BY <1>2 DEF Cursor!ShapeComes
  <2> QED BY <1>1, <2>1 DEF CursorInv, CursorTypes, Shown, IsResource, Cursor!UrlsOf
<1>3. CASE Cursor!Accepts(screen)
  <2>1. Cursor!Show(c)
    BY <1>3 DEF Cursor!ShapeComes
  <2>2. n \in Nat \ {0} /\ c \in Cursors /\ c.screen = screen
    BY DEF CursorInv, CursorTypes, Cursors
  <2>3. IsResource(r)
    BY <2>2 DEF IsResource, Urls, Cursor!Url
  <2>4. /\ cursor' = c /\ resource' = r
        /\ urls' = (urls \ Cursor!UrlsOf(resource)) \union Cursor!UrlsOf(r)
        /\ Cursor!Apply(c, r, pointer, overlay, controls)
        /\ resizing' = resizing \union {n} \/ resizing' = resizing
    BY <2>1 DEF Cursor!Show
  <2>5. screen = None \/ display = None \/ screen = display
    BY <1>3 DEF Cursor!Accepts
  <2> HIDE DEF c, n, r
  <2>6. Shown' /\ overlay' \in Overlays
    BY <1>1, <2>3, <2>4, ApplyShows DEF CursorInv, CursorTypes
  <2>7. CursorTypes'
    <3>1. IsResource(resource)'
      BY <2>3, <2>4 DEF IsResource
    <3>2. shapes \in Nat /\ resizing \subseteq Nat \ {0}
      BY DEF CursorInv, CursorTypes
    <3>3. shapes' \in Nat
      BY <1>1, <3>2
    <3>4. resizing' \subseteq Nat \ {0}
      BY <2>2, <2>4, <3>2, Zenon
    <3> QED BY <1>1, <2>2, <2>4, <2>6, <3>1, <3>3, <3>4 DEF CursorInv, CursorTypes
  <2>8. urls' = Cursor!UrlsOf(resource)'
    BY <2>4 DEF CursorInv, Cursor!UrlsOf
  <2> QED BY <1>1, <2>2, <2>4, <2>5, <2>6, <2>7, <2>8 DEF CursorInv
<1> QED BY <1>2, <1>3

LEMMA ResizeShows ==
  ASSUME CursorInv, NEW n, Cursor!ResizeSettles(n)
  PROVE  CursorInv' /\ cursor' = cursor /\ (resource.shape = 0 => UNCHANGED <<resource, urls>>)
<1> USE StageAssumption
<1>1. n \in Nat \ {0} /\ resizing' = resizing \ {n} /\ UNCHANGED <<shapes, display, cursor, pointer, controls>>
  BY DEF Cursor!ResizeSettles, CursorInv, CursorTypes
<1>2. CASE UNCHANGED <<resource, urls, css, overlayMode, overlay>>
  BY <1>1, <1>2 DEF CursorInv, CursorTypes, Shown, IsResource, Cursor!UrlsOf
<1>3. CASE /\ Cursor!Belongs(n)
           /\ resource' = [resource EXCEPT !.resized = Cursor!Url(n, "resized")]
           /\ urls' = (urls \ {resource.resized}) \union {Cursor!Url(n, "resized")}
           /\ Cursor!Apply(cursor, resource', pointer, overlay, controls)
  <2>1. resource.shape = n
    BY <1>3 DEF Cursor!Belongs
  <2>2. /\ resource'.shape = n /\ resource'.resized = <<n, "resized">>
        /\ resource'.original = resource.original
        /\ resource' \in [shape : Nat, original : Urls \union {None}, resized : Urls \union {None}]
    BY <1>1, <1>3, <2>1 DEF CursorInv, CursorTypes, IsResource, Cursor!Url, Urls
  <2>3. IsResource(resource')
    BY <2>1, <2>2 DEF CursorInv, CursorTypes, IsResource
  <2>4. urls' = Cursor!UrlsOf(resource)'
    <3>1. resource.original \in {None, <<n, "original">>} /\ resource.resized \in {None, <<n, "resized">>}
      BY <2>1 DEF CursorInv, CursorTypes, IsResource
    <3>2. <<n, "resized">> # None /\ <<n, "original">> # <<n, "resized">>
      BY <1>1
    <3>3. urls = {resource.original, resource.resized} \ {None}
      BY DEF CursorInv, Cursor!UrlsOf
    <3>4. urls' = (urls \ {resource.resized}) \union {<<n, "resized">>}
      BY <1>3 DEF Cursor!Url
    <3>5. Cursor!UrlsOf(resource)' = {resource.original, <<n, "resized">>} \ {None}
      BY <2>2 DEF Cursor!UrlsOf
    <3> QED BY <3>1, <3>2, <3>3, <3>4, <3>5
  <2>5. Shown' /\ overlay' \in Overlays
    BY <1>1, <1>3, <2>3, ApplyShows DEF CursorInv, CursorTypes
  <2>6. CursorTypes'
    BY <1>1, <2>3, <2>5 DEF CursorInv, CursorTypes, IsResource
  <2> QED BY <1>1, <2>1, <2>4, <2>5, <2>6 DEF CursorInv
<1> QED BY <1>1, <1>2, <1>3 DEF Cursor!ResizeSettles

LEMMA PointerShows ==
  ASSUME CursorInv, (\E touch \in BOOLEAN : Cursor!PointerMoves(touch)) \/ Cursor!PointerLeaves
  PROVE  CursorInv' /\ UNCHANGED <<cursor, resource, urls>>
<1>1. ASSUME NEW touch \in BOOLEAN, Cursor!PointerMoves(touch) PROVE CursorInv' /\ UNCHANGED <<cursor, resource, urls>>
  <2> DEFINE p == [inside |-> TRUE, touch |-> touch]
  <2>1. pointer' = p /\ UNCHANGED <<shapes, display, cursor, resource, urls, resizing, controls>>
    BY <1>1 DEF Cursor!PointerMoves
  <2>2. p \in Pointers
    BY DEF Pointers
  <2>3. CASE pointer # p \/ overlay.state \in {"absent", "new"}
    <3>1. Cursor!Apply(cursor, resource, p, overlay, controls)
      BY <1>1, <2>3 DEF Cursor!PointerMoves
    <3> HIDE DEF p
    <3>2. Shown' /\ overlay' \in Overlays
      BY <2>1, <2>2, <3>1, ApplyShows DEF CursorInv, CursorTypes
    <3>3. CursorTypes'
      BY <2>1, <2>2, <3>2 DEF CursorInv, CursorTypes, IsResource
    <3> QED BY <2>1, <3>2, <3>3 DEF CursorInv, Cursor!UrlsOf
  <2>4. CASE ~(pointer # p \/ overlay.state \in {"absent", "new"})
    <3>1. pointer' = pointer /\ UNCHANGED <<css, overlay>>
      BY <1>1, <2>1, <2>4 DEF Cursor!PointerMoves
    <3> HIDE DEF p
    <3> QED BY <2>1, <3>1 DEF CursorInv, CursorTypes, Shown, IsResource, Cursor!UrlsOf
  <2> QED BY <2>3, <2>4
<1>2. ASSUME Cursor!PointerLeaves PROVE CursorInv' /\ UNCHANGED <<cursor, resource, urls>>
  <2>1. /\ pointer' = [pointer EXCEPT !.inside = FALSE]
        /\ overlay' = IF overlay.state = "new" THEN overlay ELSE Cursor!Hidden(overlay)
        /\ UNCHANGED <<shapes, display, cursor, resource, urls, resizing, controls, css>>
    BY <1>2 DEF Cursor!PointerLeaves
  <2>2. pointer' \in Pointers /\ pointer'.inside = FALSE
    BY <2>1 DEF CursorInv, CursorTypes, Pointers
  <2>3. overlay' \in Overlays /\ overlay'.state # "visible"
    BY <2>1 DEF CursorInv, CursorTypes, Overlays, Cursor!Hidden
  <2>4. CursorTypes'
    BY <2>1, <2>2, <2>3 DEF CursorInv, CursorTypes, IsResource
  <2>5. Shown'
    BY <2>1, <2>2, <2>3 DEF CursorInv, Shown
  <2> QED BY <2>1, <2>4, <2>5 DEF CursorInv, Cursor!UrlsOf
<1> QED BY <1>1, <1>2

\* The stage is rendered with another overlay.
LEMMA OverlayShows ==
  ASSUME CursorInv, NEW video, overlay' = Cursor!OverlayFor(video),
         UNCHANGED <<shapes, display, cursor, resource, urls, resizing, pointer, controls, css>>
  PROVE  CursorInv'
<1>1. overlay' = overlay \/ (overlay' \in Overlays /\ overlay'.state \in {"absent", "new"})
  BY DEF Cursor!OverlayFor, Overlays
<1>2. overlay' \in Overlays
  BY <1>1 DEF CursorInv, CursorTypes
<1>3. CursorTypes'
  BY <1>2 DEF CursorInv, CursorTypes, IsResource
<1>4. Shown'
  BY <1>1 DEF CursorInv, Shown
<1> QED BY <1>3, <1>4 DEF CursorInv, Cursor!UrlsOf

LEMMA CursorTold == CursorInv => Cursor!CursorIsTheDevices
<1> SUFFICES ASSUME CursorInv PROVE Cursor!CursorIsTheDevices
  OBVIOUS
<1>1. css.url \in urls \union {None} /\ (overlay.state = "visible" => overlay.image \in urls \union {None})
  BY DEF CursorInv, Shown, Cursor!UrlsOf
<1>2. resource.resized # None => resource.resized = Cursor!Url(resource.shape, "resized")
  BY DEF CursorInv, CursorTypes, IsResource, Cursor!Url
<1> QED BY <1>1, <1>2 DEF CursorInv, Shown, Cursor!CursorIsTheDevices

-----------------------------------------------------------------------------
(* The control channel and the session.                                      *)

\* The control channel is open, or on its way out, in a connected session only; a closed
\* session leaves neither shape nor sound, and the behaviours that follow the video have none.
ChannelInv ==
  /\ channel \in {"connecting", "open", "closing", "closed"} /\ beating \in BOOLEAN
  /\ channel = "open" => beating
  /\ beating => channel \in {"open", "closing"}
  /\ channel \in {"open", "closing"} => stage = "connected" /\ link # "closed"
  /\ controls => channel \in {"open", "closing"}
  /\ scope = "video" => channel = "connecting"

Emptied ==
  /\ stage \in {"idle", "failed"} \/ scope = "video" =>
       cursor = Cursor!DefaultCursor /\ resource = Cursor!NoResource
  /\ stage = "idle" \/ scope = "video" => shown = None

StageInv == WatchInv /\ AudioInv /\ CursorInv /\ ChannelInv /\ Emptied

LEMMA StageInitKeeps == StageInit => StageInv
<1> SUFFICES ASSUME StageInit PROVE StageInv
  OBVIOUS
<1>1. WatchInv /\ AudioInv /\ CursorInv
  BY WatchInit, AudioInitKeeps, CursorInitKeeps DEF StageInit
<1>2. ChannelInv
  BY DEF StageInit, Init, Cursor!CursorInit, ChannelInv
<1>3. Emptied
  BY DEF StageInit, Init, Cursor!CursorInit, Audio!AudioInit, Emptied
<1> QED BY <1>1, <1>2, <1>3 DEF StageInv

-----------------------------------------------------------------------------
(* What a step leaves alone.                                                 *)

LEMMA WatchSame == WatchInv /\ UNCHANGED <<stage, link, flowVars, witnessVars>> => WatchInv'
  BY DEF WatchInv, WatchTypes, StallsCounted, flowVars, witnessVars

LEMMA AudioSame == AudioInv /\ UNCHANGED audioVars => AudioInv' /\ shown' = shown
<1> SUFFICES ASSUME AudioInv, UNCHANGED audioVars PROVE AudioInv' /\ shown' = shown
  OBVIOUS
<1> USE DEF audioVars, pageSound
<1>1. AudioTypes'
  BY DEF AudioInv, AudioTypes
<1>2. OneStream'
  BY DEF AudioInv, OneStream
<1>3. Playing' /\ Reported'
  BY DEF AudioInv, Playing, Reported, Audio!Undisturbed
<1> QED BY <1>1, <1>2, <1>3 DEF AudioInv

LEMMA CursorSame ==
  CursorInv /\ UNCHANGED cursorVars => CursorInv' /\ UNCHANGED <<cursor, resource, controls>>
<1> SUFFICES ASSUME CursorInv, UNCHANGED cursorVars
             PROVE  CursorInv' /\ UNCHANGED <<cursor, resource, controls>>
  OBVIOUS
<1> USE DEF cursorVars
<1>1. CursorTypes'
  BY DEF CursorInv, CursorTypes, IsResource
<1>2. Shown'
  BY DEF CursorInv, Shown
<1> QED BY <1>1, <1>2 DEF CursorInv, Cursor!UrlsOf

\* The flags of the cursor and of the stage that a lemma about the cursor needs.
LEMMA CursorFacts == CursorInv => controls \in BOOLEAN /\ overlay \in Overlays /\ display \in Displays \union {None}
  BY DEF CursorInv, CursorTypes

-----------------------------------------------------------------------------
(* The steps.                                                                *)

LEMMA VideoStep == ASSUME StageInv, VideoOnly PROVE StageInv'
<1>1. WatchInv'
  BY WatchStep DEF StageInv, VideoOnly
<1>2. AudioInv' /\ shown' = shown /\ CursorInv' /\ UNCHANGED <<cursor, resource, controls>>
  BY AudioSame, CursorSame DEF StageInv, VideoOnly, VideoScope
<1>3. scope = "video" /\ scope' = scope /\ UNCHANGED <<channel, beating>>
  BY DEF VideoOnly, VideoScope, channelVars
<1>4. ChannelInv'
  BY <1>2, <1>3 DEF StageInv, ChannelInv
<1>5. Emptied'
  BY <1>2, <1>3 DEF StageInv, Emptied
<1> QED BY <1>1, <1>2, <1>4, <1>5 DEF StageInv

LEMMA HearsStep == ASSUME StageInv, Hears PROVE StageInv'
<1>1. AudioInv
  BY DEF StageInv
<1>2. AudioInv'
  BY <1>1, EffectKeeps, ResolvesKeeps, RejectedKeeps, CollapseKeeps, ExpandKeeps, ResumeKeeps, ToggleKeeps, Zenon
     DEF Hears
<1>3. shown' = shown
  BY DEF Hears, Audio!Effect, Audio!PlayResolves, Audio!PlayRejected, Audio!ToolbarCollapses,
         Audio!ToolbarExpands, Audio!ResumePlayback, Audio!ToggleMuted
<1>4. UNCHANGED <<vars, scope, channelVars, cursorVars>>
  BY DEF Hears, NoCursorStep
<1>5. WatchInv'
  BY <1>4, WatchSame DEF StageInv, vars, linkVars
<1>6. CursorInv' /\ UNCHANGED <<cursor, resource, controls>>
  BY <1>4, CursorSame DEF StageInv
<1>7. UNCHANGED <<stage, link, scope, channel, beating>>
  BY <1>4 DEF vars, linkVars, channelVars
<1>8. ChannelInv' /\ Emptied'
  BY <1>3, <1>6, <1>7 DEF StageInv, ChannelInv, Emptied
<1> QED BY <1>2, <1>5, <1>6, <1>8 DEF StageInv

LEMMA PointsStep == ASSUME StageInv, Points PROVE StageInv'
<1>1. /\ scope = "cursor" /\ UNCHANGED <<vars, scope, channelVars>> /\ UNCHANGED audioVars
  BY DEF Points, Silence
<1>2. WatchInv' /\ AudioInv' /\ shown' = shown
  BY <1>1, WatchSame, AudioSame DEF StageInv, vars, linkVars
<1>3. UNCHANGED <<stage, link, scope, channel, beating>>
  BY <1>1 DEF vars, linkVars, channelVars
<1>4. CursorInv
  BY DEF StageInv
<1>5. CASE channel = "open" /\ \E i \in Cursor!Images, d \in Displays \union {None} : Cursor!ShapeComes(i, d)
  <2>1. CursorInv'
    BY <1>4, <1>5, ShapeShows
  <2>2. controls' = controls /\ stage = "connected"
    BY <1>5 DEF StageInv, ChannelInv, Cursor!ShapeComes
  <2> QED BY <1>1, <1>2, <1>3, <2>1, <2>2 DEF StageInv, ChannelInv, Emptied
<1>6. CASE channel = "open" /\ \E d \in Displays \union {None} : Cursor!CaptureChanges(d)
  <2>1. PICK d \in Displays \union {None} :
          display' = d /\ Cursor!ResetRemoteCursor(overlay, controls)
    BY <1>6 DEF Cursor!CaptureChanges
  <2>2. CursorInv' /\ controls' = controls
    BY <1>4, <2>1, ResetShows, CursorFacts DEF Cursor!ResetRemoteCursor
  <2>3. stage = "connected"
    BY <1>6 DEF StageInv, ChannelInv
  <2> QED BY <1>1, <1>2, <1>3, <2>2, <2>3 DEF StageInv, ChannelInv, Emptied
<1>7. CASE \E n \in resizing : Cursor!ResizeSettles(n)
  <2>1. CursorInv' /\ cursor' = cursor /\ (resource.shape = 0 => UNCHANGED <<resource, urls>>)
    BY <1>4, <1>7, ResizeShows
  <2>2. controls' = controls
    BY <1>7 DEF Cursor!ResizeSettles
  <2>3. Emptied'
    BY <1>2, <1>3, <2>1, DefaultTypes DEF StageInv, Emptied
  <2> QED BY <1>2, <1>3, <2>1, <2>2, <2>3 DEF StageInv, ChannelInv
<1>8. CASE (\E touch \in BOOLEAN : Cursor!PointerMoves(touch)) \/ Cursor!PointerLeaves
  <2>1. CursorInv' /\ UNCHANGED <<cursor, resource, urls>>
    BY <1>4, <1>8, PointerShows
  <2>2. controls' = controls
    BY <1>8 DEF Cursor!PointerMoves, Cursor!PointerLeaves
  <2> QED BY <1>2, <1>3, <2>1, <2>2 DEF StageInv, ChannelInv, Emptied
<1> QED BY <1>5, <1>6, <1>7, <1>8 DEF Points

\* The steps of the control channel.
LEMMA ChannelStep ==
  ASSUME StageInv, ChannelOpens \/ ChannelCloses \/ Beat \/ LinkGoes \/ ToggleInputControl, scope # "video"
  PROVE  StageInv'
<1>1. UNCHANGED audioVars /\ scope' = scope
  BY DEF ChannelOpens, ChannelCloses, Beat, LinkGoes, ToggleInputControl, Silence
<1>2. AudioInv' /\ shown' = shown
  BY <1>1, AudioSame DEF StageInv
<1>3. WatchInv'
  <2>1. UNCHANGED vars \/ LinkChanges
    BY DEF ChannelOpens, ChannelCloses, Beat, LinkGoes, ToggleInputControl
  <2> QED BY <2>1, WatchStep DEF StageInv, Next
<1>4. CursorInv /\ controls \in BOOLEAN
  BY CursorFacts DEF StageInv
<1>5. CASE ChannelOpens
  <2>1. Cursor!ControlChanges(TRUE) /\ UNCHANGED <<stage, link>>
    BY <1>5 DEF ChannelOpens, vars, linkVars
  <2>2. CursorInv' /\ UNCHANGED <<cursor, resource>>
    BY <1>4, <2>1, ControlShows
  <2>3. ChannelInv' /\ Emptied'
    BY <1>1, <1>2, <1>5, <2>1, <2>2 DEF ChannelOpens, StageInv, ChannelInv, Emptied
  <2> QED BY <1>2, <1>3, <2>2, <2>3 DEF StageInv
<1>6. CASE ChannelCloses \/ Beat
  <2>1. UNCHANGED cursorVars /\ UNCHANGED <<stage, link>>
    BY <1>6 DEF ChannelCloses, Beat, NoCursorStep, vars, linkVars
  <2>2. CursorInv' /\ UNCHANGED <<cursor, resource, controls>>
    BY <1>4, <2>1, CursorSame
  <2>3. ChannelInv' /\ Emptied'
    BY <1>1, <1>2, <1>6, <2>1, <2>2 DEF ChannelCloses, Beat, StageInv, ChannelInv, Emptied
  <2> QED BY <1>2, <1>3, <2>2, <2>3 DEF StageInv
<1>7. CASE LinkGoes
  <2>1. stage = "connected" /\ stage' = stage /\ link' \in {"closed", "unmatched"}
    BY <1>7 DEF LinkGoes, LinkChanges
  <2>2. CASE link' = "closed"
    <3>1. channel' = "closed" /\ beating' = FALSE /\ Cursor!ControlChanges(FALSE)
      BY <1>7, <2>2 DEF LinkGoes, Closed
    <3>2. CursorInv' /\ UNCHANGED <<cursor, resource>> /\ controls' = FALSE
      BY <1>4, <3>1, ControlShows DEF Cursor!ControlChanges
    <3>3. ChannelInv' /\ Emptied'
      BY <1>1, <1>2, <2>1, <3>1, <3>2, scope # "video" DEF StageInv, ChannelInv, Emptied
    <3> QED BY <1>2, <1>3, <3>2, <3>3 DEF StageInv
  <2>3. CASE link' = "unmatched"
    <3>1. UNCHANGED <<channel, beating>> /\ UNCHANGED cursorVars
      BY <1>7, <2>3 DEF LinkGoes, channelVars
    <3>2. CursorInv' /\ UNCHANGED <<cursor, resource, controls>>
      BY <1>4, <3>1, CursorSame
    <3>3. ChannelInv' /\ Emptied'
      BY <1>1, <1>2, <2>1, <2>3, <3>1, <3>2 DEF StageInv, ChannelInv, Emptied
    <3> QED BY <1>2, <1>3, <3>2, <3>3 DEF StageInv
  <2> QED BY <2>1, <2>2, <2>3
<1>8. CASE ToggleInputControl
  <2>1. /\ channel \in {"open", "closing"} /\ Cursor!ControlChanges(~controls)
        /\ UNCHANGED <<stage, link, channel, beating>>
    BY <1>8 DEF ToggleInputControl, vars, linkVars, channelVars
  <2>2. CursorInv' /\ UNCHANGED <<cursor, resource>>
    BY <1>4, <2>1, ControlShows
  <2>3. ChannelInv' /\ Emptied'
    BY <1>1, <1>2, <2>1, <2>2 DEF StageInv, ChannelInv, Emptied
  <2> QED BY <1>2, <1>3, <2>2, <2>3 DEF StageInv
<1> QED BY <1>5, <1>6, <1>7, <1>8

\* The page is rendered with other videos.
LEMMA RenderedShows ==
  ASSUME CursorInv, VideosRendered
  PROVE  /\ CursorInv' /\ controls' = controls
         /\ UNCHANGED <<cursor, resource>> \/ (cursor' = Cursor!DefaultCursor /\ resource' = Cursor!NoResource)
<1> DEFINE video == \E t \in Tracks : track'[t] = "live"
           o == Cursor!OverlayFor(video)
<1>1. o \in Overlays /\ controls \in BOOLEAN /\ display \in Displays \union {None}
  BY CursorFacts DEF Cursor!OverlayFor, Overlays
<1>2. CASE Cursor!ResetRemoteCursor(o, controls) /\ UNCHANGED display
  BY <1>1, <1>2, ResetShows DEF Cursor!ResetRemoteCursor
<1>3. CASE /\ overlay' = o
           /\ UNCHANGED <<engine, shapes, display, cursor, resource, urls, resizing, pointer,
                          controls, css, overlayMode>>
  BY <1>3, OverlayShows
<1> QED BY <1>2, <1>3 DEF VideosRendered

LEMMA TracksStep == ASSUME StageInv, Videos \/ SoundComes, scope # "video" PROVE StageInv'
<1>1. CASE Videos
  <2>1. PICK t \in Tracks : TrackArrives(t) \/ TrackEnds(t) \/ Select(t)
    BY <1>1 DEF Videos
  <2>2. WatchInv' /\ UNCHANGED <<stage, link>>
    BY <2>1, WatchStep DEF StageInv, Next, TrackArrives, TrackEnds, Select, linkVars
  <2>3. AudioInv' /\ shown' = shown
    BY <1>1, AudioSame DEF StageInv, Videos, Silence
  <2>4. /\ CursorInv' /\ controls' = controls
        /\ UNCHANGED <<cursor, resource>> \/ (cursor' = Cursor!DefaultCursor /\ resource' = Cursor!NoResource)
    BY <1>1, RenderedShows DEF StageInv, Videos
  <2>5. UNCHANGED <<scope, channel, beating>>
    BY <1>1 DEF Videos, channelVars
  <2>6. ChannelInv' /\ Emptied'
    BY <2>2, <2>3, <2>4, <2>5 DEF StageInv, ChannelInv, Emptied
  <2> QED BY <2>2, <2>3, <2>4, <2>6 DEF StageInv
<1>2. CASE SoundComes
  <2>1. /\ UNCHANGED <<linkVars, flowVars, witnessVars, scope, channelVars>> /\ UNCHANGED cursorVars
        /\ stage \in {"offered", "connected"}
        /\ \E t \in Sounds : Audio!SoundArrives(t) \/ Audio!SoundEnds(t)
    BY <1>2 DEF SoundComes, NoCursorStep
  <2>2. WatchInv' /\ UNCHANGED <<stage, link>>
    BY <2>1, WatchSame DEF StageInv, linkVars
  <2>3. AudioInv'
    BY <2>1, ArrivalKeeps, EndKeeps DEF StageInv
  <2>4. CursorInv' /\ UNCHANGED <<cursor, resource, controls>>
    BY <2>1, CursorSame DEF StageInv
  <2>5. UNCHANGED <<scope, channel, beating>>
    BY <2>1 DEF channelVars
  <2>6. ChannelInv' /\ Emptied'
    BY <2>1, <2>2, <2>4, <2>5, scope # "video" DEF StageInv, ChannelInv, Emptied
  <2> QED BY <2>2, <2>3, <2>4, <2>6 DEF StageInv
<1> QED BY <1>1, <1>2

LEMMA SessionStep ==
  ASSUME StageInv, scope # "video",
         \/ PageCloses \/ Fails \/ Starts
         \/ Connected /\ UNCHANGED <<scope, channelVars>> /\ Silence /\ NoCursorStep
  PROVE  StageInv'
<1>1. WatchInv'
  <2>1. SessionCloses \/ SessionFails \/ SessionStarts \/ Connected
    BY DEF PageCloses, Fails, Starts
  <2> QED BY <2>1, WatchStep DEF StageInv, Next
<1>2. AudioInv /\ CursorInv
  BY DEF StageInv
<1>3. CASE PageCloses \/ Fails
  <2>1. /\ stage' \in {"idle", "failed"} /\ link' = "closed" /\ channel' = "closed" /\ beating' = FALSE
        /\ Cursor!ResetRemoteCursor([state |-> "absent", image |-> None], FALSE) /\ display' = None
        /\ scope' = scope
    BY <1>3 DEF PageCloses, Fails, SessionCloses, SessionFails, SessionOver, SessionClosed, Closed
  <2>2. [state |-> "absent", image |-> None] \in Overlays
    BY DEF Overlays
  <2>3. CursorInv' /\ cursor' = Cursor!DefaultCursor /\ resource' = Cursor!NoResource /\ controls' = FALSE
    BY <1>2, <2>1, <2>2, ResetShows DEF Cursor!ResetRemoteCursor
  <2>4. AudioInv' /\ (stage' = "idle" => shown' = None)
    <3>1. CASE PageCloses
      BY <1>2, <3>1, DeadKeeps DEF PageCloses, SessionClosed
    <3>2. CASE Fails
      <4>1. stage' = "failed" /\ sound' = Audio!Dead /\ UNCHANGED pageSound
        BY <3>2 DEF Fails, SessionFails, SessionClosed
      <4> QED BY <1>2, <4>1, DeadKeeps DEF pageSound
    <3> QED BY <1>3, <3>1, <3>2
  <2>5. ChannelInv' /\ Emptied'
    BY <2>1, <2>3, <2>4, scope # "video" DEF ChannelInv, Emptied
  <2> QED BY <1>1, <2>3, <2>4, <2>5 DEF StageInv
<1>4. CASE Starts \/ (Connected /\ UNCHANGED <<scope, channelVars>> /\ Silence /\ NoCursorStep)
  <2>1. UNCHANGED <<scope, beating>> /\ UNCHANGED audioVars /\ UNCHANGED cursorVars
    BY <1>4 DEF Starts, Silence, NoCursorStep, channelVars
  <2>2. AudioInv' /\ CursorInv' /\ UNCHANGED <<cursor, resource, controls>>
    BY <1>2, <2>1, AudioSame, CursorSame
  <2>3. \/ stage \in {"idle", "failed"} /\ stage' = "offered" /\ channel' = "connecting"
        \/ stage = "offered" /\ stage' = "connected" /\ link' = "open" /\ channel' = channel
    BY <1>4 DEF Starts, Connected, SessionStarts, channelVars
  <2>4. ChannelInv' /\ Emptied'
    BY <2>1, <2>2, <2>3, scope # "video" DEF StageInv, ChannelInv, Emptied
  <2> QED BY <1>1, <2>2, <2>4 DEF StageInv
<1> QED BY <1>3, <1>4

LEMMA StageStep == StageInv /\ [StageNext]_stageVars => StageInv'
<1> SUFFICES ASSUME StageInv, [StageNext]_stageVars PROVE StageInv'
  OBVIOUS
<1>1. CASE UNCHANGED stageVars
  <2>1. UNCHANGED vars /\ UNCHANGED audioVars /\ UNCHANGED cursorVars /\ UNCHANGED <<scope, channel, beating>>
    BY <1>1 DEF stageVars, channelVars
  <2>2. WatchInv' /\ AudioInv' /\ CursorInv' /\ UNCHANGED <<stage, link, shown, cursor, resource, controls>>
    BY <2>1, WatchSame, AudioSame, CursorSame DEF StageInv, vars, linkVars
  <2> QED BY <2>1, <2>2 DEF StageInv, ChannelInv, Emptied
<1> QED BY <1>1, VideoStep, HearsStep, PointsStep, ChannelStep, TracksStep, SessionStep, Zenon
        DEF StageNext, Together

-----------------------------------------------------------------------------
(* The results.                                                              *)

\* The parts stay what they are: the invariant of the stage holds in every behaviour.
THEOREM StageInvariance == StageSpec => []StageInv
  BY StageInitKeeps, StageStep, PTL DEF StageSpec

\* A stall the recovery hook acts on is one the browser had, and when the hook would reconnect
\* the page's button offers a way out.
THEOREM WatchStaysHonest == StageSpec => []WatchIsHonest
<1>1. StageInv => WatchIsHonest
  BY WatchTold DEF StageInv
<1> QED BY <1>1, StageInvariance, PTL

\* What the page says of the sound is so, whatever tracks replace each other and whichever calls
\* of play() are still to settle; of a closed session nothing is heard.
THEOREM SoundStaysHonest == StageSpec => []SoundIsHonest
<1>1. StageInv => SoundIsHonest
  <2>1. StageInv /\ stage = "idle" => on = {} /\ playback = "idle"
    BY DEF StageInv, Emptied, AudioInv, Playing
  <2> QED BY <2>1, AudioTold DEF StageInv, SoundIsHonest
<1> QED BY <1>1, StageInvariance, PTL

\* The page shows the device's cursor, and controls it, exactly as long as the session and its
\* control channel last; the heartbeat runs whenever the channel is open.
THEOREM CursorStaysWithSession == StageSpec => []CursorFollowsSession
<1>1. StageInv => CursorFollowsSession
  <2> SUFFICES ASSUME StageInv PROVE CursorFollowsSession
    OBVIOUS
  <2>1. Cursor!CursorIsTheDevices
    BY CursorTold DEF StageInv
  <2>2. stage \in {"idle", "failed"} => cursor = Cursor!DefaultCursor /\ urls = {}
    BY DefaultTypes DEF StageInv, Emptied, CursorInv
  <2>3. DeviceHearsBeats
    BY DEF StageInv, ChannelInv, DeviceHearsBeats
  <2> QED BY <2>1, <2>2, <2>3 DEF CursorFollowsSession, CursorIsShown
<1> QED BY <1>1, StageInvariance, PTL
=============================================================================
