------------------------------ MODULE RemoteInput ------------------------------
(***************************************************************************)
(* Keyboard, pointer and paste input of a remote session:                  *)
(*   browserRemote/input.ts (BrowserRemoteInput: what the remote side holds *)
(*   down, and the pointer positions that could not be sent yet),          *)
(*   useRemoteInputController.ts (the DOM handlers of the stage) and the   *)
(*   control channel of browserRemote/channels.ts.                         *)
(*                                                                         *)
(* A position is the number of the pointer event it comes from, so a later *)
(* position is a greater one.  A pasted or typed text is not modelled,     *)
(* only that it is sent.  Every send of a turn meets the same channel: all *)
(* of them throw or none does.  Modifier keys are physical keys; the keys  *)
(* "copy", "paste" and "other" are pressed and released in one handler.    *)
(***************************************************************************)
EXTENDS Integers, FiniteSets

CONSTANTS
  Modifiers,  \* HOLD_MODIFIER_KEYS, by physical key
  Family,     \* Modifiers -> {"Control", "Meta", "Shift", "Alt"}
  Left,       \* the keys releasePasteShortcutModifiers names
  Pointers,
  Absent,
  MaxEvents,  \* bound: DOM events handled
  MaxFaults   \* bound: changes of the channel, of its buffer and of the screen

ASSUME ModifierAssumption ==
  /\ Family \in [Modifiers -> {"Control", "Meta", "Shift", "Alt"}]
  /\ Left \subseteq Modifiers

ASSUME PositionAssumption ==
  /\ MaxEvents \in Nat /\ MaxFaults \in Nat
  /\ Absent \notin Nat \union Pointers \union {"suppress", "fallback"}

VARIABLES
  mac,       \* targetPlatform = Client_MAC
  readsLocal,\* the browser lets the page read the local clipboard
  events,    \* DOM events handled, and the position of the newest
  faults,
  down,      \* the newest event was a key or pointer going down
  control,   \* the control channel: "none", "open" or "closed"
  jammed,    \* send throws although the channel is open
  level,     \* bufferedAmount: "low", "mid" or "high"
  shownOpen, \* controlChannelState = "open"
  inputEnabled, \* inputControlEnabled
  phys,      \* the modifiers the user holds
  held,      \* heldKeyboardValues
  heldButton,\* heldMouseButtons has the button
  rdown,     \* the modifiers the remote side holds
  rbutton,   \* the remote side holds the button
  at,        \* the pointer position of the remote side
  active,    \* activePointerIdRef
  frame,     \* pendingPointerMoveRef, waiting for an animation frame
  move,      \* pendingMouseMove
  critical,  \* pendingCriticalMouseMove
  reading,   \* a local clipboard read of the present paste revision runs
  expected,  \* pendingBrowserPasteRef: Absent, "suppress" or "fallback"
  due,       \* the browser is to deliver the paste event of the newest shortcut
  intent,    \* remoteClipboardIntentRef
  newer,     \* history: an input was handled after the newest paste shortcut
  pasted     \* history: texts sent for the newest paste shortcut

channel == <<control, jammed, level, shownOpen>>
keys    == <<held, rdown>>
buttons == <<heldButton, rbutton>>
queued  == <<frame, move, critical>>
pointer == <<at, active, queued>>
paste   == <<reading, expected, due, intent, newer, pasted>>
setting == <<mac, readsLocal>>
inputVars    == <<setting, events, faults, down, channel, inputEnabled, phys, keys, buttons, pointer, paste>>

InputInit ==
  /\ mac \in BOOLEAN /\ readsLocal \in BOOLEAN
  /\ events = 0 /\ faults = 0 /\ down = FALSE
  /\ control = "none" /\ jammed = FALSE /\ level = "low" /\ shownOpen = FALSE
  /\ inputEnabled = FALSE
  /\ phys = {} /\ held = {} /\ rdown = {}
  /\ heldButton = FALSE /\ rbutton = FALSE
  /\ at = 0 /\ active = Absent
  /\ frame = Absent /\ move = Absent /\ critical = Absent
  /\ reading = FALSE /\ expected = Absent /\ due = FALSE /\ intent = FALSE
  /\ newer = FALSE /\ pasted = 0

Works  == control = "open" /\ ~jammed
Active == inputEnabled /\ shownOpen

Handles(isDown) == events < MaxEvents /\ events' = events + 1 /\ down' = isDown
Happens == faults < MaxFaults /\ faults' = faults + 1

-----------------------------------------------------------------------------
(* The keys and the button.                                                  *)

Families(ks) == {Family[k] : k \in ks}

FaultyOrphans(isDown) == {k \in held: isDown # {} /\ Family[k] \notin Families(isDown)}

(* releaseOrphanModifiers: held keys none of whose family is down            *)
Orphans(isDown) == {k \in held: Family[k] \notin Families(isDown)}

(* Releases the orphans, then sends the keys `press` down and `release` up.  *)
SendKeys(isDown, press, release) ==
  IF Works
  THEN /\ held' = ((held \ Orphans(isDown)) \union press) \ release
       /\ rdown' = ((rdown \ Orphans(isDown)) \union press) \ release
  ELSE UNCHANGED keys

ReleaseRemote ==
  IF Works THEN rdown' = {} /\ rbutton' = FALSE ELSE UNCHANGED <<rdown, rbutton>>

(* releaseAll: what could not be sent stays recorded.                        *)
ReleaseAll ==
  /\ ReleaseRemote
  /\ IF Works THEN held' = {} /\ heldButton' = FALSE ELSE UNCHANGED <<held, heldButton>>
  /\ move' = Absent /\ critical' = Absent

(* sendMouseButton                                                           *)
SendButton(isDown) ==
  IF Works THEN heldButton' = isDown /\ rbutton' = isDown ELSE UNCHANGED buttons

-----------------------------------------------------------------------------
(* The pointer.  Each operator gives <<at, move, critical>> after it.        *)

(* sendMouseMove                                                             *)
Moved(pos) ==
  IF critical # Absent
  THEN IF Works /\ level = "low" THEN <<pos, Absent, Absent>> ELSE <<at, pos, critical>>
  ELSE IF level = "high" THEN <<at, pos, Absent>>
  ELSE IF Works THEN <<pos, Absent, Absent>> ELSE <<at, Absent, Absent>>

(* sendMouseMove(..., {critical: true})                                      *)
MovedCritically(pos) ==
  IF Works THEN <<pos, Absent, Absent>> ELSE <<at, Absent, pos>>

(* What sendMouseButton and sendMouseScroll do first.                        *)
CriticalFlushed ==
  IF critical # Absent /\ Works THEN <<critical, Absent, Absent>> ELSE <<at, Absent, critical>>

(* flushPendingMouseMove, once the buffer is low                             *)
Flushed ==
  IF ~Works THEN <<at, move, critical>>
  ELSE IF move # Absent THEN <<move, Absent, Absent>>
  ELSE IF critical # Absent THEN <<critical, Absent, Absent>>
  ELSE <<at, Absent, Absent>>

Pointer(p) == at' = p[1] /\ move' = p[2] /\ critical' = p[3]

-----------------------------------------------------------------------------
(* Paste.                                                                    *)

(* pasteRevisionRef moves on: a read that is still running is too late.      *)
NextRevision == reading' = FALSE /\ newer' = TRUE

(* clearClipboardShortcutState                                               *)
ClearPaste ==
  /\ NextRevision
  /\ expected' = Absent /\ due' = FALSE /\ intent' = FALSE
  /\ UNCHANGED pasted

FaultyInput == newer' = TRUE /\ due' = FALSE /\ UNCHANGED <<reading, expected, intent, pasted>>

Input == NextRevision /\ due' = FALSE /\ UNCHANGED <<expected, intent, pasted>>

(* releasePasteShortcutModifiers names the left keys of the families down.   *)
PasteKeys == {k \in Left: Family[k] \in Families(phys) \intersect {"Control", "Meta"}}

Shortcut == Families(phys) \intersect {"Control", "Meta"} # {}
MacShortcut == mac /\ "Meta" \in Families(phys)

-----------------------------------------------------------------------------
(* handleRemoteStageKeyDown and handleRemoteStageKeyUp.                      *)

ModifierDown(k) ==
  /\ k \notin phys
  /\ phys' = phys \union {k}
  /\ IF Active
     THEN Handles(TRUE) /\ SendKeys(phys', {k}, {}) /\ Input
     ELSE UNCHANGED <<events, down, keys, paste>>
  /\ UNCHANGED <<faults, channel, inputEnabled, buttons, pointer>>

ModifierRepeats ==
  /\ Active /\ phys # {}
  /\ Handles(TRUE)
  /\ SendKeys(phys, {}, {})
  /\ UNCHANGED <<faults, channel, inputEnabled, phys, buttons, pointer, paste>>

ModifierUp(k) ==
  /\ k \in phys
  /\ phys' = phys \ {k}
  /\ IF Active
     THEN /\ Handles(FALSE)
          /\ IF Works THEN held' = held \ {k} /\ rdown' = rdown \ {k} ELSE UNCHANGED keys
          /\ expected' = IF expected = "fallback" THEN Absent ELSE expected
          /\ UNCHANGED <<reading, due, intent, newer, pasted>>
     ELSE UNCHANGED <<events, down, keys, paste>>
  /\ UNCHANGED <<faults, channel, inputEnabled, buttons, pointer>>

(* Another program takes the event, or the stage has no focus.               *)
Swallowed(k) ==
  /\ Happens
  /\ phys' = IF k \in phys THEN phys \ {k} ELSE phys \union {k}
  /\ UNCHANGED <<events, down, channel, inputEnabled, keys, buttons, pointer, paste>>

(* Any other key; Cmd+C and Cmd+X on a Mac mark the remote clipboard.        *)
KeyDown(marks) ==
  /\ Active
  /\ marks => MacShortcut
  /\ Handles(TRUE)
  /\ SendKeys(phys, {}, {})
  /\ NextRevision
  /\ due' = FALSE
  /\ expected' = IF marks THEN Absent ELSE expected
  /\ intent' = (intent \/ (marks /\ Works))
  /\ UNCHANGED <<faults, channel, inputEnabled, phys, buttons, pointer, pasted>>

(* The paste shortcut after a remote copy: the remote side pastes.           *)
PasteRemotely ==
  /\ Active /\ MacShortcut /\ intent
  /\ Handles(TRUE)
  /\ SendKeys(phys, {}, {})
  /\ NextRevision
  /\ expected' = "suppress" /\ due' \in BOOLEAN
  /\ UNCHANGED <<faults, channel, inputEnabled, phys, buttons, pointer, intent, pasted>>

(* The paste shortcut otherwise: the local clipboard is read and sent.       *)
PasteLocally ==
  /\ Active /\ Shortcut /\ ~(MacShortcut /\ intent)
  /\ Handles(TRUE)
  /\ intent' = FALSE /\ newer' = FALSE /\ pasted' = 0
  /\ IF ~readsLocal
     THEN SendKeys(phys, {}, {}) /\ expected' = "fallback" /\ reading' = FALSE
     ELSE /\ SendKeys(phys, {}, PasteKeys)
          /\ expected' = IF Works THEN "suppress" ELSE Absent
          /\ reading' = Works
  /\ due' \in BOOLEAN
  /\ UNCHANGED <<faults, channel, inputEnabled, phys, buttons, pointer>>

(* readLocalClipboardText answers; sendPastedText throws on a dead channel.  *)
PasteServed(ok) ==
  /\ reading
  /\ reading' = FALSE
  /\ pasted' = IF ok /\ Works THEN pasted + 1 ELSE pasted
  /\ UNCHANGED <<events, faults, down, channel, inputEnabled, phys, keys, buttons, pointer,
                 expected, due, intent, newer>>

Suppressed == expected = "suppress"

(* handleRemoteStagePaste, for the event of the newest shortcut              *)
PasteEvent ==
  /\ due
  /\ due' = FALSE
  /\ expected' = Absent
  /\ IF ~Active \/ Suppressed THEN UNCHANGED <<keys, reading, intent, newer, pasted>>
     ELSE /\ reading' = FALSE /\ intent' = FALSE
          /\ IF expected = "fallback" /\ Works
             THEN held' = held \ PasteKeys /\ rdown' = rdown \ PasteKeys
             ELSE UNCHANGED keys
          /\ pasted' = IF Works THEN pasted + 1 ELSE pasted
          /\ UNCHANGED newer
  /\ UNCHANGED <<events, faults, down, channel, inputEnabled, phys, buttons, pointer>>

(* BROWSER_PASTE_SUPPRESSION_MS pass without a paste event.                  *)
SuppressionEnds ==
  /\ expected = "suppress" /\ ~due
  /\ expected' = Absent
  /\ UNCHANGED <<events, faults, down, channel, inputEnabled, phys, keys, buttons, pointer,
                 reading, due, intent, newer, pasted>>

-----------------------------------------------------------------------------
(* The pointer handlers.  `seen`: the stage shows a picture whose geometry   *)
(* is known.                                                                 *)

(* flushPointerPosition succeeds.                                            *)
Aims(seen) == seen /\ Works

(* The move of flushPointerPosition, then the button.                        *)
Aimed(seen) == IF seen THEN MovedCritically(events') ELSE CriticalFlushed

PointerDown(p, seen) ==
  /\ Active
  /\ Handles(TRUE)
  /\ SendKeys(phys, {}, {})
  /\ Input
  /\ frame' = Absent
  /\ IF seen THEN Pointer(MovedCritically(events')) ELSE UNCHANGED <<at, move, critical>>
  /\ active' = IF Aims(seen) THEN p ELSE Absent
  /\ IF Aims(seen) THEN SendButton(TRUE) ELSE UNCHANGED buttons
  /\ UNCHANGED <<faults, channel, inputEnabled, phys>>

PointerMove(p) ==
  /\ Active /\ active \in {Absent, p}
  /\ Handles(FALSE)
  /\ frame' = events'
  /\ UNCHANGED <<faults, channel, inputEnabled, phys, keys, buttons, at, active, move, critical, paste>>

FrameFires(seen) ==
  /\ frame # Absent
  /\ frame' = Absent
  /\ IF Active /\ seen THEN Pointer(Moved(frame)) ELSE UNCHANGED <<at, move, critical>>
  /\ UNCHANGED <<events, faults, down, channel, inputEnabled, phys, keys, buttons, active, paste>>

PointerUp(p, seen) ==
  /\ Active /\ active \in {Absent, p}
  /\ Handles(FALSE)
  /\ active' = Absent /\ frame' = Absent
  /\ Pointer(Aimed(seen))
  /\ SendButton(FALSE)
  /\ UNCHANGED <<faults, channel, inputEnabled, phys, keys, paste>>

(* A cancelled pointer is no longer the active one, whatever else happens.   *)
PointerCancel(p, seen) ==
  /\ active = p
  /\ Handles(FALSE)
  /\ active' = Absent
  /\ IF Active
     THEN frame' = Absent /\ Pointer(Aimed(seen)) /\ SendButton(FALSE)
     ELSE UNCHANGED <<buttons, at, queued>>
  /\ UNCHANGED <<faults, channel, inputEnabled, phys, keys, paste>>

Wheel(seen) ==
  /\ Active
  /\ Handles(FALSE)
  /\ frame' = Absent
  /\ IF seen THEN Pointer(MovedCritically(events')) ELSE UNCHANGED <<at, move, critical>>
  /\ UNCHANGED <<faults, channel, inputEnabled, phys, keys, buttons, active, paste>>

(* The window or the stage (atStage) loses the focus, or the page is hidden. *)
Blur(atStage) ==
  /\ Happens
  /\ ReleaseAll /\ ClearPaste
  /\ IF atStage THEN active' = Absent /\ frame' = Absent ELSE UNCHANGED <<active, frame>>
  /\ UNCHANGED <<events, down, channel, inputEnabled, phys, at>>

(* sendRemoteShortcut presses and releases the left modifiers it names.      *)
SendShortcut(ms) ==
  /\ Active
  /\ Handles(FALSE)
  /\ IF Works THEN held' = held \ ms /\ rdown' = rdown \ ms ELSE UNCHANGED keys
  /\ UNCHANGED <<faults, channel, inputEnabled, phys, buttons, pointer, paste>>

-----------------------------------------------------------------------------
(* The input switch and the control channel.                                 *)

(* resetInputControl                                                         *)
ResetInputControl ==
  /\ Active
  /\ Happens
  /\ active' = Absent /\ frame' = Absent
  /\ ClearPaste /\ ReleaseAll
  /\ inputEnabled' = FALSE
  /\ UNCHANGED <<events, down, channel, phys, at>>

EnableInputControl ==
  /\ shownOpen /\ ~inputEnabled
  /\ Happens
  /\ inputEnabled' = TRUE
  /\ UNCHANGED <<events, down, channel, phys, keys, buttons, pointer, paste>>

(* A new peer connection: nothing is held on the remote side.                *)
ChannelOpens ==
  /\ control = "none" /\ ~shownOpen
  /\ Happens
  /\ control' = "open" /\ jammed' = FALSE /\ level' = "low"
  /\ rdown' = {} /\ rbutton' = FALSE
  /\ UNCHANGED <<events, down, shownOpen, inputEnabled, phys, held, heldButton, pointer, paste>>

(* onControlUnavailable drops the queued positions.                          *)
ChannelLost ==
  /\ control = "open"
  /\ control' = "closed"
  /\ move' = Absent /\ critical' = Absent
  /\ UNCHANGED <<events, faults, down, jammed, level, shownOpen, inputEnabled, phys, keys, buttons,
                 at, active, frame, paste>>

(* The two effects on controlChannelState.                                   *)
ChannelRendered ==
  /\ shownOpen # (control = "open")
  /\ shownOpen' = (control = "open")
  /\ inputEnabled' = shownOpen'
  /\ ReleaseAll
  /\ IF shownOpen' THEN UNCHANGED <<frame, paste>> ELSE frame' = Absent /\ ClearPaste
  /\ UNCHANGED <<events, faults, down, control, jammed, level, phys, at, active>>

(* BrowserRemoteSession.close: release, close the channels, input.reset.     *)
SessionCloses ==
  /\ control # "none"
  /\ Happens
  /\ ReleaseRemote
  /\ control' = "none"
  /\ held' = {} /\ heldButton' = FALSE /\ move' = Absent /\ critical' = Absent
  /\ UNCHANGED <<events, down, jammed, level, shownOpen, inputEnabled, phys,
                 at, active, frame, paste>>

Jam ==
  /\ control = "open"
  /\ Happens
  /\ jammed' = ~jammed
  /\ UNCHANGED <<events, down, control, level, shownOpen, inputEnabled, phys, keys, buttons, pointer, paste>>

BufferFills ==
  /\ control = "open"
  /\ Happens
  /\ level' \in {"mid", "high"} \ {level}
  /\ UNCHANGED <<events, down, control, jammed, shownOpen, inputEnabled, phys, keys, buttons, pointer, paste>>

(* onbufferedamountlow                                                       *)
BufferDrains ==
  /\ control = "open" /\ level # "low"
  /\ level' = "low"
  /\ Pointer(Flushed)
  /\ UNCHANGED <<events, faults, down, control, jammed, shownOpen, inputEnabled, phys, keys, buttons,
                 active, frame, paste>>

-----------------------------------------------------------------------------
Key ==
  \/ \E k \in Modifiers: ModifierDown(k) \/ ModifierUp(k) \/ Swallowed(k)
  \/ ModifierRepeats
  \/ \E marks \in BOOLEAN: KeyDown(marks)
  \/ PasteRemotely \/ PasteLocally
  \/ \E ok \in BOOLEAN: PasteServed(ok)
  \/ PasteEvent \/ SuppressionEnds
  \/ \E ms \in SUBSET Left: SendShortcut(ms)

Pointing ==
  \E seen \in BOOLEAN:
    \/ \E p \in Pointers: PointerDown(p, seen) \/ PointerUp(p, seen) \/ PointerCancel(p, seen)
    \/ FrameFires(seen) \/ Wheel(seen)

Surroundings ==
  \/ \E atStage \in BOOLEAN: Blur(atStage)
  \/ ResetInputControl \/ EnableInputControl
  \/ ChannelOpens \/ ChannelLost \/ ChannelRendered \/ SessionCloses
  \/ Jam \/ BufferFills \/ BufferDrains

InputNext ==
  /\ Key \/ Pointing \/ (\E p \in Pointers: PointerMove(p)) \/ Surroundings
  /\ UNCHANGED setting

InputSpec == InputInit /\ [][InputNext]_inputVars

-----------------------------------------------------------------------------
Position == 0 .. MaxEvents

InputTypeOK ==
  /\ mac \in BOOLEAN /\ readsLocal \in BOOLEAN
  /\ events \in Position /\ faults \in 0 .. MaxFaults /\ down \in BOOLEAN
  /\ control \in {"none", "open", "closed"} /\ level \in {"low", "mid", "high"}
  /\ {jammed, shownOpen, inputEnabled, heldButton, rbutton, reading, due, intent, newer} \subseteq BOOLEAN
  /\ phys \subseteq Modifiers /\ held \subseteq Modifiers /\ rdown \subseteq Modifiers
  /\ at \in Position /\ active \in Pointers \union {Absent}
  /\ {frame, move, critical} \subseteq Position \union {Absent}
  /\ expected \in {Absent, "suppress", "fallback"} /\ pasted \in Nat

(* What the remote side holds down is recorded, so that it can be released,  *)
(* whatever was lost on the way (heldKeyboardValues, heldMouseButtons).      *)
RemoteKeysAreRecorded ==
  control # "none" => rdown \subseteq held /\ (rbutton => heldButton)

(* A modifier whose release was swallowed is released before the next key or *)
(* press reaches the remote side: those meet only the modifiers the user     *)
(* holds (releaseOrphanModifiers).                                           *)
KeysFollowUser ==
  [][events' # events /\ down' /\ Works => Families(rdown') \subseteq Families(phys')]_inputVars

(* Input control is never given up, and the session never closed, over a     *)
(* working channel with a key or button left down on the remote side.        *)
ControlEndsReleases ==
  [][Works /\ ((inputEnabled /\ ~inputEnabled') \/ control' = "none") => rdown' = {} /\ ~rbutton']_inputVars

(* A press reaches the remote side at the position it was made at, however   *)
(* the positions before it were delayed or lost (pendingCriticalMouseMove).  *)
PressesLandWhereAimed == [][rbutton' /\ (~rbutton \/ active' \notin {Absent, active}) => at' = events']_inputVars

(* The remote pointer never goes back to an earlier position.                *)
PointerMovesForward == [][at' >= at]_inputVars

(* The remote keyboard and pointer follow the user's, and what the remote    *)
(* side holds can be released.                                               *)
InputFollowsUser == /\ []RemoteKeysAreRecorded
                    /\ KeysFollowUser /\ ControlEndsReleases
                    /\ PressesLandWhereAimed /\ PointerMovesForward

(* One paste shortcut pastes at most once, and a clipboard read that ends    *)
(* after a newer input pastes nothing.                                       *)
NoLatePaste ==
  [][pasted' = pasted + 1 => pasted = 0 /\ (due' = due => ~newer)]_inputVars

=============================================================================
