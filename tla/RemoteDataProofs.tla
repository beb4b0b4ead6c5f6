---------------------------- MODULE RemoteDataProofs ----------------------------
(***************************************************************************)
(* Proofs about the data channels of a browser session, for any bounds,    *)
(* modifiers, pointers, displays, texts.  The remote keyboard and pointer  *)
(* follow the user's (InputFollowsUser) and a paste shortcut pastes once   *)
(* and in time (NoLatePaste), however the control channel jams, closes and *)
(* comes back.  The messages of the channels stay with their session       *)
(* (WireIsOwn), however late their frames are converted.  What the page    *)
(* says of the two clipboards is so (PageShowsTheTruth).  The remote       *)
(* pointer is where the user sees it (PointerIsTrue).                      *)
(***************************************************************************)
EXTENDS RemoteInput, RemotePointing, RemoteWire, RemoteClipboard, FiniteSetTheorems, TLAPS

-----------------------------------------------------------------------------
(* Keyboard, pointer and paste: what a step finds.  Each part is about       *)
(* variables of its own.                                                     *)

Remembered ==
  /\ control \in {"none", "open", "closed"}
  /\ jammed \in BOOLEAN /\ inputEnabled \in BOOLEAN /\ rbutton \in BOOLEAN /\ heldButton \in BOOLEAN
  /\ RemoteKeysAreRecorded

\* Whatever position still waits was made after the one the remote pointer is at, and a position
\* that waits for its frame after those that wait for the buffer.
Positions ==
  /\ events \in Nat /\ at \in 0 .. events
  /\ \A p \in {frame, move, critical} : p # Absent => p \in at .. events
  /\ \A p \in {move, critical} : frame # Absent /\ p # Absent => p <= frame

\* While a clipboard read runs nothing was entered or pasted since its shortcut; a paste event
\* that may still come is suppressed if it could paste a second time.
Pastes ==
  /\ pasted \in {0, 1}
  /\ reading \in BOOLEAN /\ due \in BOOLEAN /\ newer \in BOOLEAN
  /\ reading => ~newer /\ pasted = 0
  /\ due => expected = "suppress" \/ (pasted = 0 /\ ~reading)

InputInv == Remembered /\ Positions /\ Pastes

LEMMA InputInitKeeps == InputInit => InputInv
<1> SUFFICES ASSUME InputInit PROVE InputInv
  OBVIOUS
<1>1. Remembered
  BY DEF InputInit, Remembered, RemoteKeysAreRecorded
<1>2. Positions
  BY DEF InputInit, Positions
<1>3. Pastes
  BY PositionAssumption DEF InputInit, Pastes
<1> QED BY <1>1, <1>2, <1>3 DEF InputInv

-----------------------------------------------------------------------------
(* Keys and buttons.                                                         *)

\* Keys are only sent together with what is recorded of them.
KeysMove ==
  \/ UNCHANGED keys
  \/ Works /\ \E gone, press : held' = (held \ gone) \union press /\ rdown' = (rdown \ gone) \union press

LEMMA SendMoves == \A ks, press, release : SendKeys(ks, press, release) => KeysMove
<1> SUFFICES ASSUME NEW ks, NEW press, NEW release, SendKeys(ks, press, release) PROVE KeysMove
  OBVIOUS
<1>1. CASE Works
  <2>1. /\ held' = ((held \ Orphans(ks)) \union press) \ release
        /\ rdown' = ((rdown \ Orphans(ks)) \union press) \ release
    BY <1>1 DEF SendKeys
  <2>2. /\ held' = (held \ (Orphans(ks) \union release)) \union (press \ release)
        /\ rdown' = (rdown \ (Orphans(ks) \union release)) \union (press \ release)
    BY <2>1
  <2> QED BY <1>1, <2>2 DEF KeysMove
<1> QED BY <1>1 DEF SendKeys, KeysMove

LEMMA RememberedKeeps ==
  ASSUME Remembered, InputNext PROVE Remembered'
<1> USE DEF Remembered, RemoteKeysAreRecorded, buttons, channel
<1>1. ASSUME KeysMove, UNCHANGED <<channel, inputEnabled, buttons>> PROVE Remembered'
  BY <1>1 DEF KeysMove, keys
<1>2. CASE Key
  <2>1. UNCHANGED <<channel, inputEnabled, buttons>>
    BY <1>2 DEF Key, ModifierDown, ModifierUp, Swallowed, ModifierRepeats, KeyDown, PasteRemotely, PasteLocally,
       PasteServed, PasteEvent, SuppressionEnds, SendShortcut
  <2>2. ASSUME NEW k \in Modifiers, ModifierDown(k) \/ Swallowed(k) PROVE KeysMove
    BY <2>2, SendMoves DEF ModifierDown, Swallowed, KeysMove
  <2>3. ASSUME UNCHANGED keys \/ \E gone : Works /\ held' = held \ gone /\ rdown' = rdown \ gone PROVE KeysMove
    <3>1. ASSUME NEW gone, held' = held \ gone, rdown' = rdown \ gone
          PROVE  held' = (held \ gone) \union {} /\ rdown' = (rdown \ gone) \union {}
      BY <3>1
    <3> QED BY <2>3, <3>1 DEF KeysMove
  <2>4. ASSUME NEW k \in Modifiers, ModifierUp(k) PROVE KeysMove
    BY <2>3, <2>4 DEF ModifierUp
  <2>5. ASSUME ModifierRepeats \/ (\E marks \in BOOLEAN : KeyDown(marks)) \/ PasteRemotely \/ PasteLocally
        PROVE  KeysMove
    <3>1. SendKeys(phys, {}, {}) \/ SendKeys(phys, {}, PasteKeys)
      BY <2>5 DEF ModifierRepeats, KeyDown, PasteRemotely, PasteLocally
    <3> QED BY <3>1, SendMoves
  <2>6. ASSUME (\E ok \in BOOLEAN : PasteServed(ok)) \/ SuppressionEnds PROVE KeysMove
    <3>1. ASSUME NEW ok \in BOOLEAN, PasteServed(ok) PROVE UNCHANGED keys
      BY <3>1 DEF PasteServed
    <3>2. SuppressionEnds => UNCHANGED keys
      BY DEF SuppressionEnds
    <3> QED BY <2>6, <3>1, <3>2 DEF KeysMove
  <2>7. ASSUME PasteEvent \/ \E ms \in SUBSET Left : SendShortcut(ms) PROVE KeysMove
    <3>1. CASE PasteEvent
      BY <2>3, <3>1 DEF PasteEvent
    <3>2. ASSUME NEW ms \in SUBSET Left, SendShortcut(ms) PROVE KeysMove
      BY <2>3, <3>2 DEF SendShortcut
    <3> QED BY <2>7, <3>1, <3>2
  <2> QED BY <1>1, <1>2, <2>1, <2>2, <2>4, <2>5, <2>6, <2>7 DEF Key
<1>3. CASE Pointing
  <2>1. KeysMove /\ UNCHANGED <<channel, inputEnabled>>
    BY <1>3, SendMoves DEF Pointing, PointerDown, PointerUp, PointerCancel, FrameFires, Wheel, KeysMove
  <2>2. UNCHANGED buttons \/ SendButton(TRUE) \/ SendButton(FALSE)
    BY <1>3 DEF Pointing, PointerDown, PointerUp, PointerCancel, FrameFires, Wheel
  <2>3. UNCHANGED buttons \/ \E b \in BOOLEAN : heldButton' = b /\ rbutton' = b
    BY <2>2 DEF SendButton
  <2> QED BY <2>1, <2>3 DEF KeysMove, keys
<1>4. CASE \E p \in Pointers : PointerMove(p)
  BY <1>4 DEF PointerMove, keys
<1>5. CASE Surroundings
  BY <1>5 DEF Surroundings, Blur, ResetInputControl, EnableInputControl, ChannelOpens, ChannelLost, Works, keys,
     ChannelRendered, SessionCloses, Jam, BufferFills, BufferDrains, ReleaseAll, ReleaseRemote
<1> QED BY <1>2, <1>3, <1>4, <1>5 DEF InputNext

-----------------------------------------------------------------------------
(* The pointer.                                                              *)

LEMMA PositionsKeep ==
  ASSUME Positions, InputNext PROVE Positions' /\ at' >= at
<1> USE PositionAssumption DEF Positions, pointer, queued
<1>1. CASE UNCHANGED pointer /\ (UNCHANGED events \/ events' = events + 1)
  BY <1>1
<1>2. CASE Key
  BY <1>1, <1>2 DEF Key, ModifierDown, ModifierUp, Swallowed, ModifierRepeats, KeyDown, PasteRemotely,
     PasteLocally, PasteServed, PasteEvent, SuppressionEnds, SendShortcut, Handles
<1>3. CASE Pointing
  <2> USE DEF Pointer, Moved, MovedCritically, CriticalFlushed, Aimed, Handles
  <2>1. ASSUME NEW noted \in BOOLEAN, NEW p \in Pointers, PointerDown(p, noted) PROVE Positions' /\ at' >= at
    BY <2>1 DEF PointerDown
  <2>2. ASSUME NEW noted \in BOOLEAN, NEW p \in Pointers, PointerUp(p, noted) PROVE Positions' /\ at' >= at
    <3>1. events' = events + 1 /\ frame' = Absent
      BY <2>2 DEF PointerUp
    <3>2. \/ at' = events' /\ move' = Absent /\ critical' = Absent
          \/ at' = at /\ move' = Absent /\ critical' \in {events', critical}
          \/ critical # Absent /\ at' = critical /\ move' = Absent /\ critical' = Absent
      BY <2>2 DEF PointerUp
    <3> QED BY <3>1, <3>2
  <2>3. ASSUME NEW noted \in BOOLEAN, NEW p \in Pointers, PointerCancel(p, noted) PROVE Positions' /\ at' >= at
    <3>1. events' = events + 1
      BY <2>3 DEF PointerCancel
    <3>2. \/ UNCHANGED <<at, queued>>
          \/ frame' = Absent /\
               (\/ at' = events' /\ move' = Absent /\ critical' = Absent
                \/ at' = at /\ move' = Absent /\ critical' \in {events', critical}
                \/ critical # Absent /\ at' = critical /\ move' = Absent /\ critical' = Absent)
      BY <2>3 DEF PointerCancel
    <3> QED BY <3>1, <3>2
  <2>4. ASSUME NEW noted \in BOOLEAN, FrameFires(noted) PROVE Positions' /\ at' >= at
    BY <2>4 DEF FrameFires
  <2>5. ASSUME NEW noted \in BOOLEAN, Wheel(noted) PROVE Positions' /\ at' >= at
    BY <2>5 DEF Wheel
  <2> QED BY <1>3, <2>1, <2>2, <2>3, <2>4, <2>5 DEF Pointing
<1>4. CASE \E p \in Pointers : PointerMove(p)
  BY <1>4 DEF PointerMove, Handles
<1>5. CASE Surroundings
  BY <1>5 DEF Surroundings, Blur, ResetInputControl, EnableInputControl, ChannelOpens, ChannelLost,
     ChannelRendered, SessionCloses, Jam, BufferFills, BufferDrains, ReleaseAll, Pointer, Flushed
<1> QED BY <1>2, <1>3, <1>4, <1>5 DEF InputNext

-----------------------------------------------------------------------------
(* Paste.                                                                    *)

LEMMA PastesKeep ==
  ASSUME Pastes, InputNext
  PROVE  Pastes'
<1>1. ASSUME UNCHANGED <<pasted, due, reading, newer>>, expected' = expected \/ ~due \/ (pasted = 0 /\ ~reading)
      PROVE  Pastes'
  BY <1>1 DEF Pastes
<1>2. ASSUME ~reading', reading' \in BOOLEAN, newer' \in BOOLEAN, ~due', due' \in BOOLEAN, pasted' = pasted
      PROVE  Pastes'
  BY <1>2 DEF Pastes
<1> HIDE DEF Pastes
<1>3. CASE Key
  <2>1. ASSUME NEW k \in Modifiers, ModifierDown(k) \/ Swallowed(k) PROVE Pastes'
    <3>1. CASE UNCHANGED paste
      BY <1>1, <3>1 DEF paste
    <3>2. CASE Input
      BY <1>2, <3>2 DEF Input, NextRevision
    <3> QED BY <2>1, <3>1, <3>2 DEF ModifierDown, Swallowed
  <2>2. ASSUME NEW k \in Modifiers, ModifierUp(k) PROVE Pastes'
    <3>1. expected' = expected \/ expected = "fallback"
      BY <2>2 DEF ModifierUp, paste
    <3>2. UNCHANGED <<pasted, due, reading, newer>>
      BY <2>2 DEF ModifierUp, paste
    <3>3. expected' = expected \/ ~due \/ (pasted = 0 /\ ~reading)
      BY <3>1 DEF Pastes
    <3> QED BY <1>1, <3>2, <3>3
  <2>3. ASSUME ModifierRepeats \/ (\E ms \in SUBSET Left : SendShortcut(ms)) PROVE Pastes'
    <3>1. UNCHANGED paste
      BY <2>3 DEF ModifierRepeats, SendShortcut
    <3> QED BY <1>1, <3>1 DEF paste
  <2>4. ASSUME NEW marks \in BOOLEAN, KeyDown(marks) PROVE Pastes'
    BY <2>4, <1>2 DEF KeyDown, NextRevision
  <2>5. ASSUME PasteRemotely PROVE Pastes'
    <3>1. ~reading' /\ reading' \in BOOLEAN /\ newer' \in BOOLEAN /\ due' \in BOOLEAN /\ expected' = "suppress"
      BY <2>5 DEF PasteRemotely, NextRevision
    <3>2. pasted' = pasted
      BY <2>5 DEF PasteRemotely
    <3> QED BY <3>1, <3>2 DEF Pastes
  <2>6. ASSUME PasteLocally PROVE Pastes'
    <3>1. ~newer' /\ newer' \in BOOLEAN /\ due' \in BOOLEAN /\ reading' \in BOOLEAN
      BY <2>6 DEF PasteLocally, Works
    <3>2. reading' => expected' = "suppress"
      BY <2>6 DEF PasteLocally
    <3>3. pasted' = 0
      BY <2>6 DEF PasteLocally
    <3> QED BY <3>1, <3>2, <3>3 DEF Pastes
  <2>7. ASSUME NEW ok \in BOOLEAN, PasteServed(ok) PROVE Pastes'
    <3>1. ~newer /\ pasted = 0 /\ (due => expected = "suppress")
      BY <2>7 DEF PasteServed, Pastes
    <3>2. ~reading' /\ reading' \in BOOLEAN /\ UNCHANGED <<expected, due, newer>>
      BY <2>7 DEF PasteServed
    <3>3. pasted' = pasted \/ pasted' = pasted + 1
      BY <2>7 DEF PasteServed
    <3> QED BY <3>1, <3>2, <3>3 DEF Pastes
  <2>8. ASSUME PasteEvent PROVE Pastes'
    <3>1. due /\ ~due' /\ due' \in BOOLEAN
      BY <2>8 DEF PasteEvent
    <3>2. CASE UNCHANGED <<reading, newer, pasted>>
      BY <3>1, <3>2 DEF Pastes
    <3>3. CASE ~(~Active \/ Suppressed)
      <4>1. pasted = 0
        BY <3>1, <3>3 DEF Pastes, Suppressed
      <4>2. ~reading' /\ reading' \in BOOLEAN /\ newer' = newer
        BY <2>8, <3>3 DEF PasteEvent
      <4>3. pasted' = pasted \/ pasted' = pasted + 1
        BY <2>8, <3>3 DEF PasteEvent
      <4> QED BY <3>1, <4>1, <4>2, <4>3 DEF Pastes
    <3> QED BY <2>8, <3>2, <3>3 DEF PasteEvent
  <2>9. ASSUME SuppressionEnds PROVE Pastes'
    BY <2>9, <1>1 DEF SuppressionEnds
  <2> QED BY <1>3, <2>1, <2>2, <2>3, <2>4, <2>5, <2>6, <2>7, <2>8, <2>9 DEF Key
<1>4. CASE Pointing
  <2>1. UNCHANGED paste \/ Input
    BY <1>4 DEF Pointing, PointerDown, PointerUp, PointerCancel, FrameFires, Wheel
  <2>2. CASE UNCHANGED paste
    BY <1>1, <2>2 DEF paste
  <2>3. CASE Input
    BY <1>2, <2>3 DEF Input, NextRevision
  <2> QED BY <2>1, <2>2, <2>3
<1>5. CASE \E p \in Pointers : PointerMove(p)
  BY <1>5, <1>1 DEF PointerMove, paste
<1>6. CASE Surroundings
  <2>1. UNCHANGED paste \/ ClearPaste
    BY <1>6 DEF Surroundings, Blur, ResetInputControl, EnableInputControl, ChannelOpens, ChannelLost,
       ChannelRendered, SessionCloses, Jam, BufferFills, BufferDrains
  <2>2. CASE UNCHANGED paste
    BY <1>1, <2>2 DEF paste
  <2>3. CASE ClearPaste
    BY <1>2, <2>3 DEF ClearPaste, NextRevision
  <2> QED BY <2>1, <2>2, <2>3
<1> QED BY <1>3, <1>4, <1>5, <1>6 DEF InputNext

LEMMA PastesInTime ==
  ASSUME Pastes, InputNext, pasted' = pasted + 1
  PROVE  pasted = 0 /\ (due' = due => ~newer)
<1>1. ASSUME UNCHANGED paste \/ pasted' = pasted \/ pasted' = 0 PROVE FALSE
  BY <1>1 DEF Pastes, paste
<1>2. CASE Key
  <2>1. ASSUME NEW ok \in BOOLEAN, PasteServed(ok) PROVE pasted = 0 /\ ~newer
    BY <2>1 DEF PasteServed, Pastes
  <2>2. CASE PasteEvent
    <3>1. due /\ ~due' /\ ~Suppressed
      BY <2>2, <1>1 DEF PasteEvent
    <3>2. due' # due
      BY <3>1
    <3> QED BY <3>1, <3>2 DEF Pastes, Suppressed
  <2>3. ~(\E k \in Modifiers : ModifierDown(k) \/ ModifierUp(k) \/ Swallowed(k))
    BY <1>1 DEF ModifierDown, ModifierUp, Swallowed, Input, paste
  <2>4. ~(ModifierRepeats \/ (\E marks \in BOOLEAN : KeyDown(marks)) \/ PasteRemotely \/ PasteLocally)
    BY <1>1 DEF ModifierRepeats, KeyDown, PasteRemotely, PasteLocally
  <2>5. ~(SuppressionEnds \/ \E ms \in SUBSET Left : SendShortcut(ms))
    BY <1>1 DEF SuppressionEnds, SendShortcut
  <2> QED BY <1>2, <2>1, <2>2, <2>3, <2>4, <2>5 DEF Key
<1>3. ~Pointing /\ ~(\E p \in Pointers : PointerMove(p))
  BY <1>1 DEF Pointing, PointerDown, PointerUp, PointerCancel, FrameFires, Wheel, Input, PointerMove
<1>4. ~Surroundings
  BY <1>1 DEF Surroundings, Blur, ResetInputControl, EnableInputControl, ChannelOpens, ChannelLost,
     ChannelRendered, SessionCloses, Jam, BufferFills, BufferDrains, ClearPaste
<1> QED BY <1>2, <1>3, <1>4 DEF InputNext

-----------------------------------------------------------------------------
(* The properties.                                                           *)

LEMMA InputStutters == InputInv /\ UNCHANGED inputVars => InputInv'
  BY DEF InputInv, Remembered, Positions, Pastes, RemoteKeysAreRecorded, inputVars, setting, channel, keys, buttons,
     pointer, queued, paste

LEMMA InputInvariance == InputSpec => []InputInv
<1>1. InputInv /\ [InputNext]_inputVars => InputInv'
  BY InputStutters, RememberedKeeps, PositionsKeep, PastesKeep DEF InputInv
<1> QED BY <1>1, InputInitKeeps, PTL DEF InputSpec

\* A send that follows phys leaves no family down that the user does not hold.
LEMMA SentKeysFollow ==
  ASSUME Remembered, Works, NEW ks, NEW press, NEW release, SendKeys(ks, press, release),
         press \subseteq ks
  PROVE  Families(rdown') \subseteq Families(ks)
<1>1. rdown \subseteq held /\ rdown' = ((rdown \ Orphans(ks)) \union press) \ release
  BY DEF Remembered, RemoteKeysAreRecorded, Works, SendKeys
<1> QED BY <1>1 DEF Families, Orphans

LEMMA KeyFollows ==
  ASSUME Remembered, InputNext, events' # events, down', Works
  PROVE  Families(rdown') \subseteq Families(phys')
<1>1. \/ \E k \in Modifiers : phys' = phys \union {k} /\ SendKeys(phys', {k}, {})
      \/ phys' = phys /\ \E release : SendKeys(phys, {}, release)
  <2>1. ASSUME NEW k \in Modifiers, ModifierDown(k)
        PROVE  phys' = phys \union {k} /\ SendKeys(phys', {k}, {})
    BY <2>1 DEF ModifierDown
  <2>2. CASE ModifierRepeats \/ (\E marks \in BOOLEAN : KeyDown(marks)) \/ PasteRemotely
    BY <2>2 DEF ModifierRepeats, KeyDown, PasteRemotely
  <2>3. CASE PasteLocally
    BY <2>3 DEF PasteLocally
  <2>4. ASSUME NEW noted \in BOOLEAN, NEW p \in Pointers, PointerDown(p, noted)
        PROVE  phys' = phys /\ SendKeys(phys, {}, {})
    BY <2>4 DEF PointerDown
  <2>5. ~(\/ \E k \in Modifiers : ModifierUp(k) \/ Swallowed(k)
          \/ \E ok \in BOOLEAN : PasteServed(ok)
          \/ PasteEvent \/ SuppressionEnds
          \/ \E ms \in SUBSET Left : SendShortcut(ms))
    BY DEF ModifierUp, Swallowed, PasteServed, PasteEvent, SuppressionEnds, SendShortcut, Handles
  <2>6. ~(\E noted \in BOOLEAN : \/ \E p \in Pointers : PointerUp(p, noted) \/ PointerCancel(p, noted)
                                \/ FrameFires(noted) \/ Wheel(noted))
    BY DEF PointerUp, PointerCancel, FrameFires, Wheel, Handles
  <2>7. ~Surroundings /\ ~(\E p \in Pointers : PointerMove(p))
    BY DEF Surroundings, Blur, ResetInputControl, EnableInputControl, ChannelOpens, ChannelLost,
       ChannelRendered, SessionCloses, Jam, BufferFills, BufferDrains, PointerMove, Handles
  <2> QED BY <2>1, <2>2, <2>3, <2>4, <2>5, <2>6, <2>7 DEF InputNext, Key, Pointing
<1>2. ASSUME NEW k \in Modifiers, phys' = phys \union {k}, SendKeys(phys', {k}, {})
      PROVE  Families(rdown') \subseteq Families(phys')
  BY <1>2, SentKeysFollow
<1>3. ASSUME phys' = phys, NEW release, SendKeys(phys, {}, release)
      PROVE  Families(rdown') \subseteq Families(phys')
  BY <1>3, SentKeysFollow
<1> QED BY <1>1, <1>2, <1>3

LEMMA EndReleases ==
  ASSUME Remembered, InputNext, Works, (inputEnabled /\ ~inputEnabled') \/ control' = "none"
  PROVE  rdown' = {} /\ ~rbutton'
<1>1. ResetInputControl \/ SessionCloses
  <2>1. ~Key
    <3>1. Key => UNCHANGED <<control, inputEnabled>>
      BY DEF Key, channel, ModifierDown, ModifierUp, Swallowed, ModifierRepeats, KeyDown, PasteRemotely,
         PasteLocally, PasteServed, PasteEvent, SuppressionEnds, SendShortcut
    <3> QED BY <3>1 DEF Works, Remembered
  <2>2. ~Pointing /\ ~(\E p \in Pointers : PointerMove(p))
    BY DEF Pointing, Works, Remembered, channel, PointerDown, PointerUp, PointerCancel, FrameFires, Wheel, PointerMove
  <2> QED BY <2>1, <2>2 DEF InputNext, Works, Remembered, channel, Surroundings, Blur, EnableInputControl, ChannelOpens,
             ChannelLost, ChannelRendered, Jam, BufferFills, BufferDrains
<1> QED BY <1>1 DEF ResetInputControl, SessionCloses, ReleaseAll, ReleaseRemote

LEMMA PressLands ==
  ASSUME Remembered, InputNext, rbutton', ~rbutton \/ active' \notin {Absent, active}
  PROVE  at' = events'
<1>1. PICK noted \in BOOLEAN, p \in Pointers : PointerDown(p, noted)
  <2>1. ~Key /\ ~(\E p \in Pointers : PointerMove(p))
    BY DEF Key, Remembered, buttons, pointer, ModifierDown, ModifierUp, Swallowed, ModifierRepeats, KeyDown, PasteRemotely,
       PasteLocally, PasteServed, PasteEvent, SuppressionEnds, SendShortcut, PointerMove
  <2>2. ~Surroundings
    BY DEF Surroundings, Remembered, buttons, pointer, Blur, ResetInputControl, EnableInputControl, ChannelOpens,
       ChannelLost, ChannelRendered, SessionCloses, Jam, BufferFills, BufferDrains, ReleaseAll, ReleaseRemote
  <2>3. ~(\E noted \in BOOLEAN : \/ \E p \in Pointers : PointerUp(p, noted) \/ PointerCancel(p, noted)
                                \/ FrameFires(noted) \/ Wheel(noted))
    BY DEF Remembered, buttons, PointerUp, PointerCancel, FrameFires, Wheel, SendButton
  <2> QED BY <2>1, <2>2, <2>3 DEF InputNext, Pointing
<1>2. CASE Aims(noted)
  BY <1>1, <1>2 DEF PointerDown, Aims, Pointer, MovedCritically
<1>3. CASE ~Aims(noted)
  BY <1>1, <1>3 DEF PointerDown, buttons
<1> QED BY <1>2, <1>3

\* The remote side holds only keys and buttons that are recorded and can be released; a key or
\* press that reaches it meets only the modifiers the user holds; giving up input control or
\* closing the session over a working channel releases everything; a press lands where it was
\* made, and the pointer never goes back (browserRemote/input.ts, useRemoteInputController.ts).
THEOREM InputFollows == InputSpec => InputFollowsUser
<1>1. InputInv /\ [InputNext]_inputVars =>
        /\ [events' # events /\ down' /\ Works => Families(rdown') \subseteq Families(phys')]_inputVars
        /\ [Works /\ ((inputEnabled /\ ~inputEnabled') \/ control' = "none") => rdown' = {} /\ ~rbutton']_inputVars
  BY KeyFollows, EndReleases DEF InputInv
<1>2. InputInv /\ [InputNext]_inputVars =>
        /\ [rbutton' /\ (~rbutton \/ active' \notin {Absent, active}) => at' = events']_inputVars
        /\ [at' >= at]_inputVars
  BY PressLands, PositionsKeep DEF InputInv
<1>3. InputInv => RemoteKeysAreRecorded
  BY DEF InputInv, Remembered
<1> QED BY <1>1, <1>2, <1>3, InputInvariance, PTL
        DEF InputSpec, InputFollowsUser, KeysFollowUser, ControlEndsReleases, PressesLandWhereAimed, PointerMovesForward

\* A paste shortcut pastes once at most, and a clipboard read that ends after a newer input
\* pastes nothing (the paste revision of useRemoteInputController.ts).
THEOREM PastesOnce == InputSpec => NoLatePaste
<1>1. InputInv /\ [InputNext]_inputVars => [pasted' = pasted + 1 => pasted = 0 /\ (due' = due => ~newer)]_inputVars
  BY PastesInTime DEF InputInv
<1> QED BY <1>1, InputInvariance, PTL DEF InputSpec, NoLatePaste

-----------------------------------------------------------------------------
(* The messages of the channels: what is read is what was written.           *)

LEMMA MaxOfOne == Max({1}) = 1 /\ Max({2}) = 2
<1>1. \A k \in Nat : (CHOOSE x \in {k} : \A y \in {k} : x >= y) = k
  OBVIOUS
<1> QED BY <1>1 DEF Max

Kinds == {"simple", "capture", "rom", "shape"}

\* A message of two fields has these two.
Has(msg, n, kind, v) ==
  /\ LastOf(msg, "sequence") = n /\ LastOf(msg, kind) = v
  /\ \A other \in Kinds \ {kind} : LastOf(msg, other) = Missing
  /\ HasShape(msg) <=> kind = "shape"

LEMMA LastOfTwo ==
  ASSUME NEW n, NEW kind \in Kinds, NEW v
  PROVE  Has(Field("sequence", n) \o Field(kind, v), n, kind, v)
<1> DEFINE msg == Field("sequence", n) \o Field(kind, v)
<1>1. /\ DOMAIN msg = {1, 2} /\ msg[1] = [tag |-> "sequence", value |-> n]
      /\ msg[2] = [tag |-> kind, value |-> v]
  BY DEF Field
<1>2. kind # "sequence" /\ \A other \in Kinds : other # "sequence"
  BY DEF Kinds
<1>3. /\ {i \in DOMAIN msg : msg[i].tag = "sequence"} = {1}
      /\ {i \in DOMAIN msg : msg[i].tag = kind} = {2}
      /\ \A other \in Kinds \ {kind} : {i \in DOMAIN msg : msg[i].tag = other} = {}
  BY <1>1, <1>2
<1>4. LastOf(msg, "sequence") = n /\ LastOf(msg, kind) = v
  <2>1. LastOf(msg, "sequence") = msg[Max({1})].value /\ LastOf(msg, kind) = msg[Max({2})].value
    BY <1>3 DEF LastOf
  <2> QED BY <1>1, <2>1, MaxOfOne
<1>5. \A other \in Kinds \ {kind} : LastOf(msg, other) = Missing
  BY <1>3 DEF LastOf
<1>6. HasShape(msg) <=> kind = "shape"
  <2>1. HasShape(msg) <=> msg[1].tag = "shape" \/ msg[2].tag = "shape"
    BY <1>1 DEF HasShape
  <2> QED BY <1>1, <2>1
<1> QED BY <1>4, <1>5, <1>6 DEF Has

Wants(msg)  == CaptureOf(msg) # Missing
Wanted(msg) == IF CaptureOf(msg).type = "mumu" THEN CaptureOf(msg).id ELSE Missing
Views == Displays \union {Missing}

LEMMA SimpleIsRead ==
  ASSUME NEW n \in Nat, NEW action \in {"request", "response"}, NEW args \in Nat \union {Missing}
  PROVE  LET msg == SimpleAction(n, action, args)
         IN  /\ SimpleOf(msg) = [action |-> action, seq |-> args]
             /\ SimpleOf(msg) # Missing
             /\ LastOf(msg, "sequence") = n
             /\ ~Wants(msg) /\ ~HasShape(msg)
<1> DEFINE msg == SimpleAction(n, action, args)
           s == [action |-> Unless("request", action), args |-> args]
<1>1. msg = Field("sequence", n) \o Field("simple", s)
  BY DEF SimpleAction
<1> HIDE DEF msg, s
<1>2. /\ LastOf(msg, "simple") = s /\ LastOf(msg, "sequence") = n
      /\ LastOf(msg, "capture") = Missing /\ ~HasShape(msg)
  <2>1. Has(msg, n, "simple", s)
    BY <1>1, LastOfTwo DEF Kinds
  <2> QED BY <2>1 DEF Has, Kinds
<1> USE DEF s
<1>3. s \in [action : {"response", Missing}, args : Nat \union {Missing}]
  BY DEF Unless
<1>4. s # Missing
  BY <1>3, WireAssumption
<1>5. Or(s.action, "request") = action
  BY WireAssumption DEF Or, Unless
<1> HIDE DEF s
<1>6. SimpleOf(msg) = [action |-> action, seq |-> args]
  BY <1>2, <1>4, <1>5 DEF SimpleOf, s
<1>7. [action |-> action, seq |-> args] \in [action : {"request", "response"}, seq : Nat \union {Missing}]
  OBVIOUS
<1>8. ~Wants(msg)
  BY <1>2 DEF Wants, CaptureOf
<1> QED BY <1>2, <1>6, <1>7, <1>8, WireAssumption DEF msg

LEMMA RomIsRead ==
  ASSUME NEW n, NEW type \in {"input", "text"}, NEW d
  PROVE  RomOf(RomMessage(n, type, d)) = [type |-> type, display |-> d]
<1> DEFINE msg == RomMessage(n, type, d)
           r == [type |-> Unless("input", type), display |-> d]
<1>1. msg = Field("sequence", n) \o Field("rom", r)
  BY DEF RomMessage
<1> HIDE DEF msg, r
<1>2. LastOf(msg, "rom") = r
  <2>1. Has(msg, n, "rom", r)
    BY <1>1, LastOfTwo DEF Kinds
  <2> QED BY <2>1 DEF Has, Kinds
<1> USE DEF r
<1>3. Or(r.type, "input") = type
  BY WireAssumption DEF Or, Unless
<1>4. RomOf(msg) = [type |-> Or(r.type, "input"), display |-> r.display]
  BY <1>2 DEF RomOf
<1> QED BY <1>3, <1>4 DEF msg

LEMMA CaptureIsRead ==
  ASSUME NEW n, NEW type \in {"desktop", "mumu"}, NEW d \in Views
  PROVE  LET msg == Capture(n, type, d)
         IN  /\ Wants(msg) /\ Wanted(msg) = IF type = "mumu" THEN d ELSE Missing
             /\ AskedBy(msg) = Missing /\ ~HasShape(msg)
<1> DEFINE msg == Capture(n, type, d)
           r == [type |-> Unless("desktop", type), id |-> d]
<1>1. msg = Field("sequence", n) \o Field("capture", r)
  BY DEF Capture
<1> HIDE DEF msg, r
<1>2. LastOf(msg, "capture") = r /\ LastOf(msg, "simple") = Missing /\ ~HasShape(msg)
  <2>1. Has(msg, n, "capture", r)
    BY <1>1, LastOfTwo DEF Kinds
  <2> QED BY <2>1 DEF Has, Kinds
<1> USE DEF r
<1>3. r \in [type : {"desktop", "mumu", Missing}, id : Displays \union {Missing}]
  BY DEF Unless, Views
<1>4. r # Missing
  BY <1>3, WireAssumption
<1>5. Or(r.type, "desktop") = type
  BY WireAssumption DEF Or, Unless
<1>6. CaptureOf(msg) = [type |-> Or(r.type, "desktop"), id |-> r.id]
  BY <1>2, <1>4 DEF CaptureOf
<1>7. CaptureOf(msg) = [type |-> type, id |-> d]
  BY <1>5, <1>6
<1>8. [type |-> type, id |-> d] # Missing
  <2>1. [type |-> type, id |-> d] \in [type : {"desktop", "mumu", Missing}, id : Displays \union {Missing}]
    BY DEF Views
  <2> QED BY <2>1, WireAssumption
<1>9. AskedBy(msg) = Missing
  BY <1>2 DEF AskedBy, SimpleOf
<1> QED BY <1>2, <1>7, <1>8, <1>9 DEF Wants, Wanted, msg

LEMMA ShapeIsRead ==
  ASSUME NEW n, NEW d
  PROVE  LET msg == Shape(n, d)
         IN  LastOf(msg, "shape") = d /\ HasShape(msg) /\ ~Wants(msg) /\ AskedBy(msg) = Missing
<1> DEFINE msg == Shape(n, d)
<1>1. msg = Field("sequence", n) \o Field("shape", d)
  BY DEF Shape
<1> HIDE DEF msg
<1>2. /\ LastOf(msg, "shape") = d /\ LastOf(msg, "simple") = Missing /\ LastOf(msg, "capture") = Missing
      /\ HasShape(msg)
  <2>1. Has(msg, n, "shape", d)
    BY <1>1, LastOfTwo DEF Kinds
  <2> QED BY <2>1 DEF Has, Kinds
<1> QED BY <1>2 DEF Wants, CaptureOf, AskedBy, SimpleOf, msg

LEMMA NothingIsRead ==
  ~Wants(<<>>) /\ AskedBy(<<>>) = Missing /\ ~HasShape(<<>>)
<1>1. \A tag : LastOf(<<>>, tag) = Missing
  BY DEF LastOf
<1> QED BY <1>1 DEF Wants, CaptureOf, AskedBy, SimpleOf, HasShape

\* A message of the device is read as it was meant.
LEMMA MessageIsRead ==
  ASSUME NEW n \in 1 .. MaxFrames, NEW m \in DeviceMessages(n)
  PROVE  /\ AskedBy(m.frame) = m.asks /\ m.asks \in {Missing, n, n + MaxFrames}
         /\ Wants(m.frame) <=> m.wants # {}
         /\ Wants(m.frame) => Wanted(m.frame) \in Views /\ (CHOOSE d \in m.wants : TRUE) = Wanted(m.frame)
         /\ HasShape(m.frame) => LastOf(m.frame, "shape") \in Views
<1>0. MaxFrames \in Nat /\ n \in Nat /\ n + MaxFrames \in Nat
  BY WireAssumption
<1> DEFINE Right ==
      /\ AskedBy(m.frame) = m.asks /\ m.asks \in {Missing, n, n + MaxFrames}
      /\ Wants(m.frame) <=> m.wants # {}
      /\ Wants(m.frame) => Wanted(m.frame) \in Views /\ (CHOOSE d \in m.wants : TRUE) = Wanted(m.frame)
      /\ HasShape(m.frame) => LastOf(m.frame, "shape") \in Views
<1>1. CASE m \in {Says(SimpleAction(n, "request", n + MaxFrames), n + MaxFrames, {}),
                  Says(SimpleAction(n, "request", Missing), n, {}),
                  Says(SimpleAction(n, "response", n), Missing, {})}
  <2>1. PICK action \in {"request", "response"}, args \in Nat \union {Missing}, asks \in {Missing, n, n + MaxFrames} :
          /\ m = Says(SimpleAction(n, action, args), asks, {})
          /\ asks = IF action = "response" THEN Missing ELSE Or(args, n)
    BY <1>0, <1>1, WireAssumption DEF Or
  <2> DEFINE msg == SimpleAction(n, action, args)
  <2>2. /\ SimpleOf(msg) = [action |-> action, seq |-> args] /\ SimpleOf(msg) # Missing
        /\ LastOf(msg, "sequence") = n /\ ~Wants(msg) /\ ~HasShape(msg)
    BY <1>0, SimpleIsRead
  <2> HIDE DEF msg
  <2>3. m.frame = msg /\ m.asks = asks /\ m.wants = {}
    BY <2>1 DEF Says, msg
  <2>4. AskedBy(msg) = asks
    BY <2>1, <2>2 DEF AskedBy
  <2> QED BY <2>2, <2>3, <2>4
<1>2. ASSUME NEW type \in {"desktop", "mumu"}, NEW d \in Views, m = Says(Capture(n, type, d), Missing, {d}),
             type = "desktop" => d = Missing
      PROVE  Right
  <2>1. m.frame = Capture(n, type, d) /\ m.asks = Missing /\ m.wants = {d}
    BY <1>2 DEF Says
  <2>2. (CHOOSE x \in {d} : TRUE) = d
    OBVIOUS
  <2>3. Wants(m.frame) /\ Wanted(m.frame) = d /\ AskedBy(m.frame) = Missing /\ ~HasShape(m.frame)
    BY <1>2, <2>1, CaptureIsRead
  <2> QED BY <2>1, <2>2, <2>3
<1>3. ASSUME NEW d \in Views, m = Says(Shape(n, d), Missing, {}) PROVE Right
  <2>1. m.frame = Shape(n, d) /\ m.asks = Missing /\ m.wants = {}
    BY <1>3 DEF Says
  <2> QED BY <2>1, ShapeIsRead
<1>4. CASE m = Says(<<>>, Missing, {})
  <2>1. m.frame = <<>> /\ m.asks = Missing /\ m.wants = {}
    BY <1>4 DEF Says
  <2> QED BY <2>1, NothingIsRead
<1> HIDE DEF Right
<1>5. \/ m \in {Says(SimpleAction(n, "request", n + MaxFrames), n + MaxFrames, {}),
                Says(SimpleAction(n, "request", Missing), n, {}),
                Says(SimpleAction(n, "response", n), Missing, {})}
      \/ m = Says(Capture(n, "desktop", Missing), Missing, {Missing})
      \/ \E d \in Displays : m = Says(Capture(n, "mumu", d), Missing, {d})
      \/ \E d \in Views : m = Says(Shape(n, d), Missing, {})
      \/ m = Says(<<>>, Missing, {})
  BY DEF DeviceMessages, Views
<1> QED BY <1>1, <1>2, <1>3, <1>4, <1>5 DEF Right, Views

-----------------------------------------------------------------------------
(* What a step finds.                                                        *)

Links == {"closed", "connecting", "open", "closing"}
States == [live : BOOLEAN, desktop : BOOLEAN, input : Views, display : Views,
           sequence : Nat \ {0}, states : [Labels -> Links]]

WireTypes ==
  /\ made \in 0 .. MaxObjects /\ current \in {0, made}
  /\ objects \in [Objects -> States]
  /\ link \in [Labels -> Links] /\ fromDevice \in BOOLEAN
  /\ painted.by \in 0 .. made
  /\ announced \in Views
  /\ overtaken \in BOOLEAN /\ strayed \in BOOLEAN /\ wrong \in BOOLEAN
  /\ unanswered \subseteq Nat
  /\ top \in Nat /\ frames \in 0 .. MaxFrames

\* A conversion is of a msg of a session that there has been.
Conversions ==
  /\ \A c \in converting :
       /\ c.of \in 1 .. made /\ c.n \in 1 .. frames
       /\ \E m \in DeviceMessages(c.n) : c.frame = m.frame /\ c.asks = m.asks
  /\ \A c, e \in converting : c.n = e.n => c = e
  /\ blobs \/ converting = {}

\* Only the current session is live; one that no longer is, is blank; one that has no peer
\* has neither channels nor anything that is asked to the device.
OneSession ==
  /\ \A o \in Objects : objects[o].live => o = current
  /\ \A o \in Objects : ~objects[o].live => ViewOf(objects[o]) = ViewOf(Fresh)
  /\ Live => painted.by = current
  /\ \A c \in converting : c.of = current => painted.by = current
  /\ ~Live => /\ link = Alike("closed") /\ ~fromDevice /\ announced = Missing /\ ~overtaken
              /\ unanswered = {} /\ top = 0

Showing ==
  /\ PageHearsItsSession /\ ShapeOfInputDisplay
  /\ painted.by = 0 => painted.as = ViewOf(Fresh)
  /\ shape # Missing => current # 0

Pending == {c \in converting : c.of = current}

\* The display the device asked for last is the session's, or will be once the frames that
\* are being converted have been handled in order.
Wishes ==
  /\ ~strayed
  /\ Live /\ ~overtaken =>
       \/ objects[current].input = announced /\ \A c \in Pending : ~Wants(c.frame)
       \/ \E c \in Pending : /\ Wants(c.frame) /\ Wanted(c.frame) = announced
                             /\ \A e \in Pending : Wants(e.frame) => e.n <= c.n

\* What is still to be answered is in the frames that are being converted.
Owed ==
  /\ ~wrong
  /\ Live => unanswered = {c.asks : c \in Pending} \ {Missing}
  /\ Live => top < objects[current].sequence

WireInv == WireTypes /\ Conversions /\ OneSession /\ Showing /\ Wishes /\ Owed

LEMMA FreshIsState == Fresh \in States /\ Fresh.live = FALSE /\ Fresh.input = Missing /\ Fresh.sequence = 1
  BY DEF Fresh, States, Views, Links, Alike, Labels

LEMMA LabelsAre == "control" \in Labels /\ "text" \in Labels
  BY DEF Labels

LEMMA ObjectIsState == WireTypes /\ current # 0 => current \in Objects /\ objects[current] \in States
  BY WireAssumption DEF WireTypes, Objects

LEMMA BoundsAreNumbers == MaxObjects \in Nat /\ MaxFrames \in Nat /\ Missing \notin Nat
  BY WireAssumption

LEMMA AlikeIsLink == \A state \in Links : Alike(state) \in [Labels -> Links]
  BY DEF Alike

LEMMA WireInitKeeps == WireInit => WireInv
<1> SUFFICES ASSUME WireInit PROVE WireInv
  OBVIOUS
<1>1. WireTypes
  <2>1. objects \in [Objects -> States]
    BY FreshIsState DEF WireInit
  <2>2. link \in [Labels -> Links]
    BY AlikeIsLink DEF WireInit, Links
  <2>3. painted.by = 0 /\ made = 0 /\ current = 0
    BY DEF WireInit
  <2>4. /\ announced = Missing /\ overtaken = FALSE /\ strayed = FALSE /\ wrong = FALSE /\ unanswered = {}
        /\ top = 0 /\ frames = 0 /\ fromDevice = FALSE
    BY DEF WireInit
  <2>5. made \in 0 .. MaxObjects /\ current \in {0, made} /\ painted.by \in 0 .. made /\ frames \in 0 .. MaxFrames
    BY <2>3, <2>4, BoundsAreNumbers
  <2> QED BY <2>1, <2>2, <2>4, <2>5 DEF WireTypes, Views
<1>2. \A o \in Objects : objects[o] = Fresh
  BY DEF WireInit
<1>3. current = 0 /\ ~Live /\ converting = {} /\ shape = Missing
  BY DEF WireInit, Live
<1>4. Conversions /\ OneSession
  BY <1>2, <1>3, FreshIsState DEF WireInit, Conversions, OneSession
<1>5. Showing
  BY <1>3 DEF WireInit, Showing, PageHearsItsSession, ShapeOfInputDisplay
<1>6. Wishes /\ Owed
  BY <1>3 DEF WireInit, Wishes, Owed
<1> QED BY <1>1, <1>4, <1>5, <1>6 DEF WireInv

LEMMA WireStutters == WireInv /\ UNCHANGED wireVars => WireInv'
  BY DEF WireInv, WireTypes, Conversions, OneSession, Showing, PageHearsItsSession, ShapeOfInputDisplay, Wishes, Owed,
     Live, Pending, wireVars, objectVars, shownVars, echoVars, displayVars, boundVars

-----------------------------------------------------------------------------
(* Sessions come and go.                                                     *)

\* What closing a session leaves, whichever session is the page's afterwards.
Closes(o) ==
  /\ objects' = [objects EXCEPT ![o] = Fresh]
  /\ painted' = [by |-> o, as |-> ViewOf(Fresh)]
  /\ shape' = Missing /\ link' = Alike("closed") /\ fromDevice' = FALSE
  /\ announced' = Missing /\ overtaken' = FALSE /\ top' = 0 /\ unanswered' = {}

LEMMA CloseKeeps ==
  ASSUME WireInv, current # 0, Closes(current), made' \in {made, made + 1}, made' <= MaxObjects,
         current' \in {0, made'}, current' # 0 /\ current' # current => made' = made + 1,
         UNCHANGED <<blobs, converting, wrong, strayed, boundVars>>
  PROVE  WireInv'
<1> USE DEF WireInv
<1>1. current \in Objects /\ current \in 1 .. made /\ made \in Nat
  BY WireAssumption DEF WireTypes, Objects
<1>2. objects' \in [Objects -> States] /\ objects'[current] = Fresh
      /\ \A o \in Objects \ {current} : objects'[o] = objects[o]
  BY <1>1, FreshIsState DEF WireTypes, Closes
<1>3. \A o \in Objects : ~objects'[o].live /\ ViewOf(objects'[o]) = ViewOf(Fresh)
  BY <1>1, <1>2, FreshIsState DEF OneSession
<1>4. current' = 0 \/ current' \in Objects
  BY <1>1, WireAssumption DEF Objects
<1>5. ~Live'
  BY <1>3, <1>4 DEF Live
<1>6. WireTypes'
  <2>1. link' \in [Labels -> Links]
    BY AlikeIsLink DEF Closes, Links
  <2>2. painted'.by = current
    BY DEF Closes
  <2>3. /\ announced' = Missing /\ overtaken' = FALSE /\ unanswered' = {} /\ top' = 0 /\ fromDevice' = FALSE
        /\ UNCHANGED <<wrong, strayed, frames>>
    BY DEF Closes, boundVars
  <2>4. made' \in 0 .. MaxObjects /\ current \in 0 .. made'
    BY <1>1, BoundsAreNumbers DEF WireTypes
  <2>5. current' \in {0, made'}
    OBVIOUS
  <2> QED BY <1>2, <2>1, <2>2, <2>3, <2>4, <2>5 DEF WireTypes, Views
<1>7. Conversions'
  BY <1>1 DEF Conversions, boundVars
<1>8. OneSession'
  <2>1. \A c \in converting : c.of = current' => current' = current
    BY <1>1 DEF Conversions
  <2> QED BY <1>3, <1>5, <2>1 DEF OneSession, Closes
<1>9. Showing'
  BY <1>1, <1>2, <1>5 DEF Showing, PageHearsItsSession, ShapeOfInputDisplay, Closes
<1>10. Wishes' /\ Owed'
  BY <1>5 DEF Wishes, Owed
<1> QED BY <1>6, <1>7, <1>8, <1>9, <1>10

LEMMA ObjectStartsKeeps == ASSUME WireInv, ObjectStarts PROVE WireInv'
<1> USE DEF WireInv
<1>1. /\ made \in Nat /\ made' = made + 1 /\ made' <= MaxObjects /\ current' = made'
      /\ UNCHANGED <<blobs, converting, wrong, strayed, boundVars>>
  BY WireAssumption DEF ObjectStarts, WireTypes
<1>2. CASE current # 0
  <2>1. Closes(current)
    BY <1>2 DEF ObjectStarts, CloseObject, Closes, Paints
  <2> QED BY <1>1, <1>2, <2>1, CloseKeeps
<1>3. CASE current = 0
  <2>1. Untouched
    BY <1>3 DEF ObjectStarts
  <2>2. current' \in Objects /\ current' # 0
    BY <1>1, WireAssumption DEF Objects
  <2>3. ~Live /\ ~Live'
    BY <1>1, <1>3, <2>1, <2>2 DEF Live, OneSession, Untouched
  <2>4. shape = Missing
    BY <1>3 DEF Showing
  <2>5. WireTypes'
    BY <1>1, <2>1, WireAssumption DEF WireTypes, Untouched, boundVars
  <2>6. Conversions'
    BY <1>1 DEF Conversions, boundVars
  <2>7. \A c \in converting : c.of # current'
    BY <1>1 DEF Conversions
  <2>8. OneSession'
    BY <1>1, <1>3, <2>1, <2>3, <2>7 DEF OneSession, Untouched, Objects
  <2>9. Showing'
    BY <1>1, <1>3, <2>1, <2>3, <2>4 DEF Showing, PageHearsItsSession, ShapeOfInputDisplay, Untouched, WireTypes
  <2>10. Wishes' /\ Owed'
    BY <1>1, <2>3 DEF Wishes, Owed
  <2> QED BY <2>5, <2>6, <2>8, <2>9, <2>10
<1> QED BY <1>2, <1>3

LEMMA LeavesKeep == ASSUME WireInv, ObjectFails \/ PageCloses PROVE WireInv'
<1>1. current # 0 /\ Closes(current) /\ UNCHANGED <<blobs, made, converting, wrong, strayed, boundVars>>
  BY DEF ObjectFails, PageCloses, CloseObject, Closes, Paints, objectVars
<1>2. current' \in {current, 0}
  BY DEF ObjectFails, PageCloses, objectVars
<1> QED BY <1>1, <1>2, CloseKeeps DEF WireInv, WireTypes

LEMMA ObjectReadyKeeps == ASSUME WireInv, ObjectReady PROVE WireInv'
<1> USE DEF WireInv
<1>1. /\ current # 0 /\ current \in Objects /\ ~objects[current].live /\ painted.by # current
      /\ UNCHANGED <<blobs, objectVars, fromDevice, converting, shape, echoVars, displayVars, top, boundVars>>
      /\ link' = Alike("connecting")
  BY ObjectIsState DEF ObjectReady
<1>2. PICK ofDesktop \in BOOLEAN :
        Paints(current, [Fresh EXCEPT !.live = TRUE, !.desktop = ofDesktop, !.states = Alike("connecting")])
  BY DEF ObjectReady
<1> DEFINE state == [Fresh EXCEPT !.live = TRUE, !.desktop = ofDesktop, !.states = Alike("connecting")]
<1>3. state \in States /\ state.live /\ state.input = Missing /\ state.sequence = 1
  BY FreshIsState DEF States, Alike, Links
<1> HIDE DEF state
<1>4. /\ objects' \in [Objects -> States] /\ objects'[current] = state
      /\ \A o \in Objects \ {current} : objects'[o] = objects[o]
      /\ painted' = [by |-> current, as |-> ViewOf(state)]
  BY <1>1, <1>2, <1>3 DEF WireTypes, Paints, state
<1>5. ~Live /\ Live' /\ current' = current
  BY <1>1, <1>3, <1>4 DEF Live, objectVars
<1>6. Pending' = {} /\ shape = Missing
  BY <1>1, <1>5 DEF Pending, OneSession, Showing, PageHearsItsSession
<1>7. WireTypes'
  BY <1>1, <1>4 DEF WireTypes, objectVars, echoVars, displayVars, boundVars, Alike, Links
<1>8. Conversions'
  BY <1>1 DEF Conversions, objectVars, boundVars
<1>9. OneSession'
  BY <1>1, <1>3, <1>4, <1>5 DEF OneSession
<1>10. Showing'
  BY <1>1, <1>4, <1>5, <1>6 DEF Showing, PageHearsItsSession, ShapeOfInputDisplay
<1>11. announced = Missing /\ unanswered = {} /\ top = 0
  BY <1>5 DEF OneSession
<1>12. Wishes' /\ Owed'
  BY <1>1, <1>3, <1>4, <1>5, <1>6, <1>11 DEF Wishes, Owed, displayVars, echoVars
<1> QED BY <1>7, <1>8, <1>9, <1>10, <1>12

-----------------------------------------------------------------------------
(* Channels, announcements and what the user sends.                          *)

\* Steps that change the current session's own fields, or only its number, and tell the page.
Repaints(state) ==
  /\ objects' = [objects EXCEPT ![current] = state]
  /\ state.live = objects[current].live /\ state.input = objects[current].input
  /\ state.sequence \in {objects[current].sequence, objects[current].sequence + 1}
  /\ \/ ViewOf(state) = ViewOf(objects[current]) /\ painted' = painted
     \/ Live /\ painted' = [by |-> current, as |-> ViewOf(state)]
  /\ link' \in [Labels -> Links] /\ fromDevice' \in BOOLEAN /\ (Live \/ UNCHANGED <<link, fromDevice>>)
  /\ \/ top' = top
     \/ Live /\ top' = objects[current].sequence /\ state.sequence = objects[current].sequence + 1
  /\ frames' \in frames .. MaxFrames
  /\ UNCHANGED <<blobs, objectVars, converting, shape, echoVars, displayVars>>

LEMMA PaintKeeps ==
  ASSUME WireInv, current \in Objects, NEW state \in States, Repaints(state)
  PROVE  WireInv'
<1> USE DEF WireInv, objectVars, echoVars, displayVars, Repaints
<1>1. /\ objects' \in [Objects -> States] /\ objects'[current] = state
      /\ \A o \in Objects \ {current} : objects'[o] = objects[o]
  BY DEF WireTypes
<1>2. Live' = Live /\ Pending' = Pending /\ Live \in BOOLEAN
  BY <1>1 DEF Live, Pending, States
<1>3. WireTypes'
  <2>1. top' \in Nat
    BY DEF WireTypes, States
  <2>2. painted'.by = painted.by \/ painted'.by = current
    OBVIOUS
  <2> QED BY <1>1, <2>1, <2>2 DEF WireTypes
<1>4. Conversions'
  <2>1. frames \in Nat /\ frames' \in Nat
    BY BoundsAreNumbers DEF WireTypes
  <2>2. frames <= frames'
    BY <2>1, BoundsAreNumbers
  <2> QED BY <2>1, <2>2 DEF Conversions
<1>5. OneSession'
  <2>1. ~Live => link' = link /\ fromDevice' = fromDevice /\ top' = top /\ ViewOf(state) = ViewOf(objects[current])
    OBVIOUS
  <2>2. painted' = painted \/ painted'.by = current
    OBVIOUS
  <2>3. \A o \in Objects : objects'[o].live = objects[o].live
    BY <1>1
  <2>4. \A o \in Objects : ~objects'[o].live => ViewOf(objects'[o]) = ViewOf(Fresh)
    <3>1. Live => objects[current].live
      BY DEF Live
    <3> QED BY <1>1, <2>1, <2>3, <3>1 DEF OneSession
  <2> QED BY <1>2, <2>1, <2>2, <2>3, <2>4 DEF OneSession
<1>6. Showing'
  <2>1. painted.by # 0 => painted.by \in Objects
    BY BoundsAreNumbers DEF WireTypes, Objects
  <2>2. CASE ViewOf(state) = ViewOf(objects[current]) /\ painted' = painted
    BY <1>1, <1>2, <2>1, <2>2 DEF Showing, PageHearsItsSession, ShapeOfInputDisplay
  <2>3. CASE Live /\ painted' = [by |-> current, as |-> ViewOf(state)]
    BY <1>1, <1>2, <2>3 DEF Showing, PageHearsItsSession, ShapeOfInputDisplay, Live
  <2> QED BY <2>2, <2>3
<1>7. Wishes' /\ Owed'
  <2>1. objects[current].sequence \in Nat /\ top \in Nat
    BY DEF WireTypes, States
  <2> QED BY <1>1, <1>2, <2>1 DEF Wishes, Owed
<1> QED BY <1>3, <1>4, <1>5, <1>6, <1>7

LEMMA FramesAreCounted ==
  ASSUME WireInv PROVE frames \in frames .. MaxFrames /\ link \in [Labels -> Links] /\ fromDevice \in BOOLEAN
  BY BoundsAreNumbers DEF WireInv, WireTypes

LEMMA ViewSame ==
  ASSUME NEW state \in States, NEW number
  PROVE  ViewOf([state EXCEPT !.sequence = number]) = ViewOf(state)
  BY DEF States, ViewOf

LEMMA ChannelKeeps ==
  ASSUME WireInv, NEW l \in Labels, OwnChannelChanges(l) PROVE WireInv'
<1>1. Live /\ current \in Objects /\ objects[current] \in States /\ link \in [Labels -> Links]
  BY ObjectIsState DEF OwnChannelChanges, Live, WireInv, WireTypes
<1>2. /\ UNCHANGED <<blobs, objectVars, converting, shape, echoVars, announced, overtaken, strayed, top, frames, fromDevice>>
  BY DEF OwnChannelChanges, ChannelsOnly, displayVars, boundVars
<1>3. link' \in [Labels -> Links]
  BY <1>1 DEF OwnChannelChanges, Links
<1>4. \/ UNCHANGED <<objects, painted>>
      \/ \E new \in {"open", "closed"} : Paints(current, [objects[current] EXCEPT !.states[l] = new])
  BY DEF OwnChannelChanges, Publishes
<1>5. CASE UNCHANGED <<objects, painted>>
  <2>1. objects' = [objects EXCEPT ![current] = objects[current]]
    BY <1>1, <1>5 DEF WireInv, WireTypes
  <2>8. Repaints(objects[current])
    BY <1>1, <1>2, <1>3, <1>5, <2>1, FramesAreCounted DEF Repaints, displayVars
  <2> QED BY <1>1, <2>8, PaintKeeps
<1>6. ASSUME NEW new \in {"open", "closed"}, Paints(current, [objects[current] EXCEPT !.states[l] = new])
      PROVE  WireInv'
  <2> DEFINE state == [objects[current] EXCEPT !.states[l] = new]
  <2>1. /\ state \in States /\ state.live = objects[current].live /\ state.input = objects[current].input
        /\ state.sequence = objects[current].sequence
    BY <1>1 DEF States, Links
  <2>2. objects' = [objects EXCEPT ![current] = state] /\ painted' = [by |-> current, as |-> ViewOf(state)]
    BY <1>6 DEF Paints
  <2> HIDE DEF state
  <2>8. Repaints(state)
    BY <1>1, <1>2, <1>3, <2>1, <2>2, FramesAreCounted DEF Repaints, displayVars
  <2> QED BY <1>1, <2>1, <2>8, PaintKeeps
<1> QED BY <1>4, <1>5, <1>6

LEMMA DeviceChannelKeeps == ASSUME WireInv, DeviceChannelChanges PROVE WireInv'
<1>1. Live /\ current \in Objects /\ objects[current] \in States /\ link' \in [Labels -> Links] /\ fromDevice' \in BOOLEAN
  BY ObjectIsState DEF DeviceChannelChanges, Live, WireInv, WireTypes
<1>2. objects' = [objects EXCEPT ![current] = objects[current]] /\ painted' = painted
  BY <1>1 DEF DeviceChannelChanges, WireInv, WireTypes
<1>3. /\ UNCHANGED <<blobs, objectVars, converting, shape, echoVars, announced, overtaken, strayed, top, frames>>
  BY DEF DeviceChannelChanges, ChannelsOnly, displayVars, boundVars
<1>8. Repaints(objects[current])
  BY <1>1, <1>2, <1>3, FramesAreCounted DEF Repaints, displayVars
<1> QED BY <1>1, <1>8, PaintKeeps

LEMMA AnnouncedKeeps == ASSUME WireInv, NEW d \in Displays, DisplayAnnounced(d) PROVE WireInv'
<1>1. Live /\ current \in Objects /\ objects[current] \in States
  BY ObjectIsState DEF DisplayAnnounced, Live, WireInv
<1> DEFINE state == [objects[current] EXCEPT !.display = d]
<1>2. /\ state \in States /\ state.live = objects[current].live /\ state.input = objects[current].input
      /\ state.sequence = objects[current].sequence
  BY <1>1 DEF States, Views
<1>3. objects' = [objects EXCEPT ![current] = state] /\ painted' = [by |-> current, as |-> ViewOf(state)]
  BY DEF DisplayAnnounced, Paints
<1>4. UNCHANGED <<blobs, objectVars, link, fromDevice, converting, shape, echoVars, announced, overtaken, strayed, top>>
  BY DEF DisplayAnnounced, displayVars
<1>5. frames' \in frames .. MaxFrames
  BY BoundsAreNumbers DEF DisplayAnnounced, WireInv, WireTypes
<1> HIDE DEF state
<1>8. Repaints(state)
  BY <1>1, <1>2, <1>3, <1>4, <1>5, FramesAreCounted DEF Repaints, displayVars
<1> QED BY <1>1, <1>2, <1>8, PaintKeeps

\* While no msg is under way an envelope names the display that the device wants.
LEMMA NothingStrays ==
  ASSUME WireInv, Live, Settled, NEW number,
         NEW l, NEW message,
         \/ message = Missing
         \/ l = "control" /\ message = RomMessage(number, "input", InputDisplay(objects[current]))
         \/ l = "text" /\ message = RomMessage(number, "text", objects[current].input)
  PROVE  ~Strays(l, message)
<1>1. objects[current].input = announced
  BY DEF WireInv, Wishes, Settled, Pending
<1>2. CASE message = Missing
  BY <1>2 DEF Strays
<1>3. CASE l = "control" /\ message = RomMessage(number, "input", InputDisplay(objects[current]))
  BY <1>1, <1>3, RomIsRead DEF Strays, InputDisplay
<1>4. CASE l = "text" /\ message = RomMessage(number, "text", objects[current].input)
  BY <1>1, <1>4, RomIsRead DEF Strays
<1> QED BY <1>2, <1>3, <1>4

LEMMA SendsKeep ==
  ASSUME WireInv, NEW l \in Labels, NEW message, NEW number, Sends(l, message),
         \/ message = Missing
         \/ l = "control" /\ message = RomMessage(number, "input", InputDisplay(objects[current]))
         \/ l = "text" /\ message = RomMessage(number, "text", objects[current].input)
  PROVE  WireInv'
<1>1. current # 0 /\ current \in Objects /\ objects[current] \in States
  BY ObjectIsState DEF Sends, WireInv
<1>2. UNCHANGED <<blobs, objectVars, link, fromDevice, converting, shape, echoVars, announced, overtaken, painted, frames>>
  BY DEF Sends, shownVars
<1> DEFINE state == [objects[current] EXCEPT !.sequence = objects[current].sequence + 1]
<1>3. objects' = [objects EXCEPT ![current] = state]
  BY DEF Sends
<1>4. /\ state \in States /\ state.live = objects[current].live /\ state.input = objects[current].input
      /\ state.sequence = objects[current].sequence + 1 /\ ViewOf(state) = ViewOf(objects[current])
  BY <1>1, ViewSame DEF States
<1>5. \/ top' = top /\ strayed' = strayed
      \/ link[l] = "open" /\ top' = objects[current].sequence /\ strayed' = (strayed \/ (Settled /\ Strays(l, message)))
  BY DEF Sends
<1>6. CASE link[l] = "open" /\ top' = objects[current].sequence /\ strayed' = (strayed \/ (Settled /\ Strays(l, message)))
  <2>1. Live
    BY <1>6 DEF WireInv, OneSession, Alike
  <2>2. ~(Settled /\ Strays(l, message))
    BY <2>1, NothingStrays
  <2>3. strayed = FALSE /\ strayed' = FALSE
    BY <1>6, <2>2 DEF WireInv, WireTypes, Wishes
  <2> HIDE DEF state
  <2>8. Repaints(state)
    BY <1>1, <1>2, <1>3, <1>4, <1>6, <2>1, <2>3, FramesAreCounted DEF Repaints, displayVars
  <2> QED BY <1>1, <1>4, <2>8, PaintKeeps
<1>7. CASE top' = top /\ strayed' = strayed
  <2> HIDE DEF state
  <2>8. Repaints(state)
    BY <1>1, <1>2, <1>3, <1>4, <1>7, FramesAreCounted DEF Repaints, displayVars
  <2> QED BY <1>1, <1>4, <2>8, PaintKeeps
<1> QED BY <1>5, <1>6, <1>7

LEMMA UserSendsKeep == ASSUME WireInv, SendInput \/ SendText PROVE WireInv'
<1>1. CASE SendInput
  <2>1. \E message : /\ Sends("control", message)
                     /\ message \in {Missing, RomMessage(objects[current].sequence, "input", InputDisplay(objects[current]))}
    BY <1>1 DEF SendInput
  <2> QED BY <2>1, SendsKeep, LabelsAre
<1>2. CASE SendText
  <2>1. SendInput \/ Sends("text", RomMessage(objects[current].sequence, "text", objects[current].input))
    BY <1>2 DEF SendText
  <2> QED BY <1>1, <2>1, SendsKeep, LabelsAre
<1> QED BY <1>1, <1>2

-----------------------------------------------------------------------------
(* Frames of the device.                                                     *)

\* What handling a message leaves: the input it asks for, a number more or not.
Handled(m, asked) ==
  \E input \in Views, number \in {objects[current].sequence, objects[current].sequence + 1} :
    LET state == [objects[current] EXCEPT !.input = input, !.sequence = number]
    IN  /\ input = IF Wants(m.frame) THEN Wanted(m.frame) ELSE objects[current].input
        /\ objects' = [objects EXCEPT ![current] = state]
        /\ \/ input = objects[current].input /\ painted' = painted /\ shape' = shape
           \/ input = objects[current].input /\ painted' = painted /\ shape' = [by |-> current, screen |-> shape'.screen]
                /\ (shape'.screen = Missing \/ input \in {Missing, shape'.screen})
           \/ painted' = [by |-> current, as |-> ViewOf(state)] /\ shape' = Missing
           \/ painted' = [by |-> current, as |-> ViewOf(state)] /\ shape' = [by |-> current, screen |-> shape'.screen]
                /\ (shape'.screen = Missing \/ input \in {Missing, shape'.screen})
        /\ unanswered' = asked \ {m.asks} /\ wrong' = wrong
        /\ top' = top \/ (top' = objects[current].sequence /\ number = objects[current].sequence + 1)

LEMMA HandleDoes ==
  ASSUME WireTypes, current \in Objects, objects[current] \in States,
         NEW n \in 1 .. MaxFrames, NEW m \in DeviceMessages(n), NEW asked, asked \subseteq Nat,
         m.asks # Missing => m.asks \in asked, Handle(current, m.frame, asked)
  PROVE  Handled(m, asked)
<1>1. /\ AskedBy(m.frame) = m.asks
      /\ Wants(m.frame) => Wanted(m.frame) \in Views
      /\ m.asks \in Nat \union {Missing}
  BY MessageIsRead, BoundsAreNumbers
<1> DEFINE old   == objects[current].input
           input == IF Wants(m.frame) THEN Wanted(m.frame) ELSE old
           state == [objects[current] EXCEPT !.input = input]
<1>2. input \in Views /\ old \in Views
  BY <1>1 DEF States
<1>3. input = LET c == CaptureOf(m.frame)
              IN IF c = Missing THEN objects[current].input ELSE IF c.type = "mumu" THEN c.id ELSE Missing
  BY DEF Wants, Wanted
<1> DEFINE screen == LastOf(m.frame, "shape")
           others == screen # Missing /\ input # Missing /\ screen # input
           changed == input # old
<1>4. /\ painted' = IF changed THEN [by |-> current, as |-> ViewOf(state)] ELSE painted
      /\ shape' = IF HasShape(m.frame) /\ ~others THEN [by |-> current, screen |-> screen]
                  ELSE IF changed THEN Missing ELSE shape
      /\ IF m.asks = Missing
         THEN objects' = [objects EXCEPT ![current] = state] /\ unanswered' = asked /\ UNCHANGED <<wrong, top>>
         ELSE Answer(current, m.asks, state, asked)
  BY <1>1, <1>3 DEF Handle
<1> HIDE DEF input
<1>5. \E number \in {objects[current].sequence, objects[current].sequence + 1} :
        /\ objects' = [objects EXCEPT ![current] = [objects[current] EXCEPT !.input = input, !.sequence = number]]
        /\ unanswered' = asked \ {m.asks} /\ wrong' = wrong
        /\ top' = top \/ (top' = objects[current].sequence /\ number = objects[current].sequence + 1)
  <2>1. state = [objects[current] EXCEPT !.input = input, !.sequence = objects[current].sequence]
    BY DEF States
  <2>2. CASE m.asks = Missing
    <3>1. asked = asked \ {Missing}
      BY BoundsAreNumbers
    <3> QED BY <1>4, <2>1, <2>2, <3>1
  <2>3. CASE m.asks # Missing /\ objects' = [objects EXCEPT ![current] = state]
             /\ unanswered' = asked \ {m.asks} /\ UNCHANGED <<wrong, top>>
    BY <2>1, <2>3
  <2>4. CASE m.asks # Missing /\ objects' = [objects EXCEPT ![current] = [state EXCEPT !.sequence = @ + 1]]
             /\ (\/ unanswered' = asked \ {m.asks} /\ UNCHANGED <<wrong, top>>
                 \/ LET heard == SimpleOf(SimpleAction(state.sequence, "response", m.asks))
                    IN /\ wrong' = (wrong \/ heard.action # "response" \/ heard.seq \notin asked)
                       /\ unanswered' = asked \ {heard.seq}
                       /\ top' = state.sequence)
    <3>1. state.sequence = objects[current].sequence /\ state.sequence \in Nat
      BY DEF States
    <3>2. SimpleOf(SimpleAction(state.sequence, "response", m.asks)) = [action |-> "response", seq |-> m.asks]
      BY <1>1, <3>1, SimpleIsRead
    <3>3. m.asks \in asked
      BY <2>4
    <3>4. \/ unanswered' = asked \ {m.asks} /\ UNCHANGED <<wrong, top>>
          \/ /\ wrong' = (wrong \/ "response" # "response" \/ m.asks \notin asked)
             /\ unanswered' = asked \ {m.asks} /\ top' = state.sequence
      BY <2>4, <3>2
    <3>5. /\ wrong' = wrong /\ unanswered' = asked \ {m.asks}
          /\ top' = top \/ top' = objects[current].sequence
      BY <3>1, <3>3, <3>4 DEF WireTypes
    <3>6. [state EXCEPT !.sequence = @ + 1] = [objects[current] EXCEPT !.input = input, !.sequence = objects[current].sequence + 1]
      BY DEF States
    <3> QED BY <2>4, <3>5, <3>6
  <2> QED BY <1>4, <2>2, <2>3, <2>4 DEF Answer
<1>6. PICK number \in {objects[current].sequence, objects[current].sequence + 1} :
        /\ objects' = [objects EXCEPT ![current] = [objects[current] EXCEPT !.input = input, !.sequence = number]]
        /\ unanswered' = asked \ {m.asks} /\ wrong' = wrong
        /\ top' = top \/ (top' = objects[current].sequence /\ number = objects[current].sequence + 1)
  BY <1>5
<1>7. ViewOf(state) = ViewOf([objects[current] EXCEPT !.input = input, !.sequence = number])
  BY DEF ViewOf, States
<1>8. \/ ~changed /\ painted' = painted
      \/ painted' = [by |-> current, as |-> ViewOf([objects[current] EXCEPT !.input = input, !.sequence = number])]
           /\ changed
  BY <1>4, <1>7
<1>9. \/ shape' = [by |-> current, screen |-> shape'.screen] /\ (shape'.screen = Missing \/ input \in {Missing, shape'.screen})
      \/ changed /\ shape' = Missing
      \/ ~changed /\ shape' = shape
  BY <1>4
<1>10. input = IF Wants(m.frame) THEN Wanted(m.frame) ELSE objects[current].input
  BY DEF input
<1> QED BY <1>2, <1>6, <1>8, <1>9, <1>10 DEF Handled

LEMMA HandledKeeps ==
  ASSUME WireInv, Live, NEW m, NEW asked \in SUBSET Nat, Handled(m, asked),
         announced' \in Views, overtaken' \in BOOLEAN, frames' \in frames .. MaxFrames,
         UNCHANGED <<objectVars, link, fromDevice, strayed>>
  PROVE  /\ WireTypes' /\ OneSession' /\ Showing' /\ Live' /\ ~wrong'
         /\ top' < objects'[current].sequence /\ unanswered' = asked \ {m.asks}
         /\ objects'[current].input = IF Wants(m.frame) THEN Wanted(m.frame) ELSE objects[current].input
<1> USE DEF WireInv
<1>1. /\ current # 0 /\ current \in Objects /\ objects[current] \in States /\ objects[current].live
      /\ objects[current].sequence \in Nat \ {0} /\ top \in Nat /\ top < objects[current].sequence
      /\ current' = current /\ made' = made
  BY ObjectIsState DEF Live, objectVars, Owed, WireTypes, States
<1>2. PICK input \in Views, number \in {objects[current].sequence, objects[current].sequence + 1} :
        LET state == [objects[current] EXCEPT !.input = input, !.sequence = number]
        IN  /\ input = IF Wants(m.frame) THEN Wanted(m.frame) ELSE objects[current].input
            /\ objects' = [objects EXCEPT ![current] = state]
            /\ \/ input = objects[current].input /\ painted' = painted /\ shape' = shape
               \/ input = objects[current].input /\ painted' = painted /\ shape' = [by |-> current, screen |-> shape'.screen]
                    /\ (shape'.screen = Missing \/ input \in {Missing, shape'.screen})
               \/ painted' = [by |-> current, as |-> ViewOf(state)] /\ shape' = Missing
               \/ painted' = [by |-> current, as |-> ViewOf(state)] /\ shape' = [by |-> current, screen |-> shape'.screen]
                    /\ (shape'.screen = Missing \/ input \in {Missing, shape'.screen})
            /\ unanswered' = asked \ {m.asks} /\ wrong' = wrong
            /\ top' = top \/ (top' = objects[current].sequence /\ number = objects[current].sequence + 1)
  BY DEF Handled
<1> DEFINE state == [objects[current] EXCEPT !.input = input, !.sequence = number]
<1>3. state \in States /\ state.live /\ state.input = input /\ state.sequence = number
  <2>1. number \in Nat \ {0} /\ input \in Views
    BY <1>1
  <2> QED BY <1>1, <2>1 DEF States
<1>4. input = objects[current].input => ViewOf(state) = ViewOf(objects[current])
  BY <1>1 DEF ViewOf, States
<1>5. objects' = [objects EXCEPT ![current] = state] /\ unanswered' = asked \ {m.asks} /\ wrong' = wrong
  BY <1>2
<1>6. \/ input = objects[current].input /\ painted' = painted /\ (shape' = shape \/ shape'.by = current)
      \/ painted' = [by |-> current, as |-> ViewOf(state)] /\ (shape' = Missing \/ shape'.by = current)
  BY <1>2
<1>7. \/ input = objects[current].input /\ shape' = shape
      \/ shape' = Missing \/ shape'.screen = Missing \/ input \in {Missing, shape'.screen}
  BY <1>2
<1>8. top' \in Nat /\ top' < number
  BY <1>1, <1>2
<1>9. input = IF Wants(m.frame) THEN Wanted(m.frame) ELSE objects[current].input
  BY <1>2
<1> HIDE DEF state
<1>10. /\ objects' \in [Objects -> States] /\ objects'[current] = state
       /\ \A o \in Objects \ {current} : objects'[o] = objects[o]
  BY <1>1, <1>3, <1>5 DEF WireTypes
<1>11. Live' /\ painted.by = current
  BY <1>1, <1>3, <1>10 DEF Live, OneSession
<1>12. painted'.by = current
  BY <1>6, <1>11
<1>13. WireTypes'
  <2>1. painted'.by \in 0 .. made' /\ frames' \in 0 .. MaxFrames
    BY <1>1, <1>11, <1>12, BoundsAreNumbers DEF WireTypes
  <2>2. wrong' \in BOOLEAN /\ unanswered' \subseteq Nat
    BY <1>5 DEF WireTypes
  <2> QED BY <1>1, <1>8, <1>10, <2>1, <2>2 DEF WireTypes
<1>14. OneSession'
  BY <1>1, <1>3, <1>10, <1>11, <1>12 DEF OneSession
<1>15. Showing'
  <2>1. painted'.as = ViewOf(objects'[current])
    BY <1>1, <1>4, <1>6, <1>10, <1>11 DEF Showing, PageHearsItsSession
  <2>2. shape' # Missing => shape'.by = current
    BY <1>6 DEF Showing, PageHearsItsSession
  <2>3. shape' # Missing => shape'.screen = Missing \/ input \in {Missing, shape'.screen}
    BY <1>7 DEF Showing, ShapeOfInputDisplay
  <2> QED BY <1>1, <1>3, <1>10, <1>12, <2>1, <2>2, <2>3 DEF Showing, PageHearsItsSession, ShapeOfInputDisplay
<1> QED BY <1>3, <1>5, <1>8, <1>9, <1>10, <1>11, <1>13, <1>14, <1>15 DEF Owed

LEMMA AsksDiffer ==
  ASSUME Conversions, frames \in 0 .. MaxFrames, NEW c \in converting, NEW e \in converting, c # e, c.asks = e.asks
  PROVE  c.asks = Missing
<1>1. c.n # e.n /\ c.n \in 1 .. MaxFrames /\ e.n \in 1 .. MaxFrames
  BY BoundsAreNumbers DEF Conversions
<1>2. c.asks \in {Missing, c.n, c.n + MaxFrames} /\ e.asks \in {Missing, e.n, e.n + MaxFrames}
  <2>1. PICK m \in DeviceMessages(c.n) : c.asks = m.asks
    BY DEF Conversions
  <2>2. PICK k \in DeviceMessages(e.n) : e.asks = k.asks
    BY DEF Conversions
  <2> QED BY <1>1, <2>1, <2>2, MessageIsRead
<1> QED BY <1>1, <1>2, BoundsAreNumbers

LEMMA FrameComesKeeps == ASSUME WireInv, FrameComes PROVE WireInv'
<1> USE DEF WireInv
<1>1. /\ Live /\ current # 0 /\ current \in Objects /\ objects[current] \in States /\ frames' = frames + 1
      /\ frames \in Nat /\ frames + 1 \in 1 .. MaxFrames /\ current \in 1 .. made
      /\ UNCHANGED <<blobs, objectVars, link, fromDevice, overtaken, strayed>>
  BY ObjectIsState, BoundsAreNumbers DEF FrameComes, Live, WireTypes
<1>2. PICK m \in DeviceMessages(frames + 1) :
       LET asked == unanswered \cup ({m.asks} \ {Missing}) IN
       /\ announced' = IF m.wants = {} THEN announced ELSE CHOOSE d \in m.wants : TRUE
       /\ IF blobs
          THEN /\ converting' = converting \cup {[of |-> current, n |-> frames + 1, frame |-> m.frame, asks |-> m.asks]}
               /\ unanswered' = asked /\ UNCHANGED <<objects, painted, shape, wrong, top>>
          ELSE Handle(current, m.frame, asked) /\ UNCHANGED converting
  BY DEF FrameComes
<1> DEFINE asked == unanswered \cup ({m.asks} \ {Missing})
<1>3. announced' = (IF Wants(m.frame) THEN Wanted(m.frame) ELSE announced) /\ announced' \in Views
  BY <1>1, <1>2, MessageIsRead DEF WireTypes
<1>4. m.asks \in Nat \union {Missing}
  BY <1>1, MessageIsRead, BoundsAreNumbers
<1>5. asked \in SUBSET Nat
  BY <1>4 DEF WireTypes
<1>6. CASE blobs
  <2> DEFINE new == [of |-> current, n |-> frames + 1, frame |-> m.frame, asks |-> m.asks]
  <2>1. converting' = converting \union {new} /\ unanswered' = asked /\ UNCHANGED <<objects, painted, shape, wrong, top>>
    BY <1>2, <1>6
  <2>2. new.of = current /\ new.n = frames + 1 /\ new.frame = m.frame /\ new.asks = m.asks
    OBVIOUS
  <2> HIDE DEF new
  <2>3. WireTypes'
    BY <1>1, <1>3, <1>5, <2>1 DEF WireTypes, objectVars
  <2>4. \A c \in converting : c.n \in 1 .. frames
    BY DEF Conversions
  <2>5. Conversions'
    <3>1. \A c \in converting' : c.of \in 1 .. made' /\ c.n \in 1 .. frames'
      BY <1>1, <2>1, <2>2, <2>4 DEF Conversions, objectVars
    <3>2. \A c \in converting' : \E k \in DeviceMessages(c.n) : c.frame = k.frame /\ c.asks = k.asks
      BY <2>1, <2>2 DEF Conversions
    <3>3. \A c, e \in converting' : c.n = e.n => c = e
      BY <1>1, <2>1, <2>2, <2>4 DEF Conversions
    <3> QED BY <1>1, <1>6, <3>1, <3>2, <3>3 DEF Conversions
  <2>6. Live' /\ Pending' = Pending \union {new}
    BY <1>1, <2>1, <2>2 DEF Live, Pending, objectVars
  <2>7. OneSession'
    BY <1>1, <2>1, <2>6 DEF OneSession, objectVars
  <2>8. Showing'
    BY <1>1, <2>1, <2>6 DEF Showing, PageHearsItsSession, ShapeOfInputDisplay, objectVars
  <2>9. Wishes'
    <3>1. CASE Wants(m.frame)
      <4>1. \A e \in Pending' : e.n <= new.n
        BY <1>1, <2>2, <2>4, <2>6 DEF Pending
      <4> QED BY <1>1, <1>3, <2>2, <2>6, <3>1, <4>1 DEF Wishes
    <3>2. CASE ~Wants(m.frame)
      BY <1>1, <1>3, <2>1, <2>2, <2>6, <3>2 DEF Wishes, objectVars
    <3> QED BY <3>1, <3>2
  <2>10. Owed'
    <3>1. unanswered = {c.asks : c \in Pending} \ {Missing}
      BY <1>1 DEF Owed
    <3>2. {c.asks : c \in Pending'} = {c.asks : c \in Pending} \union {m.asks}
      BY <2>2, <2>6
    <3> QED BY <1>1, <2>1, <2>6, <3>1, <3>2 DEF Owed, objectVars
  <2> QED BY <2>3, <2>5, <2>7, <2>8, <2>9, <2>10
<1>7. CASE ~blobs
  <2>1. Handle(current, m.frame, asked) /\ converting' = converting /\ converting = {} /\ Pending = {}
    BY <1>2, <1>7 DEF Conversions, Pending
  <2>2. m.asks # Missing => m.asks \in asked
    OBVIOUS
  <2>3. Handled(m, asked)
    BY <1>1, <1>5, <2>1, <2>2, HandleDoes
  <2>4. unanswered = {}
    BY <1>1, <2>1 DEF Owed
  <2>5. overtaken' \in BOOLEAN /\ frames' \in frames .. MaxFrames
    BY <1>1 DEF WireTypes
  <2> HIDE DEF asked
  <2>6. /\ WireTypes' /\ OneSession' /\ Showing' /\ Live' /\ ~wrong'
        /\ top' < objects'[current].sequence /\ unanswered' = asked \ {m.asks}
        /\ objects'[current].input = IF Wants(m.frame) THEN Wanted(m.frame) ELSE objects[current].input
    BY <1>1, <1>3, <1>5, <2>3, <2>5, HandledKeeps
  <2>7. Conversions' /\ Pending' = {} /\ unanswered' = {}
    BY <1>1, <2>1, <2>4, <2>6 DEF Conversions, Pending, asked
  <2>8. ~overtaken => objects[current].input = announced
    BY <1>1, <2>1 DEF Wishes
  <2>9. Wishes' /\ Owed'
    BY <1>1, <1>3, <2>6, <2>7, <2>8 DEF Wishes, Owed, objectVars
  <2> QED BY <2>6, <2>7, <2>9
<1> QED BY <1>6, <1>7

LEMMA ConvertedKeeps == ASSUME WireInv, NEW c \in converting, Converted(c) PROVE WireInv'
<1> USE DEF WireInv
<1>1. /\ converting' = converting \ {c}
      /\ UNCHANGED <<blobs, objectVars, link, fromDevice, announced, strayed, boundVars>>
  BY DEF Converted
<1>2. c.of \in Objects /\ c.of # 0 /\ c.n \in 1 .. MaxFrames
  BY BoundsAreNumbers DEF Conversions, WireTypes, Objects
<1>3. Conversions'
  BY <1>1 DEF Conversions, objectVars, boundVars
<1>4. CASE objects[c.of].live
  <2>1. c.of = current /\ Live /\ current \in Objects /\ objects[current] \in States /\ c \in Pending
    BY <1>2, <1>4, ObjectIsState DEF OneSession, Live, Pending
  <2>2. Handle(current, c.frame, unanswered)
        /\ overtaken' = (overtaken \/ \E e \in converting : e.of = c.of /\ e.n < c.n)
    BY <1>4, <2>1 DEF Converted
  <2>3. PICK m \in DeviceMessages(c.n) : c.frame = m.frame /\ c.asks = m.asks
    BY DEF Conversions
  <2>4. unanswered \subseteq Nat /\ (m.asks # Missing => m.asks \in unanswered)
    BY <2>1, <2>3 DEF Owed, WireTypes
  <2>5. Handled(m, unanswered)
    BY <1>2, <2>1, <2>2, <2>3, <2>4, HandleDoes
  <2>6. announced' \in Views /\ overtaken' \in BOOLEAN /\ frames' \in frames .. MaxFrames
    BY <1>1, <2>2, FramesAreCounted DEF WireTypes, boundVars
  <2>7. /\ WireTypes' /\ OneSession' /\ Showing' /\ Live' /\ ~wrong'
        /\ top' < objects'[current].sequence /\ unanswered' = unanswered \ {c.asks}
        /\ objects'[current].input = IF Wants(c.frame) THEN Wanted(c.frame) ELSE objects[current].input
    BY <1>1, <2>1, <2>3, <2>4, <2>5, <2>6, HandledKeeps
  <2>8. Pending' = Pending \ {c} /\ current' = current
    BY <1>1 DEF Pending, objectVars
  <2>9. Owed'
    <3>1. unanswered = {e.asks : e \in Pending} \ {Missing}
      BY <2>1 DEF Owed
    <3>2. \A e \in Pending \ {c} : e.asks = c.asks => e.asks = Missing
      BY AsksDiffer DEF Pending, WireTypes
    <3>3. unanswered \ {c.asks} = {e.asks : e \in Pending \ {c}} \ {Missing}
      BY <3>1, <3>2
    <3> QED BY <2>7, <2>8, <3>3 DEF Owed
  <2>10. Wishes'
    <3> SUFFICES ASSUME ~overtaken'
                 PROVE  \/ objects'[current].input = announced /\ \A e \in Pending \ {c} : ~Wants(e.frame)
                        \/ \E d \in Pending \ {c} : /\ Wants(d.frame) /\ Wanted(d.frame) = announced
                                              /\ \A e \in Pending \ {c} : Wants(e.frame) => e.n <= d.n
      BY <1>1, <2>8 DEF Wishes
    <3>1. ~overtaken /\ \A e \in Pending : ~(e.n < c.n)
      BY <2>1, <2>2 DEF Pending
    <3>2. \A e \in Pending : e.n \in Nat /\ (e.n = c.n => e = c)
      BY DEF Conversions, Pending
    <3>3. CASE objects[current].input = announced /\ \A e \in Pending : ~Wants(e.frame)
      BY <2>1, <2>7, <3>3
    <3>4. ASSUME NEW d \in Pending, Wants(d.frame), Wanted(d.frame) = announced,
                 \A e \in Pending : Wants(e.frame) => e.n <= d.n
          PROVE  \/ objects'[current].input = announced /\ \A e \in Pending \ {c} : ~Wants(e.frame)
                 \/ \E k \in Pending \ {c} : /\ Wants(k.frame) /\ Wanted(k.frame) = announced
                                       /\ \A e \in Pending \ {c} : Wants(e.frame) => e.n <= k.n
      <4>1. CASE d = c
        <5>1. \A e \in Pending \ {c} : ~Wants(e.frame)
          BY <2>1, <3>1, <3>2, <3>4, <4>1
        <5> QED BY <2>7, <3>4, <4>1, <5>1
      <4>2. CASE d # c
        BY <3>4, <4>2
      <4> QED BY <4>1, <4>2
    <3> QED BY <2>1, <3>1, <3>3, <3>4 DEF Wishes
  <2> QED BY <1>3, <2>7, <2>9, <2>10
<1>5. CASE ~objects[c.of].live
  <2>1. UNCHANGED <<objects, painted, shape, unanswered, wrong, top, overtaken>>
    BY <1>5 DEF Converted, echoVars
  <2>2. Live' = Live /\ (Live => Pending' = Pending)
    BY <1>1, <1>5, <2>1 DEF Live, Pending, objectVars
  <2>3. WireTypes' /\ OneSession' /\ Showing'
    BY <1>1, <2>1, <2>2 DEF WireTypes, OneSession, Showing, PageHearsItsSession, ShapeOfInputDisplay, objectVars, boundVars
  <2>4. Wishes' /\ Owed'
    BY <1>1, <2>1, <2>2 DEF Wishes, Owed, objectVars
  <2> QED BY <1>3, <2>3, <2>4
<1> QED BY <1>4, <1>5

LEMMA ConversionFailsKeeps == ASSUME WireInv, NEW c \in converting, ConversionFails(c) PROVE WireInv'
<1> USE DEF WireInv
<1>1. /\ converting' = converting \ {c} /\ unanswered' = unanswered \ {c.asks}
      /\ overtaken' = (overtaken \/ objects[c.of].live)
      /\ UNCHANGED <<blobs, made, current, objects, link, fromDevice, painted, shape, wrong, announced, strayed, top, frames>>
  BY DEF ConversionFails, objectVars, shownVars, boundVars
<1>2. c.of \in Objects /\ c.of # 0
  BY BoundsAreNumbers DEF Conversions, WireTypes, Objects
<1>3. Live' = Live /\ Pending' = Pending \ {c}
  BY <1>1 DEF Live, Pending
<1>4. objects[c.of].live \in BOOLEAN
  BY <1>2 DEF WireTypes, States
<1>5. WireTypes' /\ Conversions' /\ Showing'
  BY <1>1, <1>3, <1>4 DEF WireTypes, Conversions, Showing, PageHearsItsSession, ShapeOfInputDisplay
<1>6. OneSession'
  <2>1. objects[c.of].live => Live
    BY <1>2 DEF OneSession, Live
  <2> QED BY <1>1, <1>3, <2>1 DEF OneSession
<1>7. Owed'
  <2>1. \A e \in Pending \ {c} : e.asks = c.asks => e.asks = Missing
    BY AsksDiffer DEF Pending, WireTypes
  <2>2. Live => unanswered \ {c.asks} = {e.asks : e \in Pending \ {c}} \ {Missing}
    <3> SUFFICES ASSUME Live PROVE unanswered \ {c.asks} = {e.asks : e \in Pending \ {c}} \ {Missing}
      OBVIOUS
    <3>1. unanswered = {e.asks : e \in Pending} \ {Missing}
      BY DEF Owed
    <3> QED BY <2>1, <3>1
  <2> QED BY <1>1, <1>3, <2>2 DEF Owed
<1>8. Wishes'
  <2>1. ~overtaken' /\ Live => c.of # current /\ ~overtaken
    BY <1>1 DEF Live
  <2>2. ~overtaken' /\ Live => Pending' = Pending
    BY <1>3, <2>1 DEF Pending
  <2> QED BY <1>1, <1>3, <2>1, <2>2 DEF Wishes
<1> QED BY <1>5, <1>6, <1>7, <1>8

-----------------------------------------------------------------------------
LEMMA WireStep == ASSUME WireInv, [WireNext]_wireVars PROVE WireInv'
<1>1. ASSUME NEW l \in Labels, OwnChannelChanges(l) PROVE WireInv'
  BY <1>1, ChannelKeeps
<1>2. ASSUME NEW c \in converting, Converted(c) \/ ConversionFails(c) PROVE WireInv'
  BY <1>2, ConvertedKeeps, ConversionFailsKeeps
<1>3. ASSUME NEW d \in Displays, DisplayAnnounced(d) PROVE WireInv'
  BY <1>3, AnnouncedKeeps
<1> QED BY <1>1, <1>2, <1>3, ObjectStartsKeeps, ObjectReadyKeeps, LeavesKeep, DeviceChannelKeeps, FrameComesKeeps,
        UserSendsKeep, WireStutters DEF WireNext

LEMMA WireTold == WireInv => WireIsOwn
<1> SUFFICES ASSUME WireInv PROVE WireIsOwn
  OBVIOUS
<1> USE DEF WireInv
<1>1. PageHearsItsSession /\ ShapeOfInputDisplay
  BY DEF Showing
<1>2. InputsGoWhereWanted
  BY DEF InputsGoWhereWanted, Wishes, Settled, Pending
<1>3. EchoesAreAnswered
  <2>1. Live /\ (\A c \in converting : c.of # current) => Pending = {}
    BY DEF Pending
  <2> QED BY <2>1 DEF EchoesAreAnswered, Owed
<1>4. NumbersAreFresh
  BY DEF NumbersAreFresh, Owed
<1> QED BY <1>1, <1>2, <1>3, <1>4 DEF WireIsOwn

\* What a step of the channels finds: only the page's session is live and blank sessions are
\* blank, conversions belong to sessions there were, and what is asked is under conversion.
THEOREM WireInvariance == WireSpec => []WireInv
  BY WireInitKeeps, WireStep, PTL DEF WireSpec

\* The page shows the view of its own session and the shape of its input display, the input goes
\* to the display the device asked for last, its requests are answered once each and by the
\* session they were sent to, and message numbers are not used twice, however frames of two
\* sessions are converted late (browserRemoteSession.ts, browserRemote/channels.ts).
THEOREM WireStaysOwn == WireSpec => []WireIsOwn
  BY WireInvariance, WireTold, PTL

-----------------------------------------------------------------------------
(* The clipboards.  What the page holds of them is consistent (PageInv), and *)
(* a read in progress knows only blocks and counts of the text it asked for  *)
(* (Answered): a key is used again only when nothing with it is on the way.  *)

ShownStates == [reading : BOOLEAN, text : Texts \union {None}, fallback : Texts \union {None},
                status : {"none", "writing", "written", "failed", "copied"}]

\* What the page holds has its shape.
PageTypes ==
  /\ local \in Texts /\ remote \in Texts /\ enabled \in BOOLEAN
  /\ read \in {None, "resume", "user"}
  /\ writes \in Seq(Texts) /\ accepted \in Texts \union {None}
  /\ copying \in [text : Texts, own : BOOLEAN] \union {None}
  /\ shown \in ShownStates

\* The text that is to be written last is the one that was taken last; a page whose
\* synchronisation is off offers none to copy.
LastIsNewest == writes # <<>> => accepted = writes[Len(writes)]
OffOffersNothing == ~enabled => shown.fallback = None

PageInv ==
  /\ PageTypes /\ LastIsNewest /\ OffOffersNothing
  /\ NewestRemoteTextShown /\ ReadingEnds /\ OffWritesNothing

TextMessages == [kind : {"confirm"}, key : Keys, ok : BOOLEAN, count : Nat] \union [kind : {"changed"}, text : Texts]
FileBlocks == [key : Keys, text : Texts, id : Nat \ {0}, full : BOOLEAN, valid : BOOLEAN]
PendingReads == [key : Keys, got : SUBSET [id : Nat, text : Texts], expected : Nat \union {None},
                 settle : BOOLEAN, asked : Texts]

\* A block of a text, and all of them that there are.
PartOf(b, text) == b.text = text /\ b.id \in 1 .. Size[text]

SoundRead(p) ==
  p \in PendingReads /\ p.expected \in {None, Size[p.asked]} /\ \A b \in p.got : PartOf(b, p.asked)

\* What is on the way with the key of a read answers it with the text that was asked for.
TextsAnswer(p) ==
  \A i \in DOMAIN toText : toText[i].kind = "confirm" /\ toText[i].key = p.key /\ toText[i].ok =>
    toText[i].count = Size[p.asked]
FilesAnswer(p) == \A i \in DOMAIN toFile : toFile[i].key = p.key => PartOf(toFile[i], p.asked)

Answered ==
  /\ toText \in Seq(TextMessages) /\ toFile \in Seq(FileBlocks)
  /\ pending \in PendingReads \union {None}
  /\ pending # None => SoundRead(pending) /\ TextsAnswer(pending) /\ FilesAnswer(pending)

ClipInv == PageInv /\ Answered /\ CountedReadIsWhole
LEMMA ClipInitKeeps == Init => ClipInv
<1> SUFFICES ASSUME Init PROVE ClipInv
  OBVIOUS
<1>1. PageTypes
  BY TextAssumption DEF Init, PageTypes, ShownStates, FreshShown, Whole
<1>2. LastIsNewest /\ OffOffersNothing /\ NewestRemoteTextShown /\ ReadingEnds /\ OffWritesNothing
  BY DEF Init, FreshShown, LastIsNewest, OffOffersNothing, NewestRemoteTextShown, ReadingEnds, OffWritesNothing
<1>3. Answered /\ CountedReadIsWhole
  BY DEF Init, Answered, CountedReadIsWhole
<1> QED BY <1>1, <1>2, <1>3 DEF ClipInv, PageInv

-----------------------------------------------------------------------------
(* The page.                                                                 *)

\* What a step of the page is about.
pageFacts == <<local, remote, enabled, read, writes, accepted, copying, shown>>

LEMMA PageUntouched == ASSUME PageInv, UNCHANGED pageFacts PROVE PageInv'
  BY DEF PageInv, PageTypes, LastIsNewest, OffOffersNothing, NewestRemoteTextShown, ReadingEnds, OffWritesNothing, pageFacts

\* A step that starts or ends a read says so, and takes a local text at most.
LEMMA ReadsKeep ==
  ASSUME PageInv, UNCHANGED <<enabled, writes, accepted, copying>>, local' \in Texts, remote' \in Texts,
         read' \in {None, "resume", "user"},
         NEW text \in Texts \union {None},
         shown' = [shown EXCEPT !.reading = (read' # None), !.text = text]
  PROVE  PageInv'
<1> USE DEF PageInv
<1>1. /\ shown'.reading = (read' # None) /\ shown'.fallback = shown.fallback /\ shown'.status = shown.status
      /\ shown' \in ShownStates
  BY DEF PageTypes, ShownStates
<1>2. PageTypes'
  BY <1>1 DEF PageTypes
<1>3. LastIsNewest' /\ OffOffersNothing' /\ OffWritesNothing'
  BY <1>1 DEF LastIsNewest, OffOffersNothing, OffWritesNothing
<1>4. NewestRemoteTextShown' /\ ReadingEnds'
  BY <1>1 DEF NewestRemoteTextShown, ReadingEnds
<1> QED BY <1>2, <1>3, <1>4

\* A page that starts anew shows no remote text.
StartsAs(n, text, on) == n = [FreshShown EXCEPT !.text = text, !.reading = on]

LEMMA FreshFields ==
  ASSUME NEW on \in BOOLEAN, NEW text \in Texts \union {None}, NEW s, StartsAs(s, text, on)
  PROVE  s.reading = on /\ s.fallback = None /\ s.status = "none" /\ s \in ShownStates
  BY DEF StartsAs, FreshShown, ShownStates

LEMMA FreshKeeps ==
  ASSUME PageInv, UNCHANGED <<local, remote>>, enabled' \in BOOLEAN, writes' = <<>>, accepted' = None, copying' = None,
         read' \in {None, "resume", "user"},
         shown' \in ShownStates, shown'.reading = (read' # None), shown'.fallback = None, shown'.status = "none"
  PROVE  PageInv'
<1> USE DEF PageInv
<1>1. PageTypes'
  BY DEF PageTypes
<1>2. LastIsNewest' /\ OffOffersNothing' /\ OffWritesNothing'
  BY DEF LastIsNewest, OffOffersNothing, OffWritesNothing
<1>3. NewestRemoteTextShown' /\ ReadingEnds'
  BY DEF NewestRemoteTextShown, ReadingEnds
<1> QED BY <1>1, <1>2, <1>3

LEMMA SentIsText ==
  ASSUME PageInv, NEW text \in Texts, Sent(text)
  PROVE  remote' \in Texts
  BY DEF PageInv, PageTypes, Sent, Unsent

LEMMA PageReadsKeep ==
  ASSUME PageInv, ReadServed \/ ReadRefused \/ StaleReadEnds \/ Resume \/ PressRead \/ PressSend
  PROVE  PageInv'
<1> USE DEF written, net, session, page, reads
<1>0. shown.text \in Texts \union {None} /\ local \in Texts /\ remote \in Texts
      /\ shown = [shown EXCEPT !.reading = (read # None), !.text = shown.text]
      /\ read \in {None, "resume", "user"}
  BY DEF PageInv, PageTypes, ReadingEnds, ShownStates
<1>1. CASE ReadServed
  <2>1. /\ read' = None /\ shown' = [shown EXCEPT !.reading = FALSE, !.text = local]
        /\ UNCHANGED <<enabled, local, writes, accepted, copying>>
    BY <1>1 DEF ReadServed
  <2>2. remote' \in Texts
    BY <1>0, <1>1, SentIsText DEF ReadServed, Unsent
  <2>3. shown' = [shown EXCEPT !.reading = (read' # None), !.text = local]
    BY <2>1
  <2> QED BY <1>0, <2>1, <2>2, <2>3, ReadsKeep
<1>2. CASE ReadRefused
  <2>1. /\ read' = None /\ shown' = [shown EXCEPT !.reading = FALSE]
        /\ UNCHANGED <<enabled, local, remote, writes, accepted, copying>>
    BY <1>2 DEF ReadRefused
  <2>2. shown' = [shown EXCEPT !.reading = (read' # None), !.text = shown.text]
    BY <2>1 DEF PageInv, PageTypes, ShownStates
  <2> QED BY <1>0, <2>1, <2>2, ReadsKeep
<1>3. CASE StaleReadEnds
  BY <1>3, PageUntouched DEF StaleReadEnds, pageFacts
<1>4. CASE Resume \/ PressRead
  <2>1. PICK source \in {"resume", "user"} : StartRead(source)
    BY <1>4 DEF Resume, PressRead
  <2>2. UNCHANGED <<enabled, local, remote, writes, accepted, copying>>
    BY <1>4 DEF Resume, PressRead
  <2>3. CASE read = None
    <3>1. /\ read' = source /\ shown' = [shown EXCEPT !.reading = TRUE]
      BY <2>1, <2>3 DEF StartRead
    <3>2. read' # None
      BY <3>1, NoneAssumption
    <3>3. shown' = [shown EXCEPT !.reading = (read' # None), !.text = shown.text]
      BY <3>1, <3>2 DEF PageInv, PageTypes, ShownStates
    <3> QED BY <1>0, <2>2, <3>1, <3>3, ReadsKeep
  <2>4. CASE read # None
    BY <2>1, <2>2, <2>4, PageUntouched DEF StartRead, pageFacts
  <2> QED BY <2>3, <2>4
<1>5. CASE PressSend
  <2>1. /\ shown.text \in Texts /\ Sent(shown.text)
        /\ UNCHANGED <<local, page, reads, written, shown>>
    BY <1>0, <1>5 DEF PressSend
  <2>2. remote' \in Texts
    BY <2>1, SentIsText
  <2>3. shown' = [shown EXCEPT !.reading = (read' # None), !.text = shown.text]
    BY <1>0, <2>1
  <2> QED BY <1>0, <2>1, <2>2, <2>3, ReadsKeep
<1> QED BY <1>1, <1>2, <1>3, <1>4, <1>5

LEMMA TailIs ==
  ASSUME NEW T, NEW s \in Seq(T), s # <<>>
  PROVE  /\ Len(s) \in Nat \ {0} /\ Head(s) = s[1] /\ s[1] \in T /\ Tail(s) \in Seq(T)
         /\ Len(Tail(s)) = Len(s) - 1 /\ \A i \in 1 .. Len(s) - 1 : Tail(s)[i] = s[i + 1]
  OBVIOUS

OffersAs(n, s, fallback, status) == n = [s EXCEPT !.fallback = fallback, !.status = status]

\* What is shown of the remote text changes; what is shown of the local one stays.
LEMMA OfferChanges ==
  ASSUME NEW s \in ShownStates, NEW fallback \in Texts \union {None},
         NEW status \in {"none", "writing", "written", "failed", "copied"},
         NEW n, OffersAs(n, s, fallback, status)
  PROVE  n \in ShownStates /\ n.reading = s.reading /\ n.fallback = fallback /\ n.status = status
  BY DEF ShownStates, OffersAs

LEMMA OfferReplaces ==
  ASSUME NEW s \in ShownStates, NEW n, n = [s EXCEPT !.reading = FALSE, !.fallback = None, !.status = "writing"]
  PROVE  n \in ShownStates /\ n.reading = FALSE /\ n.fallback = None /\ n.status = "writing"
  BY DEF ShownStates

LEMMA StatusChanges ==
  ASSUME NEW s \in ShownStates, NEW n, n = [s EXCEPT !.status = "failed"]
  PROVE  n \in ShownStates /\ n.reading = s.reading /\ n.fallback = s.fallback /\ n.status = "failed"
  BY DEF ShownStates

\* A remote text that is taken ends the local read, is written last and waits for that.
LEMMA TakenKeeps ==
  ASSUME PageInv, NEW text \in Texts, ApplyNotification(text), UNCHANGED <<local, remote, page>>
  PROVE  PageInv'
<1> USE DEF page
<1>1. CASE Ignored
  BY <1>1, PageUntouched DEF Ignored, reads, written, pageFacts
<1>2. CASE ~Ignored
  <2>0. shown \in ShownStates
    BY DEF PageInv, PageTypes
  <2>1. /\ enabled /\ read' = None /\ writes' = Append(writes, text) /\ accepted' = text
        /\ copying' = IF copying = None THEN None ELSE [copying EXCEPT !.own = FALSE]
        /\ shown' = [shown EXCEPT !.reading = FALSE, !.fallback = None, !.status = "writing"]
    BY <1>2 DEF ApplyNotification, HandleRemote, SupersedeRead
  <2>2. shown' \in ShownStates /\ shown'.reading = FALSE /\ shown'.fallback = None /\ shown'.status = "writing"
    BY <2>0, <2>1, OfferReplaces
  <2>3. copying' \in [text : Texts, own : BOOLEAN] \union {None}
    BY <2>1 DEF PageInv, PageTypes
  <2>4. writes' \in Seq(Texts) /\ writes' # <<>> /\ writes'[Len(writes')] = text
    BY <2>1 DEF PageInv, PageTypes
  <2>5. PageTypes'
    BY <2>1, <2>2, <2>3, <2>4 DEF PageInv, PageTypes
  <2>6. LastIsNewest' /\ OffOffersNothing' /\ OffWritesNothing'
    BY <2>1, <2>2, <2>4 DEF LastIsNewest, OffOffersNothing, OffWritesNothing
  <2>7. NewestRemoteTextShown' /\ ReadingEnds'
    BY <2>1, <2>2 DEF NewestRemoteTextShown, ReadingEnds
  <2> QED BY <2>5, <2>6, <2>7 DEF PageInv
<1> QED BY <1>1, <1>2

LEMMA WriteKeeps == ASSUME PageInv, NEW ok \in BOOLEAN, WriteEnds(ok) PROVE PageInv'
<1> USE DEF page, reads
<1>1. /\ writes \in Seq(Texts) /\ writes # <<>> /\ writes' = Tail(writes) /\ Head(writes) \in Texts
      /\ enabled /\ accepted = writes[Len(writes)]
      /\ UNCHANGED <<remote, enabled, read, accepted, copying>> /\ local' \in Texts
  BY DEF WriteEnds, PageInv, PageTypes, LastIsNewest, OffWritesNothing
<1>2. /\ Len(writes) \in Nat \ {0} /\ Head(writes) = writes[1] /\ writes' \in Seq(Texts)
      /\ Len(writes') = Len(writes) - 1
      /\ \A i \in 1 .. Len(writes) - 1 : writes'[i] = writes[i + 1]
  BY <1>1, TailIs
<1>3. accepted \in Texts /\ accepted # None
  BY <1>1, NoneAssumption
<1>4. CASE Len(writes) > 1
  <2>1. shown' = shown /\ writes' # <<>> /\ accepted' = writes'[Len(writes')]
    <3>1. shown' = shown
      BY <1>4 DEF WriteEnds, WriteReports
    <3>2. Len(writes') \in 1 .. Len(writes) - 1 /\ Len(writes') + 1 = Len(writes)
      BY <1>2, <1>4
    <3>3. writes'[Len(writes')] = writes[Len(writes)]
      BY <1>2, <3>2
    <3>4. writes' # <<>>
      BY <3>2
    <3> QED BY <1>1, <3>1, <3>3, <3>4
  <2>2. PageTypes'
    BY <1>1, <1>2, <2>1 DEF PageInv, PageTypes
  <2>3. shown.status # "written" /\ shown.fallback = None
    BY <1>1 DEF PageInv, NewestRemoteTextShown
  <2>4. LastIsNewest' /\ OffOffersNothing' /\ OffWritesNothing' /\ NewestRemoteTextShown' /\ ReadingEnds'
    BY <1>1, <2>1, <2>3 DEF PageInv, LastIsNewest, OffOffersNothing, OffWritesNothing, NewestRemoteTextShown, ReadingEnds
  <2> QED BY <2>2, <2>4 DEF PageInv
<1>5. CASE ~(Len(writes) > 1)
  <2>1. Len(writes) = 1 /\ writes' = <<>> /\ Head(writes) = accepted
    <3>1. Len(writes) = 1
      BY <1>2, <1>5
    <3>2. Len(writes') = 0
      BY <1>2, <3>1
    <3> QED BY <1>1, <1>2, <3>1, <3>2
  <2>2. PICK fallback \in {None, accepted}, status \in {"written", "failed"} :
          OffersAs(shown', shown, fallback, status)
    BY <1>5, <2>1 DEF WriteEnds, WriteReports, OffersAs
  <2>3. /\ shown' \in ShownStates /\ shown'.reading = shown.reading
        /\ shown'.fallback \in {None, accepted}
    <3>1. shown \in ShownStates /\ fallback \in Texts \union {None}
          /\ status \in {"none", "writing", "written", "failed", "copied"}
      BY <1>3 DEF PageInv, PageTypes
    <3> QED BY <2>2, <3>1, OfferChanges
  <2>4. PageTypes'
    BY <1>1, <1>2, <2>3 DEF PageInv, PageTypes
  <2>5. LastIsNewest' /\ OffOffersNothing' /\ OffWritesNothing' /\ NewestRemoteTextShown' /\ ReadingEnds'
    BY <1>1, <1>3, <2>1, <2>3 DEF PageInv, LastIsNewest, OffOffersNothing, OffWritesNothing, NewestRemoteTextShown, ReadingEnds
  <2> QED BY <2>4, <2>5 DEF PageInv
<1> QED BY <1>4, <1>5

LEMMA StaleWriteKeeps ==
  ASSUME PageInv, \E text \in Texts, ok \in BOOLEAN : StaleWriteEnds(text, ok)
  PROVE  PageInv'
<1>1. local' \in Texts /\ UNCHANGED <<remote, enabled, read, writes, accepted, copying, shown>>
  BY DEF StaleWriteEnds, PageInv, PageTypes, page, reads
<1> QED BY <1>1 DEF PageInv, PageTypes, LastIsNewest, OffOffersNothing, NewestRemoteTextShown, ReadingEnds, OffWritesNothing

LEMMA CopyKeeps ==
  ASSUME PageInv, PressCopy \/ \E ok \in BOOLEAN : CopyEnds(ok)
  PROVE  PageInv'
<1> USE DEF page, reads
<1>1. CASE PressCopy
  <2>1. /\ shown.fallback # None /\ shown.fallback \in Texts /\ copying' = [text |-> shown.fallback, own |-> TRUE]
        /\ UNCHANGED <<local, remote, enabled, read, writes, accepted, shown>>
    BY <1>1 DEF PressCopy, PageInv, PageTypes, ShownStates
  <2>2. enabled
    BY <2>1 DEF PageInv, OffOffersNothing
  <2>3. PageTypes'
    BY <2>1 DEF PageInv, PageTypes
  <2> QED BY <2>1, <2>2, <2>3 DEF PageInv, LastIsNewest, OffOffersNothing, NewestRemoteTextShown, ReadingEnds, OffWritesNothing
<1>2. ASSUME NEW ok \in BOOLEAN, CopyEnds(ok) PROVE PageInv'
  <2>1. /\ copying \in [text : Texts, own : BOOLEAN] /\ copying' = None
        /\ UNCHANGED <<remote, enabled, read, writes, accepted>>
    BY <1>2 DEF CopyEnds, PageInv, PageTypes
  <2>2. local' \in Texts
    BY <1>2, <2>1 DEF CopyEnds, PageInv, PageTypes
  <2>3. \/ shown' = shown
        \/ OffersAs(shown', shown, None, "copied")
        \/ shown' = [shown EXCEPT !.status = "failed"]
    BY <1>2, <2>1 DEF CopyEnds, OffersAs
  <2>4. /\ shown' \in ShownStates /\ shown'.reading = shown.reading
        /\ shown'.fallback \in {None, shown.fallback}
        /\ shown'.status \in {shown.status, "copied", "failed"}
    <3>1. shown \in ShownStates
      BY DEF PageInv, PageTypes
    <3>2. CASE shown' = shown
      BY <3>1, <3>2 DEF ShownStates
    <3>3. CASE OffersAs(shown', shown, None, "copied")
      <4>1. /\ None \in Texts \union {None}
            /\ "copied" \in {"none", "writing", "written", "failed", "copied"}
        OBVIOUS
      <4> QED BY <3>1, <3>3, <4>1, OfferChanges
    <3>4. CASE shown' = [shown EXCEPT !.status = "failed"]
      BY <3>1, <3>4, StatusChanges
    <3> QED BY <2>3, <3>2, <3>3, <3>4
  <2>5. PageTypes'
    BY <2>1, <2>2, <2>4 DEF PageInv, PageTypes
  <2> QED BY <2>1, <2>4, <2>5 DEF PageInv, LastIsNewest, OffOffersNothing, NewestRemoteTextShown, ReadingEnds, OffWritesNothing
<1> QED BY <1>1, <1>2

\* A page that starts anew, or is switched on or off.
LEMMA ResetKeeps ==
  ASSUME PageInv, ResetPage, enabled' \in BOOLEAN, UNCHANGED <<local, remote>>
  PROVE  PageInv'
<1>1. /\ writes' = <<>> /\ accepted' = None /\ copying' = None /\ read' = None /\ shown' = FreshShown
  BY DEF ResetPage, NewRevision
<1>2. shown'.reading = FALSE /\ shown'.fallback = None /\ shown'.status = "none" /\ shown' \in ShownStates
  BY <1>1 DEF FreshShown, ShownStates
<1>3. shown'.reading = (read' # None) /\ read' \in {None, "resume", "user"}
  BY <1>1, <1>2
<1> QED BY <1>1, <1>2, <1>3, FreshKeeps

LEMMA ToggleKeeps == ASSUME PageInv, Toggle PROVE PageInv'
<1>1. /\ writes' = <<>> /\ accepted' = None /\ copying' = None /\ enabled' = ~enabled
      /\ UNCHANGED <<local, remote>>
      /\ read' = IF enabled THEN None ELSE "user"
      /\ shown' = [FreshShown EXCEPT !.text = IF enabled THEN None ELSE shown.text, !.reading = ~enabled]
  BY DEF Toggle, NewRevision
<1>2. PICK text \in Texts \union {None} : text = IF enabled THEN None ELSE shown.text
  BY DEF PageInv, PageTypes, ShownStates
<1>5. PICK on \in BOOLEAN : on = ~enabled
  BY DEF PageInv, PageTypes
<1>6. shown'.reading = on /\ shown'.fallback = None /\ shown'.status = "none" /\ shown' \in ShownStates
  <2>1. StartsAs(shown', text, on)
    BY <1>1, <1>2, <1>5 DEF StartsAs
  <2> QED BY <2>1, FreshFields
<1>3. CASE enabled
  <2>1. read' = None /\ shown'.reading = FALSE
    BY <1>1, <1>3, <1>5, <1>6
  <2>2. shown'.reading = (read' # None) /\ enabled' \in BOOLEAN
    BY <1>1, <1>3, <2>1
  <2> QED BY <1>1, <1>6, <2>1, <2>2, FreshKeeps
<1>4. CASE ~enabled
  <2>1. read' = "user" /\ read' # None
    BY <1>1, <1>4, NoneAssumption
  <2>2. shown'.reading = TRUE
    BY <1>4, <1>5, <1>6
  <2>3. shown'.reading = (read' # None) /\ enabled' \in BOOLEAN
    BY <1>1, <2>1, <2>2
  <2> QED BY <1>1, <1>6, <2>1, <2>3, FreshKeeps
<1> QED BY <1>3, <1>4

LEMMA ChannelsKeep ==
  ASSUME PageInv, ChannelsOpen \/ ChannelsClose \/ SessionReset \/ ChannelsRendered
  PROVE  PageInv'
<1> USE DEF page, reads, written
<1>1. CASE ChannelsOpen \/ ChannelsClose
  BY <1>1, PageUntouched DEF ChannelsOpen, ChannelsClose, pageFacts
<1>2. CASE SessionReset
  <2>1. ResetPage /\ UNCHANGED <<local, remote, enabled>>
    BY <1>2 DEF SessionReset
  <2>2. enabled' \in BOOLEAN
    BY <2>1 DEF PageInv, PageTypes
  <2> QED BY <2>1, <2>2, ResetKeeps
<1>3. CASE ChannelsRendered
  <2>0. UNCHANGED <<local, remote, enabled>> /\ enabled' \in BOOLEAN
    BY <1>3 DEF ChannelsRendered, PageInv, PageTypes
  <2>1. CASE ResetPage
    BY <2>0, <2>1, ResetKeeps
  <2>2. CASE UNCHANGED <<reads, shown, written>>
    BY <2>0, <2>2, PageUntouched DEF pageFacts
  <2>3. CASE ~UNCHANGED <<reads, shown, written>> /\ ~ResetPage
    <3>1. StartRead("resume") /\ UNCHANGED written
      BY <1>3, <2>3 DEF ChannelsRendered
    <3>2. read' = "resume" /\ shown' = [shown EXCEPT !.reading = TRUE]
      BY <2>3, <3>1 DEF StartRead
    <3>3. read' # None
      BY <3>2, NoneAssumption
    <3>4. shown' = [shown EXCEPT !.reading = (read' # None), !.text = shown.text] /\ shown.text \in Texts \union {None}
      BY <3>2, <3>3 DEF PageInv, PageTypes, ShownStates
    <3>5. local' \in Texts /\ remote' \in Texts
      BY <2>0 DEF PageInv, PageTypes
    <3> QED BY <2>0, <3>1, <3>2, <3>4, <3>5, ReadsKeep
  <2> QED BY <2>1, <2>2, <2>3
<1> QED BY <1>1, <1>2, <1>3

LEMMA CopiesKeep == ASSUME PageInv, UserCopies \/ RemoteCopies PROVE PageInv'
<1>1. local' \in Texts /\ remote' \in Texts /\ UNCHANGED <<enabled, read, writes, accepted, copying, shown>>
  BY DEF UserCopies, RemoteCopies, Whole, PageInv, PageTypes, page, reads, written
<1> QED BY <1>1 DEF PageInv, PageTypes, LastIsNewest, OffOffersNothing, NewestRemoteTextShown, ReadingEnds, OffWritesNothing

-----------------------------------------------------------------------------
(* The read of the remote clipboard.                                         *)

messageFacts == <<toText, toFile, pending, assembled>>

LEMMA MessagesUntouched ==
  ASSUME Answered, CountedReadIsWhole, UNCHANGED messageFacts
  PROVE  Answered' /\ CountedReadIsWhole'
  BY DEF messageFacts, Answered, SoundRead, TextsAnswer, FilesAnswer, PartOf, PendingReads, TextMessages, FileBlocks, CountedReadIsWhole

\* Messages are lost with the channels, and a read is withdrawn.
LEMMA DropKeeps ==
  ASSUME Answered, CountedReadIsWhole, pending' \in {pending, None},
         toText' \in {toText, <<>>}, toFile' \in {toFile, <<>>}, UNCHANGED assembled
  PROVE  Answered' /\ CountedReadIsWhole'
<1>1. CountedReadIsWhole'
  BY DEF CountedReadIsWhole
<1>2. toText' \in Seq(TextMessages) /\ toFile' \in Seq(FileBlocks) /\ pending' \in PendingReads \union {None}
  <2>1. toText \in Seq(TextMessages) /\ toFile \in Seq(FileBlocks) /\ pending \in PendingReads \union {None}
    BY DEF Answered
  <2>2. <<>> \in Seq(TextMessages) /\ <<>> \in Seq(FileBlocks)
    OBVIOUS
  <2> HIDE DEF TextMessages, FileBlocks, PendingReads
  <2> QED BY <2>1, <2>2
<1>3. ASSUME pending' # None PROVE SoundRead(pending)' /\ TextsAnswer(pending)' /\ FilesAnswer(pending)'
  <2>1. pending' = pending /\ SoundRead(pending) /\ TextsAnswer(pending) /\ FilesAnswer(pending)
    BY <1>3 DEF Answered
  <2>2. SoundRead(pending)'
    BY <2>1 DEF SoundRead, PartOf, PendingReads
  <2>3. TextsAnswer(pending)'
    BY <2>1 DEF TextsAnswer
  <2>4. FilesAnswer(pending)'
    BY <2>1 DEF FilesAnswer, PartOf
  <2> QED BY <2>2, <2>3, <2>4
<1> QED BY <1>1, <1>2, <1>3 DEF Answered

LEMMA TextOfIsText == ASSUME NEW got, NEW n PROVE TextOf(got, n) \in Texts
  BY TextAssumption DEF TextOf

\* All blocks of a text, and no other, make the text.
LEMMA WholeText ==
  ASSUME NEW p, SoundRead(p), Cardinality(p.got) = Size[p.asked]
  PROVE  TextOf(p.got, Size[p.asked]) = p.asked
<1> DEFINE n == Size[p.asked]
           whole == {t \in Texts : Size[t] = n /\ Cardinality(p.got) = n /\ \A b \in p.got : b.text = t}
<1>1. p.asked \in Texts /\ \A b \in p.got : b.text = p.asked
  BY DEF SoundRead, PendingReads, PartOf
<1>2. n \in Nat
  BY <1>1, TextAssumption
<1>3. p.asked \in whole
  BY <1>1
<1>4. ASSUME NEW t \in whole PROVE t = p.asked
  <2>1. CASE n = 0
    BY <1>1, <1>4, <2>1, TextAssumption
  <2>2. CASE n # 0
    <3>1. p.got # {}
      BY <1>4, <2>2, FS_EmptySet
    <3> QED BY <1>1, <1>4, <3>1
  <2> QED BY <2>1, <2>2
<1>5. whole = {p.asked}
  BY <1>3, <1>4
<1>6. TextOf(p.got, n) = IF whole = {} THEN Cut ELSE CHOOSE t \in whole : TRUE
  BY DEF TextOf
<1> HIDE DEF whole, n
<1>7. TextOf(p.got, n) = p.asked
  BY <1>5, <1>6
<1> QED BY <1>7 DEF n

\* A read that finishes hands over a text, the one that was asked for when it was counted.
LEMMA Finishes ==
  ASSUME PageInv, NEW p, SoundRead(p), NEW n, FinishRead(p, n), UNCHANGED <<local, remote, page>>,
         p.expected # None => n = Size[p.asked] /\ Cardinality(p.got) = n
  PROVE  PageInv' /\ CountedReadIsWhole' /\ pending' = None
<1> DEFINE text == TextOf(p.got, n)
<1>1. text \in Texts
  BY TextOfIsText
<1>2. p.expected # None => text = p.asked
  BY WholeText
<1>3. pending' = None /\ assembled' = [text |-> text, asked |-> p.asked, counted |-> p.expected # None]
  BY DEF FinishRead
<1>4. ApplyNotification(text) \/ Ignored
  BY DEF FinishRead
<1> HIDE DEF text
<1>5. PageInv'
  <2>1. CASE ApplyNotification(text)
    BY <1>1, <2>1, TakenKeeps
  <2>2. CASE Ignored
    BY <2>2, PageUntouched DEF Ignored, reads, written, page, pageFacts
  <2> QED BY <1>4, <2>1, <2>2
<1>6. CountedReadIsWhole'
  <2>1. PICK counted \in BOOLEAN : counted = (p.expected # None)
    OBVIOUS
  <2>2. assembled' = [text |-> text, asked |-> p.asked, counted |-> counted]
    BY <1>3, <2>1
  <2>3. assembled'.text = text /\ assembled'.asked = p.asked /\ assembled'.counted = counted
    BY <2>2
  <2> QED BY <1>2, <2>1, <2>3 DEF CountedReadIsWhole
<1> QED BY <1>3, <1>5, <1>6

LEMMA WaitsKeeps ==
  ASSUME PageInv, CountedReadIsWhole, NEW p, Waits(p), UNCHANGED <<local, remote, page>>
  PROVE  PageInv' /\ CountedReadIsWhole' /\ pending' = p
  BY PageUntouched DEF Waits, Ignored, reads, written, page, pageFacts, CountedReadIsWhole

LEMMA TryFinishKeeps ==
  ASSUME PageInv, CountedReadIsWhole, NEW p, SoundRead(p), NEW known \in BOOLEAN, TryFinish(p, known),
         UNCHANGED <<local, remote, page>>
  PROVE  PageInv' /\ CountedReadIsWhole' /\ pending' \in {None, p}
<1>1. CASE Complete(p, Expected(p)) /\ FinishRead(p, Expected(p))
  <2>1. p.expected # None => Expected(p) = Size[p.asked] /\ Cardinality(p.got) = Expected(p)
    BY <1>1 DEF Expected, Complete, SoundRead
  <2> QED BY <1>1, <2>1, Finishes
<1>2. CASE Waits(p)
  BY <1>2, WaitsKeeps
<1> QED BY <1>1, <1>2 DEF TryFinish

\* The read ends, or goes on as the read of the same text.
Same(p) == p.key = pending.key /\ p.asked = pending.asked

GoesOn == pending' = None \/ (SoundRead(pending') /\ pending # None /\ Same(pending'))

\* What is left on the way after one message is taken, and what is pending then.
LEMMA TextTaken ==
  ASSUME Answered, toText # <<>>, toText' = Tail(toText), UNCHANGED toFile,
         GoesOn
  PROVE  Answered'
<1> DEFINE left == Tail(toText)
<1>1. toText \in Seq(TextMessages) /\ toFile \in Seq(FileBlocks)
  BY DEF Answered
<1>2. /\ Len(toText) \in Nat \ {0} /\ left \in Seq(TextMessages) /\ DOMAIN left = 1 .. Len(toText) - 1
      /\ \A i \in DOMAIN left : left[i] = toText[i + 1] /\ i + 1 \in DOMAIN toText
  <2> HIDE DEF TextMessages
  <2> QED BY <1>1, TailIs
<1> HIDE DEF left
<1>3. toText' = left
  BY DEF left
<1>0. pending' = None \/ (SoundRead(pending') /\ pending # None /\ Same(pending'))
  BY DEF GoesOn
<1>4. ASSUME pending' # None PROVE SoundRead(pending)' /\ TextsAnswer(pending)' /\ FilesAnswer(pending)'
  <2>1. pending'.key = pending.key /\ pending'.asked = pending.asked /\ SoundRead(pending')
        /\ TextsAnswer(pending) /\ FilesAnswer(pending)
    BY <1>0, <1>4 DEF Answered, Same
  <2>2. SoundRead(pending)'
    BY <2>1 DEF SoundRead, PartOf, PendingReads
  <2>3. TextsAnswer(pending)'
    BY <1>2, <1>3, <2>1 DEF TextsAnswer
  <2>4. FilesAnswer(pending)'
    BY <2>1 DEF FilesAnswer, PartOf
  <2> QED BY <2>2, <2>3, <2>4
<1>5. pending' \in PendingReads \union {None}
  BY <1>0 DEF SoundRead
<1> QED BY <1>1, <1>2, <1>3, <1>4, <1>5 DEF Answered

LEMMA FileTaken ==
  ASSUME Answered, toFile # <<>>, toFile' = Tail(toFile), UNCHANGED toText,
         GoesOn
  PROVE  Answered'
<1> DEFINE left == Tail(toFile)
<1>1. toText \in Seq(TextMessages) /\ toFile \in Seq(FileBlocks)
  BY DEF Answered
<1>2. /\ Len(toFile) \in Nat \ {0} /\ left \in Seq(FileBlocks) /\ DOMAIN left = 1 .. Len(toFile) - 1
      /\ \A i \in DOMAIN left : left[i] = toFile[i + 1] /\ i + 1 \in DOMAIN toFile
  <2> HIDE DEF FileBlocks
  <2> QED BY <1>1, TailIs
<1> HIDE DEF left
<1>3. toFile' = left
  BY DEF left
<1>0. pending' = None \/ (SoundRead(pending') /\ pending # None /\ Same(pending'))
  BY DEF GoesOn
<1>4. ASSUME pending' # None PROVE SoundRead(pending)' /\ TextsAnswer(pending)' /\ FilesAnswer(pending)'
  <2>1. pending'.key = pending.key /\ pending'.asked = pending.asked /\ SoundRead(pending')
        /\ TextsAnswer(pending) /\ FilesAnswer(pending)
    BY <1>0, <1>4 DEF Answered, Same
  <2>2. SoundRead(pending)'
    BY <2>1 DEF SoundRead, PartOf, PendingReads
  <2>3. TextsAnswer(pending)'
    BY <2>1 DEF TextsAnswer
  <2>4. FilesAnswer(pending)'
    BY <1>2, <1>3, <2>1 DEF FilesAnswer, PartOf
  <2> QED BY <2>2, <2>3, <2>4
<1>5. pending' \in PendingReads \union {None}
  BY <1>0 DEF SoundRead
<1> QED BY <1>1, <1>2, <1>3, <1>4, <1>5 DEF Answered

LEMMA ConfirmApplies ==
  ASSUME ClipInv, NEW m \in TextMessages, m.kind = "confirm", ApplyConfirm(m), UNCHANGED <<local, remote, page>>,
         pending # None /\ pending.key = m.key /\ m.ok => m.count = Size[pending.asked]
  PROVE  PageInv' /\ CountedReadIsWhole' /\ GoesOn
<1>0. PageInv /\ CountedReadIsWhole /\ (pending # None => SoundRead(pending))
  BY DEF ClipInv, Answered
<1>1. CASE pending = None \/ pending.key # m.key
  <2>1. Waits(pending)
    BY <1>1 DEF ApplyConfirm
  <2>2. PageInv' /\ CountedReadIsWhole' /\ pending' = pending
    BY <1>0, <2>1, WaitsKeeps
  <2> QED BY <1>0, <2>2 DEF GoesOn, Same
<1>2. CASE ~(pending = None \/ pending.key # m.key) /\ ~m.ok
  <2>1. Waits(None)
    BY <1>2 DEF ApplyConfirm
  <2> QED BY <1>0, <2>1, WaitsKeeps DEF GoesOn
<1>3. CASE ~(pending = None \/ pending.key # m.key) /\ m.ok
  <2> DEFINE p == [pending EXCEPT !.expected = m.count]
  <2>1. SoundRead(pending) /\ m.count = Size[pending.asked] /\ m.count \in Nat
    BY <1>0, <1>3 DEF TextMessages
  <2>2. p.key = pending.key /\ p.asked = pending.asked /\ p.got = pending.got /\ p.expected = Size[p.asked]
        /\ p \in PendingReads
    BY <2>1 DEF SoundRead, PendingReads
  <2>3. SoundRead(p)
    BY <2>1, <2>2 DEF SoundRead
  <2>4. IF m.count = 0 THEN FinishRead(p, 0) ELSE TryFinish(p, TRUE)
    BY <1>3 DEF ApplyConfirm
  <2> HIDE DEF p
  <2>5. CASE m.count = 0 /\ FinishRead(p, 0)
    <3>1. Size[p.asked] = 0
      BY <2>1, <2>2, <2>5
    <3>2. p.got = {}
      BY <2>3, <3>1 DEF SoundRead, PartOf
    <3>3. Cardinality(p.got) = 0
      BY <3>2, FS_EmptySet
    <3>4. PageInv' /\ CountedReadIsWhole' /\ pending' = None
      BY <1>0, <2>3, <2>5, <3>1, <3>3, Finishes
    <3> QED BY <3>4 DEF GoesOn
  <2>6. CASE TryFinish(p, TRUE)
    <3>1. PageInv' /\ CountedReadIsWhole' /\ pending' \in {None, p}
      BY <1>0, <2>3, <2>6, TryFinishKeeps
    <3> QED BY <1>3, <2>2, <2>3, <3>1 DEF GoesOn, Same
  <2> QED BY <2>4, <2>5, <2>6
<1> QED BY <1>1, <1>2, <1>3

\* A block that arrives is kept with those of other numbers.
ReceivesAs(p, b) ==
  p = [pending EXCEPT !.got = {x \in pending.got : x.id # b.id} \union {[id |-> b.id, text |-> b.text]},
                      !.settle = b.full]

LEMMA ReceivesSound ==
  ASSUME pending # None, SoundRead(pending), NEW b \in FileBlocks, PartOf(b, pending.asked), NEW p, ReceivesAs(p, b)
  PROVE  SoundRead(p) /\ Same(p)
<1> DEFINE kept == {x \in pending.got : x.id # b.id}
           got == kept \union {[id |-> b.id, text |-> b.text]}
<1>1. got \in SUBSET [id : Nat, text : Texts] /\ b.full \in BOOLEAN
  BY DEF SoundRead, PendingReads, FileBlocks
<1>2. \A x \in got : PartOf(x, pending.asked)
  BY DEF SoundRead, PartOf
<1>3. p = [pending EXCEPT !.got = got, !.settle = b.full]
  BY DEF ReceivesAs
<1> HIDE DEF got
<1>4. /\ p.key = pending.key /\ p.asked = pending.asked /\ p.got = got /\ p.expected = pending.expected
      /\ p \in PendingReads
  BY <1>1, <1>3 DEF SoundRead, PendingReads
<1> QED BY <1>2, <1>4 DEF SoundRead, Same

LEMMA BlockReceives ==
  ASSUME ClipInv, NEW b \in FileBlocks, ReceiveBlock(b), UNCHANGED <<local, remote, page>>,
         pending # None /\ b.key = pending.key => PartOf(b, pending.asked)
  PROVE  PageInv' /\ CountedReadIsWhole' /\ GoesOn
<1>0. PageInv /\ CountedReadIsWhole /\ (pending # None => SoundRead(pending))
  BY DEF ClipInv, Answered
<1>1. CASE ~OfPending(b)
  <2>1. Waits(pending)
    BY <1>1 DEF ReceiveBlock
  <2>2. PageInv' /\ CountedReadIsWhole' /\ pending' = pending
    BY <1>0, <2>1, WaitsKeeps
  <2> QED BY <1>0, <2>2 DEF GoesOn, Same
<1>2. CASE OfPending(b) /\ ~b.valid
  <2>1. Waits(None)
    BY <1>2 DEF ReceiveBlock
  <2> QED BY <1>0, <2>1, WaitsKeeps DEF GoesOn
<1>3. CASE OfPending(b) /\ b.valid
  <2>1. pending # None /\ SoundRead(pending) /\ PartOf(b, pending.asked) /\ b.full \in BOOLEAN
    BY <1>0, <1>3 DEF OfPending, FileBlocks
  <2>2. PICK p : ReceivesAs(p, b) /\ TryFinish(p, b.full)
    BY <1>3 DEF ReceiveBlock, ReceivesAs
  <2>3. SoundRead(p) /\ Same(p)
    BY <2>1, <2>2, ReceivesSound
  <2>4. PageInv' /\ CountedReadIsWhole' /\ pending' \in {None, p}
    BY <1>0, <2>1, <2>2, <2>3, TryFinishKeeps
  <2> QED BY <2>1, <2>3, <2>4 DEF GoesOn
<1> QED BY <1>1, <1>2, <1>3

LEMMA AppendIs ==
  ASSUME NEW T, NEW s \in Seq(T), NEW x \in T, NEW n, n = Append(s, x)
  PROVE  n \in Seq(T) /\ \A i \in DOMAIN n : (i \in DOMAIN s /\ n[i] = s[i]) \/ n[i] = x
  OBVIOUS

LEMMA ConcatIs ==
  ASSUME NEW T, NEW s \in Seq(T), NEW t \in Seq(T), NEW n, n = s \o t
  PROVE  n \in Seq(T) /\ \A i \in DOMAIN n : (i \in DOMAIN s /\ n[i] = s[i]) \/ \E j \in DOMAIN t : n[i] = t[j]
<1>1. n \in Seq(T) /\ DOMAIN n = 1 .. Len(s) + Len(t) /\ Len(s) \in Nat /\ Len(t) \in Nat
  OBVIOUS
<1>2. ASSUME NEW i \in DOMAIN n, i > Len(s) PROVE \E j \in DOMAIN t : n[i] = t[j]
  <2>1. i - Len(s) \in DOMAIN t /\ n[i] = t[i - Len(s)]
    BY <1>1, <1>2
  <2> QED BY <2>1
<1>3. ASSUME NEW i \in DOMAIN n, ~(i > Len(s)) PROVE i \in DOMAIN s /\ n[i] = s[i]
  BY <1>1, <1>3
<1> QED BY <1>1, <1>2, <1>3

\* The blocks of an answer are parts of the text that was asked for.
LEMMA BlocksAnswer ==
  ASSUME NEW k \in Keys, NEW text \in Texts
  PROVE  /\ Blocks(k, text) \in Seq(FileBlocks)
         /\ \A j \in DOMAIN Blocks(k, text) : PartOf(Blocks(k, text)[j], text)
<1>1. Size[text] \in Nat
  BY TextAssumption
<1>2. ASSUME NEW i \in 1 .. Size[text] PROVE Block(k, text, i) \in FileBlocks /\ PartOf(Block(k, text, i), text)
  <2>1. PICK full \in BOOLEAN, valid \in BOOLEAN :
          Block(k, text, i) = [key |-> k, text |-> text, id |-> i, full |-> full, valid |-> valid]
    <3>1. PICK full \in BOOLEAN : full = (i < Size[text] \/ text \in EndsFull)
      OBVIOUS
    <3>2. PICK valid \in BOOLEAN : valid = (text \notin TooLong)
      OBVIOUS
    <3> QED BY <3>1, <3>2 DEF Block
  <2>2. i \in Nat \ {0}
    BY <1>1
  <2> QED BY <2>1, <2>2 DEF FileBlocks, PartOf
<1> QED BY <1>1, <1>2 DEF Blocks

LEMMA PollKeeps == ASSUME ClipInv, Poll PROVE ClipInv'
<1>1. remote \in Texts /\ Size[remote] \in Nat /\ Answered
  BY TextAssumption DEF ClipInv, PageInv, PageTypes
<1>2. PICK k \in Keys :
        /\ ~OnTheWay(k) /\ RemoteAnswers(k)
        /\ pending' = [key |-> k, got |-> {}, expected |-> None, settle |-> FALSE, asked |-> remote]
  BY DEF Poll, InUse
<1>3. toText \in Seq(TextMessages) /\ toFile \in Seq(FileBlocks)
  BY <1>1 DEF Answered
<1>4. pending' \in PendingReads /\ pending'.key = k /\ pending'.asked = remote /\ SoundRead(pending)'
  BY <1>1, <1>2 DEF PendingReads, SoundRead, PartOf
<1>5. toText' \in Seq(TextMessages) /\ TextsAnswer(pending)'
  <2>1. /\ Confirm(k, TRUE, Size[remote]) \in TextMessages /\ Confirm(k, TRUE, Size[remote]).count = Size[remote]
        /\ Confirm(k, FALSE, 0) \in TextMessages /\ ~Confirm(k, FALSE, 0).ok
    BY <1>1 DEF Confirm, TextMessages
  <2>2. PICK m \in TextMessages : (toText' = toText \/ toText' = Append(toText, m)) /\ (m.ok => m.count = Size[remote])
    BY <1>2, <2>1 DEF RemoteAnswers
  <2>3. toText' \in Seq(TextMessages) /\ \A i \in DOMAIN toText' : (i \in DOMAIN toText /\ toText'[i] = toText[i]) \/ toText'[i] = m
    <3> HIDE DEF TextMessages
    <3>1. CASE toText' = toText
      BY <1>3, <3>1
    <3>2. CASE toText' = Append(toText, m)
      BY <1>3, <3>2, AppendIs
    <3> QED BY <2>2, <3>1, <3>2
  <2> QED BY <1>2, <1>4, <2>2, <2>3 DEF TextsAnswer, OnTheWay
<1>6. toFile' \in Seq(FileBlocks) /\ FilesAnswer(pending)'
  <2> DEFINE blocks == Blocks(k, remote)
  <2>1. blocks \in Seq(FileBlocks) /\ \A j \in DOMAIN blocks : PartOf(blocks[j], remote)
    BY <1>1, BlocksAnswer
  <2>2. toFile' = toFile \/ toFile' = toFile \o blocks
    BY <1>2 DEF RemoteAnswers
  <2> HIDE DEF blocks
  <2>3. toFile' \in Seq(FileBlocks)
        /\ \A i \in DOMAIN toFile' : (i \in DOMAIN toFile /\ toFile'[i] = toFile[i]) \/ \E j \in DOMAIN blocks : toFile'[i] = blocks[j]
    <3> HIDE DEF FileBlocks
    <3>1. CASE toFile' = toFile
      BY <1>3, <3>1
    <3>2. CASE toFile' = toFile \o blocks
      BY <1>3, <2>1, <3>2, ConcatIs
    <3> QED BY <2>2, <3>1, <3>2
  <2>4. \A b : PartOf(b, remote) => PartOf(b, pending.asked)'
    BY <1>4 DEF PartOf
  <2>5. ASSUME NEW i \in DOMAIN toFile', toFile'[i].key = k PROVE PartOf(toFile'[i], remote)
    BY <1>2, <2>1, <2>3, <2>5 DEF OnTheWay
  <2> QED BY <1>4, <2>3, <2>5 DEF FilesAnswer
<1>7. Answered'
  BY <1>4, <1>5, <1>6 DEF Answered
<1>8. CountedReadIsWhole'
  BY DEF ClipInv, Poll, CountedReadIsWhole
<1>9. PageInv'
  BY PageUntouched DEF ClipInv, Poll, page, reads, written, pageFacts
<1> QED BY <1>7, <1>8, <1>9 DEF ClipInv

LEMMA RemoteCopiesKeeps == ASSUME ClipInv, RemoteCopies PROVE ClipInv'
<1>1. Answered /\ CountedReadIsWhole /\ PageInv'
  BY CopiesKeep DEF ClipInv
<1>2. remote' \in Texts /\ UNCHANGED <<toFile, pending, assembled>>
  BY DEF RemoteCopies, Whole, session
<1> DEFINE m == [kind |-> "changed", text |-> remote']
<1>3. m \in TextMessages /\ m.kind # "confirm"
  BY <1>2 DEF TextMessages
<1>4. toText' = toText \/ toText' = Append(toText, m)
  BY DEF RemoteCopies
<1> HIDE DEF m
<1>5. CASE toText' = toText
  BY <1>1, <1>2, <1>5, MessagesUntouched DEF messageFacts, ClipInv
<1>6. CASE toText' = Append(toText, m)
  <2>1. toText \in Seq(TextMessages)
    BY <1>1 DEF Answered
  <2>2. toText' \in Seq(TextMessages) /\ \A i \in DOMAIN toText' : (i \in DOMAIN toText /\ toText'[i] = toText[i]) \/ toText'[i] = m
    <3> HIDE DEF TextMessages
    <3> QED BY <1>3, <1>6, <2>1, AppendIs
  <2>3. ASSUME pending' # None PROVE SoundRead(pending)' /\ TextsAnswer(pending)' /\ FilesAnswer(pending)'
    <3>1. pending' = pending /\ SoundRead(pending) /\ TextsAnswer(pending) /\ FilesAnswer(pending)
      BY <1>1, <1>2, <2>3 DEF Answered
    <3>2. SoundRead(pending)'
      BY <3>1 DEF SoundRead, PartOf, PendingReads
    <3>3. TextsAnswer(pending)'
      BY <1>3, <2>2, <3>1 DEF TextsAnswer
    <3>4. FilesAnswer(pending)'
      BY <1>2, <3>1 DEF FilesAnswer, PartOf
    <3> QED BY <3>2, <3>3, <3>4
  <2>4. Answered'
    BY <1>1, <1>2, <2>2, <2>3 DEF Answered
  <2>5. CountedReadIsWhole'
    BY <1>1, <1>2 DEF CountedReadIsWhole
  <2> QED BY <1>1, <2>4, <2>5 DEF ClipInv
<1> QED BY <1>4, <1>5, <1>6

LEMMA TakesKeep == ASSUME ClipInv, TakeText \/ TakeFile PROVE ClipInv'
<1>1. Answered /\ PageInv /\ CountedReadIsWhole
  BY DEF ClipInv
<1>2. CASE TakeText
  <2>1. /\ toText # <<>> /\ toText' = Tail(toText) /\ UNCHANGED <<local, remote, page, toFile>>
    BY <1>2 DEF TakeText
  <2>2. PICK m \in TextMessages : m = Head(toText) /\ m = toText[1] /\ 1 \in DOMAIN toText
    <3>1. toText \in Seq(TextMessages)
      BY <1>1 DEF Answered
    <3> HIDE DEF TextMessages
    <3>2. Len(toText) \in Nat \ {0} /\ Head(toText) = toText[1] /\ toText[1] \in TextMessages
      BY <2>1, <3>1, TailIs
    <3> QED BY <3>1, <3>2
  <2>3. CASE m.kind = "confirm" /\ ApplyConfirm(m)
    <3>1. pending # None /\ pending.key = m.key /\ m.ok => m.count = Size[pending.asked]
      BY <1>1, <2>2, <2>3 DEF Answered, TextsAnswer
    <3>2. PageInv' /\ CountedReadIsWhole' /\ GoesOn
      BY <2>1, <2>3, <3>1, ConfirmApplies
    <3>3. Answered'
      BY <1>1, <2>1, <3>2, TextTaken
    <3> QED BY <3>2, <3>3 DEF ClipInv
  <2>4. CASE m.kind # "confirm" /\ ApplyNotification(m.text) /\ UNCHANGED <<pending, assembled>>
    <3>1. m.text \in Texts
      BY <2>4 DEF TextMessages
    <3>2. PageInv'
      BY <1>1, <2>1, <2>4, <3>1, TakenKeeps
    <3>3. GoesOn
      BY <1>1, <2>4 DEF GoesOn, Same, Answered
    <3>4. Answered'
      BY <1>1, <2>1, <3>3, TextTaken
    <3>5. CountedReadIsWhole'
      BY <1>1, <2>4 DEF CountedReadIsWhole
    <3> QED BY <3>2, <3>4, <3>5 DEF ClipInv
  <2> QED BY <1>2, <2>2, <2>3, <2>4 DEF TakeText
<1>3. CASE TakeFile
  <2>1. /\ toFile # <<>> /\ toFile' = Tail(toFile) /\ UNCHANGED <<local, remote, page, toText>>
        /\ ReceiveBlock(Head(toFile))
    BY <1>3 DEF TakeFile
  <2>2. PICK b \in FileBlocks : b = Head(toFile) /\ b = toFile[1] /\ 1 \in DOMAIN toFile
    <3>1. toFile \in Seq(FileBlocks)
      BY <1>1 DEF Answered
    <3> HIDE DEF FileBlocks
    <3>2. Len(toFile) \in Nat \ {0} /\ Head(toFile) = toFile[1] /\ toFile[1] \in FileBlocks
      BY <2>1, <3>1, TailIs
    <3> QED BY <3>1, <3>2
  <2>3. pending # None /\ b.key = pending.key => PartOf(b, pending.asked)
    BY <1>1, <2>2 DEF Answered, FilesAnswer
  <2>4. PageInv' /\ CountedReadIsWhole' /\ GoesOn
    BY <2>1, <2>2, <2>3, BlockReceives
  <2>5. Answered'
    BY <1>1, <2>1, <2>4, FileTaken
  <2> QED BY <2>4, <2>5 DEF ClipInv
<1> QED BY <1>2, <1>3

LEMMA SettlesKeeps == ASSUME ClipInv, Settles PROVE ClipInv'
<1>1. Answered /\ PageInv /\ CountedReadIsWhole /\ pending # None /\ SoundRead(pending)
  BY DEF ClipInv, Answered, Settles
<1> DEFINE p == [pending EXCEPT !.settle = FALSE]
<1>2. TryFinish(p, FALSE) /\ UNCHANGED <<local, remote, page, toText, toFile>>
  BY DEF Settles, net
<1>3. /\ p.key = pending.key /\ p.asked = pending.asked /\ p.got = pending.got /\ p.expected = pending.expected
      /\ p \in PendingReads
  BY <1>1 DEF SoundRead, PendingReads
<1> HIDE DEF p
<1>4. SoundRead(p)
  BY <1>1, <1>3 DEF SoundRead
<1>5. PageInv' /\ CountedReadIsWhole' /\ pending' \in {None, p}
  BY <1>1, <1>2, <1>4, TryFinishKeeps
<1>6. ASSUME pending' # None PROVE SoundRead(pending)' /\ TextsAnswer(pending)' /\ FilesAnswer(pending)'
  <2>1. pending' = p /\ TextsAnswer(pending) /\ FilesAnswer(pending)
    BY <1>1, <1>5, <1>6 DEF Answered
  <2>2. SoundRead(pending)'
    BY <1>4, <2>1 DEF SoundRead, PartOf, PendingReads
  <2>3. TextsAnswer(pending)' /\ FilesAnswer(pending)'
    BY <1>2, <1>3, <2>1 DEF TextsAnswer, FilesAnswer, PartOf
  <2> QED BY <2>2, <2>3
<1>7. pending' \in PendingReads \union {None}
  BY <1>3, <1>5
<1>8. Answered'
  BY <1>1, <1>2, <1>6, <1>7 DEF Answered
<1> QED BY <1>5, <1>8 DEF ClipInv

\* Steps that leave the messages and the read alone, or drop them.
LEMMA QuietStepKeeps ==
  ASSUME ClipInv,
         \/ ReadServed \/ ReadRefused \/ StaleReadEnds \/ Resume \/ PressRead \/ PressSend
         \/ \E ok \in BOOLEAN : WriteEnds(ok) \/ CopyEnds(ok)
         \/ \E text \in Texts, ok \in BOOLEAN : StaleWriteEnds(text, ok)
         \/ PressCopy \/ UserCopies
  PROVE  ClipInv'
<1>1. PageInv /\ Answered /\ CountedReadIsWhole
  BY DEF ClipInv
<1>2. PageInv'
  BY <1>1, PageReadsKeep, WriteKeeps, CopyKeeps, StaleWriteKeeps, CopiesKeep
<1>3. UNCHANGED messageFacts
  BY DEF messageFacts, net, session, ReadServed, ReadRefused, StaleReadEnds, Resume, PressRead, PressSend, WriteEnds,
         CopyEnds, StaleWriteEnds, PressCopy, UserCopies
<1> QED BY <1>1, <1>2, <1>3, MessagesUntouched DEF ClipInv

LEMMA DroppingStepKeeps ==
  ASSUME ClipInv, Expires \/ ChannelsOpen \/ ChannelsClose \/ SessionReset \/ ChannelsRendered \/ Toggle
  PROVE  ClipInv'
<1>1. PageInv /\ Answered /\ CountedReadIsWhole
  BY DEF ClipInv
<1>2. PageInv'
  <2>1. CASE Expires
    BY <1>1, <2>1, PageUntouched DEF Expires, page, reads, written, pageFacts
  <2> QED BY <1>1, <2>1, ChannelsKeep, ToggleKeeps
<1>3. /\ pending' \in {pending, None} /\ toText' \in {toText, <<>>} /\ toFile' \in {toFile, <<>>}
      /\ UNCHANGED assembled
  BY DEF Expires, ChannelsOpen, ChannelsClose, SessionReset, ChannelsRendered, Toggle, Closed, net, session
<1> QED BY <1>1, <1>2, <1>3, DropKeeps DEF ClipInv

\* On every clipboard, block size and key: what the page says of the two clipboards stays so, with
\* whatever answers, fails or is overtaken on the way.
THEOREM ClipboardInvariance == Spec => []ClipInv
<1>1. Init => ClipInv
  BY ClipInitKeeps
<1>2. ClipInv /\ [Next]_vars => ClipInv'
  <2> SUFFICES ASSUME ClipInv, [Next]_vars PROVE ClipInv'
    OBVIOUS
  <2>1. CASE UNCHANGED vars
    <3>1. PageInv'
      BY <2>1, PageUntouched DEF ClipInv, vars, reads, written, page, pageFacts
    <3> QED BY <2>1, <3>1, MessagesUntouched DEF ClipInv, vars, net, session, messageFacts
  <2>2. CASE Next
    BY <2>2, QuietStepKeeps, DroppingStepKeeps, PollKeeps, TakesKeep, SettlesKeeps, RemoteCopiesKeeps DEF Next
  <2> QED BY <2>1, <2>2
<1> QED BY <1>1, <1>2, PTL DEF Spec

\* What the page says of the two clipboards is so, and the text it took for the remote one was whole.
THEOREM ClipboardTruth == Spec => []PageShowsTheTruth
<1>1. ClipInv => PageShowsTheTruth
  BY DEF ClipInv, PageInv, PageShowsTheTruth
<1> QED BY <1>1, ClipboardInvariance, PTL

-----------------------------------------------------------------------------
(* The pointer.  The page's arithmetic is exact up to the rounding to a      *)
(* pixel; the scale it takes is the browser's, though not always the same    *)
(* fraction.                                                                 *)

LEMMA DivIs ==
  ASSUME NEW x \in Int, NEW k \in Int, k > 0
  PROVE  x \div k \in Int /\ k * (x \div k) <= x /\ x < k * (x \div k) + k
  OBVIOUS

LEMMA TimesKeeps ==
  ASSUME NEW x \in Int, NEW y \in Int, NEW k \in Int, k > 0
  PROVE  (x <= y <=> x * k <= y * k) /\ (x < y <=> x * k < y * k)
  OBVIOUS

IsPixelOf(X, n, M, pixel) == pixel = Rounded(Within(X, 0, 2 * n * M), 2 * n)

Nearest(X, n, M, pixel) ==
  /\ pixel \in 0 .. M
  /\ \/ Abs(X - 2 * n * pixel) <= n
     \/ pixel = 0 /\ X < 0
     \/ pixel = M /\ X > 2 * n * M

SameScale(n, d, X, s1, s2, Y) == s1 * d = n * s2 /\ X * s2 = Y * d

\* The pixel of an offset X, in units of which a pixel has 2 * n, among M pixels.
LEMMA RoundedIs ==
  ASSUME NEW X \in Int, NEW n \in Int, n > 0, NEW M \in Int, M > 0,
         NEW pixel, IsPixelOf(X, n, M, pixel)
  PROVE  Nearest(X, n, M, pixel)
<1> DEFINE W == Within(X, 0, 2 * n * M)
           k == 4 * n
<1>1. n * M \in Int /\ n * M > 0
  OBVIOUS
<1>2. W \in Int /\ 0 <= W /\ W <= 2 * (n * M)
      /\ (W = X \/ (W = 0 /\ X < 0) \/ (W = 2 * (n * M) /\ X > 2 * n * M))
  BY <1>1 DEF Within
<1>3. pixel = (2 * W + 2 * n) \div k
  BY DEF IsPixelOf, Rounded
<1> HIDE DEF W
<1>4. k \in Int /\ k > 0 /\ 2 * W + 2 * n \in Int
  BY <1>2
<1>5. pixel \in Int /\ k * pixel <= 2 * W + 2 * n /\ 2 * W + 2 * n < k * pixel + k
  BY <1>3, <1>4, DivIs
<1>6. n * pixel \in Int /\ 2 * (n * pixel) <= W + n /\ W < 2 * (n * pixel) + n
  BY <1>2, <1>5
<1>7. pixel >= 0 /\ pixel <= M
  <2>1. 0 * n < (pixel + 1) * n /\ pixel * n < (M + 1) * n
    BY <1>1, <1>2, <1>5, <1>6
  <2>2. 0 < pixel + 1 /\ pixel < M + 1
    BY <1>5, <2>1, TimesKeeps
  <2> QED BY <1>5, <2>2
<1>8. CASE W = X
  BY <1>1, <1>2, <1>5, <1>6, <1>7, <1>8 DEF Abs, Nearest
<1>9. CASE W = 0 /\ X < 0
  <2>1. pixel * n < 1 * n
    BY <1>5, <1>6, <1>9
  <2>2. pixel < 1
    BY <1>5, <2>1, TimesKeeps
  <2> QED BY <1>5, <1>7, <1>9, <2>2 DEF Nearest
<1>10. CASE W = 2 * (n * M) /\ X > 2 * n * M
  <2>1. (M - 1) * n < pixel * n
    BY <1>1, <1>5, <1>6, <1>10
  <2>2. M - 1 < pixel
    BY <1>5, <2>1, TimesKeeps
  <2> QED BY <1>5, <1>7, <1>10, <2>2 DEF Nearest
<1> QED BY <1>2, <1>5, <1>7, <1>8, <1>9, <1>10 DEF Nearest

\* The same on another scale of the same proportion.
LEMMA Rescaled ==
  ASSUME NEW X \in Int, NEW n \in Int, NEW d \in Int, NEW M \in Int, NEW Y \in Int, NEW s1 \in Int, NEW s2 \in Int,
         n > 0, d > 0, s1 > 0, s2 > 0, SameScale(n, d, X, s1, s2, Y), NEW pixel, Nearest(X, n, M, pixel)
  PROVE  Nearest(Y, s1, M, pixel)
<1>0. s1 * d = n * s2 /\ X * s2 = Y * d /\ pixel \in Int /\ pixel \in 0 .. M
  BY DEF SameScale, Nearest
<1>1. CASE Abs(X - 2 * n * pixel) <= n
  <2> DEFINE x == X - 2 * (n * pixel)
             y == Y - 2 * (s1 * pixel)
  <2>1. x \in Int /\ y \in Int /\ x <= n /\ -n <= x
    BY <1>0, <1>1 DEF Abs
  <2>2. x * s2 = y * d
    <3>1. (n * pixel) * s2 = (s1 * pixel) * d
      <4>1. (n * pixel) * s2 = (n * s2) * pixel
        BY <1>0
      <4>2. (s1 * pixel) * d = (s1 * d) * pixel
        BY <1>0
      <4> QED BY <1>0, <4>1, <4>2
    <3>2. x * s2 = X * s2 - 2 * ((n * pixel) * s2)
      BY <1>0
    <3>3. y * d = Y * d - 2 * ((s1 * pixel) * d)
      BY <1>0
    <3> QED BY <1>0, <3>1, <3>2, <3>3
  <2> HIDE DEF x, y
  <2>3. x * s2 <= n * s2 /\ (-n) * s2 <= x * s2
    BY <2>1, TimesKeeps
  <2>4. y * d <= s1 * d /\ (-s1) * d <= y * d
    BY <1>0, <2>1, <2>2, <2>3
  <2>5. y <= s1 /\ -s1 <= y
    BY <2>1, <2>4, TimesKeeps
  <2>6. Y - 2 * s1 * pixel = y
    BY <1>0 DEF y
  <2> QED BY <1>0, <2>1, <2>5, <2>6 DEF Abs, Nearest
<1>2. CASE pixel = 0 /\ X < 0
  <2>1. X * s2 < 0 * s2
    BY <1>2, TimesKeeps
  <2>2. Y * d < 0 * d
    BY <1>0, <2>1
  <2>3. Y < 0
    BY <2>2, TimesKeeps
  <2> QED BY <1>0, <1>2, <2>3 DEF Nearest
<1>3. CASE pixel = M /\ X > 2 * n * M
  <2> DEFINE x == 2 * n * M
             y == 2 * s1 * M
  <2>1. x \in Int /\ y \in Int /\ x < X
    BY <1>3
  <2>2. x * s2 = y * d
    <3>1. x * s2 = 2 * M * (n * s2)
      BY <1>0
    <3>2. y * d = 2 * M * (s1 * d)
      BY <1>0
    <3> QED BY <1>0, <3>1, <3>2
  <2> HIDE DEF x, y
  <2>3. x * s2 < X * s2
    BY <2>1, TimesKeeps
  <2>4. y * d < Y * d
    BY <1>0, <2>2, <2>3
  <2>5. y < Y
    BY <2>1, <2>4, TimesKeeps
  <2> QED BY <1>0, <1>3, <2>5 DEF y, Nearest
<1> QED BY <1>0, <1>1, <1>2, <1>3 DEF Nearest

Rectangles == [left : Int, top : Int, width : Nat, height : Nat]
MediaSizes == (Nat \ {0}) \X (Nat \ {0})

\* The scale of a picture in the stage, as ScaleOf takes it for the view mode.
Scale(media) == ScaleOf(layout, media, mode = "fill")

LEMMA ScaleIs ==
  ASSUME layout \in Rectangles, mode \in {"fit", "fill"}, NEW media \in MediaSizes
  PROVE  \/ mode = "fit" /\ layout.width * media[2] <= layout.height * media[1] /\ Scale(media) = <<layout.width, media[1]>>
         \/ mode = "fit" /\ ~(layout.width * media[2] <= layout.height * media[1]) /\ Scale(media) = <<layout.height, media[2]>>
         \/ mode = "fill" /\ layout.width * media[2] <= layout.height * media[1] /\ Scale(media) = <<layout.height, media[2]>>
         \/ mode = "fill" /\ ~(layout.width * media[2] <= layout.height * media[1]) /\ Scale(media) = <<layout.width, media[1]>>
<1> DEFINE isNarrow == layout.width * media[2] <= layout.height * media[1]
<1>0. isNarrow \in BOOLEAN
  BY DEF Rectangles, MediaSizes
<1> HIDE DEF isNarrow
<1>1. PICK narrow \in BOOLEAN : narrow = isNarrow
  BY <1>0
<1>2. PICK fill \in BOOLEAN : fill = (mode = "fill")
  OBVIOUS
<1>3. Scale(media) = IF narrow # fill THEN <<layout.width, media[1]>> ELSE <<layout.height, media[2]>>
  BY <1>1, <1>2, Zenon DEF Scale, ScaleOf, isNarrow
<1> QED BY <1>1, <1>2, <1>3 DEF isNarrow

\* What a browser paints has the same scale, if not the same fraction.
LEMMA PaintedIs ==
  ASSUME layout \in Rectangles, layout.width > 0, layout.height > 0, mode \in {"fit", "fill"}, NEW media \in MediaSizes
  PROVE  /\ Painted(media)[1] \in Int /\ Painted(media)[1] > 0 /\ Painted(media)[2] \in Int /\ Painted(media)[2] > 0
         /\ Scale(media)[1] \in Int /\ Scale(media)[1] > 0 /\ Scale(media)[2] \in Int /\ Scale(media)[2] > 0
         /\ Painted(media)[1] * Scale(media)[2] = Scale(media)[1] * Painted(media)[2]
<1> DEFINE w == layout.width
           h == layout.height
           wide == <<w, media[1]>>
           high == <<h, media[2]>>
           Fits(s)  == media[1] * s[1] <= w * s[2] /\ media[2] * s[1] <= h * s[2]
           Fills(s) == media[1] * s[1] >= w * s[2] /\ media[2] * s[1] >= h * s[2]
           Right(s) == IF mode = "fill" THEN Fills(s) ELSE Fits(s)
<1>1. w \in Int /\ w > 0 /\ h \in Int /\ h > 0 /\ media[1] \in Int /\ media[1] > 0 /\ media[2] \in Int /\ media[2] > 0
  BY DEF Rectangles, MediaSizes
<1>2. Painted(media) = CHOOSE s \in {wide, high} : Right(s)
  <2> DEFINE stage == <<w, h>>
             Right2(s) == IF mode = "fill" THEN \A a \in Axes : media[a] * s[1] >= stage[a] * s[2]
                                           ELSE \A a \in Axes : media[a] * s[1] <= stage[a] * s[2]
  <2>1. {<<stage[a], media[a]>> : a \in Axes} = {wide, high}
    BY DEF Axes
  <2>2. \A s : Right2(s) <=> Right(s)
    BY DEF Axes
  <2>3. Painted(media) = CHOOSE s \in {<<stage[a], media[a]>> : a \in Axes} : Right2(s)
    BY Zenon DEF Painted
  <2> HIDE DEF Right, Right2, wide, high
  <2> QED BY <2>1, <2>2, <2>3, Zenon
<1>3. wide[1] = w /\ wide[2] = media[1] /\ high[1] = h /\ high[2] = media[2]
  OBVIOUS
<1>4. Right(Scale(media)) /\ Scale(media) \in {wide, high}
  BY <1>1, <1>3, ScaleIs
<1>5. Right(Painted(media)) /\ Painted(media) \in {wide, high}
  <2> HIDE DEF Right, wide, high
  <2> QED BY <1>2, <1>4, Zenon
<1>6. CASE Painted(media) = Scale(media)
  BY <1>1, <1>3, <1>4, <1>6
<1>7. CASE Painted(media) = wide /\ Scale(media) = high
  BY <1>1, <1>3, <1>4, <1>5, <1>7
<1>8. CASE Painted(media) = high /\ Scale(media) = wide
  BY <1>1, <1>3, <1>4, <1>5, <1>8
<1> QED BY <1>4, <1>5, <1>6, <1>7, <1>8

\* The geometry of the picture as it is.
Geometry ==
  LET media == IF size[video] # Unset THEN size[video] ELSE <<layout.width, layout.height>>
  IN  IF layout.width = 0 \/ layout.height = 0 THEN Unset
      ELSE [rect |-> layout, media |-> media, scale |-> Scale(media)]

\* With the geometry as it is, the pixel that is sent is the one the user sees at the point.
LEMMA PixelIsSeen ==
  ASSUME layout \in Rectangles, mode \in {"fit", "fill"}, size[video] \in MediaSizes, size[video] # Unset,
         Geometry # Unset, NEW point \in Int \X Int
  PROVE  PointsAt(point, PixelAt(Geometry, point))
<1> DEFINE media == size[video]
           g == Geometry
           corner == <<layout.left, layout.top>>
           stage == <<layout.width, layout.height>>
           s == Painted(media)
           z == Scale(media)
           pixel == PixelAt(g, point)
<1>1. layout.width > 0 /\ layout.height > 0 /\ g.rect = layout /\ g.media = media /\ g.scale = z
  BY DEF Geometry, Rectangles
<1>2. /\ s[1] \in Int /\ s[1] > 0 /\ s[2] \in Int /\ s[2] > 0
      /\ z[1] \in Int /\ z[1] > 0 /\ z[2] \in Int /\ z[2] > 0
      /\ s[1] * z[2] = z[1] * s[2]
  BY <1>1, PaintedIs
<1>3. ASSUME NEW a \in Axes
      PROVE  media[a] \in Int /\ media[a] > 0 /\ point[a] \in Int /\ corner[a] \in Int /\ stage[a] \in Int
  BY DEF Axes, MediaSizes, Rectangles
<1> DEFINE X(a) == 2 * (point[a] - corner[a]) * z[2] - stage[a] * z[2] + media[a] * z[1]
           Place(a, p) == 2 * s[2] * corner[a] + s[2] * stage[a] + s[1] * (2 * p - media[a])
<1>4. ASSUME NEW a \in Axes PROVE pixel[a] = Rounded(Within(X(a), 0, 2 * z[1] * media[a]), 2 * z[1])
  BY <1>1 DEF PixelAt, Axes
<1> HIDE DEF corner, stage, pixel, z, s, g, media, Place
<1>5. ASSUME NEW a \in Axes
      PROVE  /\ pixel[a] \in 0 .. media[a]
             /\ \/ Abs(2 * s[2] * point[a] - Place(a, pixel[a])) <= s[1]
                \/ pixel[a] = 0 /\ 2 * s[2] * point[a] < Place(a, 0)
                \/ pixel[a] = media[a] /\ 2 * s[2] * point[a] > Place(a, media[a])
  <2> DEFINE x == X(a)
             y == 2 * (point[a] - corner[a]) * s[2] - stage[a] * s[2] + media[a] * s[1]
             n == z[1]
             d == z[2]
             s1 == s[1]
             s2 == s[2]
             M == media[a]
             P == point[a] - corner[a]
             S == stage[a]
             p == pixel[a]
  <2>1. /\ x \in Int /\ y \in Int /\ n \in Int /\ n > 0 /\ d \in Int /\ d > 0 /\ s1 \in Int /\ s1 > 0 /\ s2 \in Int /\ s2 > 0
        /\ M \in Int /\ M > 0 /\ P \in Int /\ S \in Int /\ s1 * d = n * s2
    BY <1>2, <1>3
  <2>2. IsPixelOf(x, n, M, p)
    BY <1>4 DEF IsPixelOf
  <2>3. x = 2 * P * d - S * d + M * n /\ y = 2 * P * s2 - S * s2 + M * s1
    OBVIOUS
  <2>4. \A q \in Int : 2 * s2 * point[a] - Place(a, q) = y - 2 * s1 * q
    <3> SUFFICES ASSUME NEW q \in Int PROVE 2 * s2 * point[a] - Place(a, q) = y - 2 * s1 * q
      OBVIOUS
    <3>1. Place(a, q) = 2 * s2 * corner[a] + s2 * S + s1 * (2 * q - M)
      BY DEF Place
    <3> QED BY <1>3, <2>1, <3>1
  <2>5. \A q \in Int : Place(a, q) \in Int /\ 2 * s2 * point[a] \in Int
    BY <1>2, <1>3, <2>1 DEF Place
  <2> HIDE DEF x, y, n, d, s1, s2, M, P, S, p
  <2>6. Nearest(x, n, M, p)
    BY <2>1, <2>2, RoundedIs
  <2>7. x * s2 = y * d
    <3>1. x * s2 = 2 * P * (d * s2) - S * (d * s2) + M * (n * s2)
      BY <2>1, <2>3
    <3>2. y * d = 2 * P * (d * s2) - S * (d * s2) + M * (s1 * d)
      BY <2>1, <2>3
    <3> QED BY <2>1, <3>1, <3>2
  <2>12. Nearest(y, s1, M, p)
    <3>1. SameScale(n, d, x, s1, s2, y)
      BY <2>1, <2>7 DEF SameScale
    <3> QED BY <2>1, <2>6, <3>1, Rescaled
  <2>8. /\ p \in 0 .. M
        /\ \/ Abs(y - 2 * s1 * p) <= s1
           \/ p = 0 /\ y < 0
           \/ p = M /\ y > 2 * s1 * M
    BY <2>12 DEF Nearest
  <2>9. CASE Abs(y - 2 * s1 * p) <= s1
    <3>1. 2 * s2 * point[a] - Place(a, p) = y - 2 * s1 * p
      BY <2>1, <2>4, <2>8
    <3>2. Abs(2 * s2 * point[a] - Place(a, p)) <= s1
      BY <2>9, <3>1
    <3> QED BY <2>8, <3>2 DEF p, M, s1, s2
  <2>10. CASE p = 0 /\ y < 0
    <3>1. 2 * s2 * point[a] - Place(a, 0) = y - 2 * s1 * 0
      BY <2>4
    <3>2. 2 * s2 * point[a] < Place(a, 0)
      BY <2>1, <2>5, <2>10, <3>1
    <3> QED BY <2>8, <2>10, <3>2 DEF p, M, s1, s2
  <2>11. CASE p = M /\ y > 2 * s1 * M
    <3>1. 2 * s2 * point[a] - Place(a, M) = y - 2 * s1 * M
      BY <2>1, <2>4
    <3>2. 2 * s2 * point[a] > Place(a, M)
      BY <2>1, <2>5, <2>11, <3>1
    <3> QED BY <2>8, <2>11, <3>2 DEF p, M, s1, s2
  <2> QED BY <2>8, <2>9, <2>10, <2>11
<1> QED BY <1>5, Zenon DEF PointsAt, Place, corner, stage, pixel, s, g, media

LEMMA TruncatedIs ==
  ASSUME NEW n \in Int
  PROVE  Truncated(n) \in Int /\ Abs(n - 4 * Truncated(n)) < 4
  BY DEF Abs, Truncated

Places == (Int \X Int) \union {Unset}

PointTypes ==
  /\ layout \in Rectangles /\ mode \in {"fit", "fill"} /\ video \in Axes
  /\ size \in [Axes -> MediaSizes \union {Unset}]
  /\ desktop \in BOOLEAN /\ controlled \in BOOLEAN /\ noticed \in BOOLEAN
  /\ pointerAt \in Places /\ queuedMove \in Places

\* What was not sent yet is what the accumulator remembers.
ScrollKept ==
  /\ remainder \in Int \X Int /\ owed = remainder
  /\ \A a \in Axes : Abs(remainder[a]) < 4

GeometryKnown == noticed => geometry = Geometry

PointInv == PointTypes /\ ScrollKept /\ GeometryKnown /\ SentWhereSeen /\ OverlayFollows

PixelsAreSeen ==
  \A point \in Int \X Int : PointTypes /\ size[video] # Unset /\ Geometry # Unset => PointsAt(point, PixelAt(Geometry, point))

LEMMA PixelsAreSeenNow == PixelsAreSeen
  BY PixelIsSeen DEF PixelsAreSeen, PointTypes

LEMMA PixelsAreSeenNext == PixelsAreSeen'
<1>1. PixelsAreSeen
  BY PixelsAreSeenNow
<1> QED BY <1>1, PTL

\* There is a geometry exactly of a stage that is laid out.
GeometryIs ==
  PointTypes =>
    /\ Geometry # Unset => Geometry.rect = layout
    /\ Geometry # Unset /\ size[video] # Unset => Geometry.media = size[video]
    /\ layout.width > 0 /\ layout.height > 0 => Geometry # Unset

LEMMA GeometryIsNow == GeometryIs
<1> SUFFICES ASSUME PointTypes PROVE GeometryIs
  BY DEF GeometryIs
<1>1. Geometry # Unset => Geometry.rect = layout /\ (size[video] # Unset => Geometry.media = size[video])
  BY DEF Geometry
<1>2. ASSUME layout.width > 0, layout.height > 0 PROVE Geometry # Unset
  <2> DEFINE media == IF size[video] # Unset THEN size[video] ELSE <<layout.width, layout.height>>
  <2>1. layout \in Rectangles /\ mode \in {"fit", "fill"} /\ media \in MediaSizes
    BY <1>2 DEF PointTypes, Rectangles, MediaSizes
  <2>2. Geometry = [rect |-> layout, media |-> media, scale |-> Scale(media)]
    <3>1. ~(layout.width = 0 \/ layout.height = 0)
      BY <1>2
    <3> QED BY <3>1, Zenon DEF Geometry
  <2> HIDE DEF media
  <2>3. Scale(media) \in Nat \X Nat
    BY <2>1, ScaleIs DEF Rectangles, MediaSizes
  <2>4. Geometry \in [rect : Rectangles, media : Nat \X Nat, scale : Nat \X Nat]
    BY <2>1, <2>2, <2>3 DEF MediaSizes
  <2> QED BY <2>4, PointingAssumption DEF Rectangles
<1> QED BY <1>1, <1>2 DEF GeometryIs

LEMMA GeometryIsNext == GeometryIs'
<1>1. GeometryIs
  BY GeometryIsNow
<1> QED BY <1>1, PTL

LEMMA ComputedIs == Computed = Geometry'
  BY DEF Computed, Geometry, Scale

\* What names the pixel at a point with the geometry as it is, is sent where it is seen.
AimedAt(sent) ==
  \E point \in Int \X Int :
    geometry' = Geometry' /\ geometry' # Unset /\ sent.point = point /\ sent.move = MoveMessage(geometry', point)

LEMMA AimedIsSeen ==
  ASSUME PointTypes', UNCHANGED desktop, AimedAt(wire')
  PROVE  SentWhereSeen'
<1>1. PICK point \in Int \X Int :
        geometry' = Geometry' /\ geometry' # Unset /\ (wire').point = point /\ (wire').move = MoveMessage(geometry', point)
  BY DEF AimedAt
<1>2. (wire').move = [at |-> PixelAt(Geometry', point), of |-> IF desktop' THEN (Geometry').media ELSE <<1, 1>>]
  BY <1>1 DEF MoveMessage
<1>3. ASSUME (size[video] # Unset)' PROVE PointsAt(point, PixelAt(Geometry, point))' /\ (Geometry').media = (size[video])'
  BY <1>1, <1>3, PixelsAreSeenNext, GeometryIsNext DEF PixelsAreSeen, GeometryIs
<1>4. (wire').move.at = PixelAt(Geometry', point) /\ (wire').move.of = IF desktop' THEN (Geometry').media ELSE <<1, 1>>
  BY <1>2
<1> QED BY <1>1, <1>3, <1>4, Zenon DEF SentWhereSeen

LEMMA RefreshKeeps ==
  ASSUME PointTypes', UNCHANGED desktop, RefreshGeometry, wire' = Unset \/ AimedAt(wire')
  PROVE  GeometryKnown' /\ SentWhereSeen' /\ OverlayFollows'
<1>1. geometry' = Geometry' /\ OverlayPosition
  BY ComputedIs DEF RefreshGeometry
<1>2. SentWhereSeen'
  BY AimedIsSeen DEF SentWhereSeen
<1>3. ASSUME pointerAt' # Unset, layout'.width > 0 /\ layout'.height > 0
      PROVE  overlay' = <<pointerAt'[1] - layout'.left, pointerAt'[2] - layout'.top>>
  <2>1. geometry' # Unset /\ (geometry').rect = layout'
    BY <1>1, <1>3, GeometryIsNext DEF GeometryIs
  <2> QED BY <1>1, <1>3, <2>1 DEF OverlayPosition
<1> QED BY <1>1, <1>2, <1>3 DEF GeometryKnown, OverlayFollows

\* A step that sends nothing and leaves the picture, the geometry and the pointer.
LEMMA QuietKeeps ==
  ASSUME PointInv, UNCHANGED <<pictureVars, geometry, noticed, pointerAt, overlay>>, wire' = Unset
  PROVE  GeometryKnown' /\ SentWhereSeen' /\ OverlayFollows'
<1>1. Geometry' = Geometry
  BY DEF Geometry, Scale, pictureVars
<1>2. GeometryKnown'
  BY <1>1 DEF PointInv, GeometryKnown
<1>3. SentWhereSeen' /\ OverlayFollows'
  BY DEF PointInv, SentWhereSeen, OverlayFollows, pictureVars
<1> QED BY <1>2, <1>3

LEMMA ScrollStays == ASSUME ScrollKept, UNCHANGED scrollVars \/ ResetScroll PROVE ScrollKept'
<1>1. CASE UNCHANGED scrollVars
  BY <1>1 DEF ScrollKept, scrollVars
<1>2. CASE ResetScroll
  BY <1>2 DEF ScrollKept, ResetScroll, Axes, Abs
<1> QED BY <1>1, <1>2

\* The layout or a video changes before the page is told.
LEMMA ChangesKeep ==
  ASSUME PointInv, (\E l \in Layouts : Layout(l)) \/ (\E v \in Axes : \E s \in Sizes[v] : VideoSize(v, s))
  PROVE  PointInv'
<1>1. Changed
  BY DEF Layout, VideoSize
<1>2. layout' \in Rectangles /\ UNCHANGED <<mode, video>>
  BY PointingAssumption DEF Layout, VideoSize, PointInv, PointTypes, Rectangles
<1>3. size' \in [Axes -> MediaSizes \union {Unset}]
  BY PointingAssumption DEF Layout, VideoSize, PointInv, PointTypes, MediaSizes, Axes
<1>4. PointTypes'
  BY <1>1, <1>2, <1>3 DEF Changed, PointInv, PointTypes
<1>5. ScrollKept'
  BY <1>1, ScrollStays DEF Changed, PointInv
<1>6. GeometryKnown' /\ SentWhereSeen' /\ OverlayFollows'
  BY <1>1 DEF Changed, GeometryKnown, SentWhereSeen, OverlayFollows
<1> QED BY <1>4, <1>5, <1>6 DEF PointInv

LEMMA QuietStepsKeep ==
  ASSUME PointInv, StageBlur \/ Control \/ PointerLeaves \/ Target
  PROVE  PointInv'
<1>1. wire' = Unset /\ UNCHANGED <<pictureVars, geometry, noticed>>
  BY DEF StageBlur, Control, PointerLeaves, Target
<1>2. PointTypes'
  BY <1>1 DEF StageBlur, Control, PointerLeaves, Target, PointInv, PointTypes, Places, pictureVars
<1>3. ScrollKept'
  BY ScrollStays DEF StageBlur, Control, PointerLeaves, Target, PointInv
<1>4. GeometryKnown' /\ SentWhereSeen' /\ OverlayFollows'
  <2>1. CASE PointerLeaves
    <3>1. Geometry' = Geometry
      BY <1>1 DEF Geometry, Scale, pictureVars
    <3>2. GeometryKnown'
      BY <1>1, <3>1 DEF PointInv, GeometryKnown
    <3>3. SentWhereSeen' /\ OverlayFollows'
      BY <1>1, <2>1 DEF SentWhereSeen, OverlayFollows, PointerLeaves
    <3> QED BY <3>2, <3>3
  <2>2. CASE ~PointerLeaves
    <3>1. UNCHANGED <<pointerAt, overlay>>
      BY <2>2 DEF StageBlur, Control, Target
    <3> QED BY <1>1, <3>1, QuietKeeps
  <2> QED BY <2>1, <2>2
<1> QED BY <1>2, <1>3, <1>4 DEF PointInv

LEMMA RefreshStepsKeep ==
  ASSUME PointInv, Observed \/ \E m \in {"fit", "fill"}, v \in Axes : Shown(m, v)
  PROVE  PointInv'
<1>1. RefreshGeometry /\ wire' = Unset /\ UNCHANGED <<layout, size, desktop, controlled, pointerAt, queuedMove, scrollVars>>
      /\ mode' \in {"fit", "fill"} /\ video' \in Axes
  BY DEF Observed, Shown, PointInv, PointTypes, pictureVars
<1>2. PointTypes'
  BY <1>1 DEF PointInv, PointTypes, RefreshGeometry
<1>3. ScrollKept'
  BY <1>1, ScrollStays DEF PointInv
<1>4. GeometryKnown' /\ SentWhereSeen' /\ OverlayFollows'
  BY <1>1, <1>2, RefreshKeeps
<1> QED BY <1>2, <1>3, <1>4 DEF PointInv

LEMMA PointerMovesKeeps == ASSUME PointInv, NEW p \in Points, PointerMoves(p) PROVE PointInv'
<1>1. p \in Int \X Int
  BY PointingAssumption
<1>2. /\ pointerAt' = p /\ queuedMove' \in {p, queuedMove} /\ wire' = Unset /\ OverlayPosition
      /\ UNCHANGED <<layout, mode, size, video, geometry, noticed, desktop, controlled, scrollVars>>
  BY DEF PointerMoves, pictureVars
<1>3. PointTypes'
  BY <1>1, <1>2 DEF PointInv, PointTypes, Places
<1>4. ScrollKept'
  BY <1>2, ScrollStays DEF PointInv
<1>5. Geometry' = Geometry
  BY <1>2 DEF Geometry, Scale
<1>6. GeometryKnown' /\ SentWhereSeen'
  BY <1>2, <1>5 DEF PointInv, GeometryKnown, SentWhereSeen
<1>7. ASSUME pointerAt' # Unset, noticed', layout'.width > 0 /\ layout'.height > 0
      PROVE  overlay' = <<pointerAt'[1] - layout'.left, pointerAt'[2] - layout'.top>>
  <2>1. geometry' = Geometry' /\ geometry' # Unset /\ (geometry').rect = layout'
    BY <1>3, <1>6, <1>7, GeometryIsNext DEF GeometryIs, GeometryKnown
  <2> QED BY <1>2, <1>7, <2>1 DEF OverlayPosition
<1>8. OverlayFollows'
  BY <1>7 DEF OverlayFollows
<1> QED BY <1>3, <1>4, <1>6, <1>8 DEF PointInv

LEMMA FlushesAims ==
  ASSUME PointTypes', NEW kind, NEW point \in Int \X Int, NEW scroll, Flushes(kind, point, scroll), UNCHANGED desktop
  PROVE  GeometryKnown' /\ SentWhereSeen' /\ OverlayFollows'
<1>1. RefreshGeometry /\ geometry' = Geometry'
  BY ComputedIs DEF Flushes, RefreshGeometry
<1>2. CASE wire' = Unset
  BY <1>1, <1>2, RefreshKeeps
<1>3. CASE wire' # Unset
  <2>1. geometry' # Unset
        /\ wire' = [kind |-> kind, point |-> point, move |-> MoveMessage(geometry', point), scroll |-> scroll]
    BY <1>3 DEF Flushes
  <2>2. AimedAt(wire')
    BY <1>1, <2>1 DEF AimedAt
  <2> QED BY <1>1, <2>2, RefreshKeeps
<1> QED BY <1>2, <1>3

LEMMA PressKeeps == ASSUME PointInv, NEW p \in Points, Press(p) PROVE PointInv'
<1>1. p \in Int \X Int
  BY PointingAssumption
<1>2. PointTypes' /\ UNCHANGED <<desktop, scrollVars>>
  BY <1>1 DEF PointInv, PointTypes, Places, Press, Flushes, RefreshGeometry, pictureVars
<1>3. ScrollKept'
  BY <1>2, ScrollStays DEF PointInv
<1>4. GeometryKnown' /\ SentWhereSeen' /\ OverlayFollows'
  BY <1>1, <1>2, FlushesAims DEF Press
<1> QED BY <1>2, <1>3, <1>4 DEF PointInv

LEMMA MoveFrameKeeps == ASSUME PointInv, MoveFrame PROVE PointInv'
<1>1. queuedMove \in Int \X Int /\ queuedMove' = Unset /\ UNCHANGED <<pictureVars, desktop, controlled, pointerAt, scrollVars>>
  BY DEF MoveFrame, PointInv, PointTypes, Places
<1>2. PointTypes'
  BY <1>1 DEF MoveFrame, PointInv, PointTypes, Places, RefreshGeometry, pictureVars
<1>3. ScrollKept'
  BY <1>1, ScrollStays DEF PointInv
<1>4. wire' = Unset \/ (geometry' # Unset /\ wire' = [kind |-> "move", point |-> queuedMove, move |-> MoveMessage(geometry', queuedMove), scroll |-> <<0, 0>>])
  BY DEF MoveFrame
<1>5. ASSUME geometry' = Geometry', wire' # Unset PROVE AimedAt(wire')
  BY <1>1, <1>4, <1>5 DEF AimedAt
<1>6. CASE RefreshGeometry
  <2>1. geometry' = Geometry'
    BY <1>6, ComputedIs DEF RefreshGeometry
  <2>2. wire' = Unset \/ AimedAt(wire')
    BY <1>5, <2>1
  <2>3. GeometryKnown' /\ SentWhereSeen' /\ OverlayFollows'
    BY <1>1, <1>2, <1>6, <2>2, RefreshKeeps
  <2> QED BY <1>2, <1>3, <2>3 DEF PointInv
<1>7. CASE UNCHANGED <<geometry, noticed, overlay>>
  <2>1. Geometry' = Geometry
    BY <1>1 DEF Geometry, Scale, pictureVars
  <2>2. GeometryKnown'
    BY <1>7, <2>1 DEF PointInv, GeometryKnown
  <2>3. OverlayFollows'
    BY <1>1, <1>7 DEF PointInv, OverlayFollows, pictureVars
  <2>4. SentWhereSeen'
    <3>1. CASE wire' = Unset
      BY <3>1 DEF SentWhereSeen
    <3>2. CASE wire' # Unset /\ ~noticed'
      <4>1. (wire').kind = "move"
        BY <1>4, <3>2
      <4> QED BY <3>2, <4>1 DEF SentWhereSeen
    <3>3. CASE wire' # Unset /\ noticed'
      <4>1. AimedAt(wire')
        BY <1>5, <2>2, <3>3 DEF GeometryKnown
      <4> QED BY <1>1, <1>2, <4>1, AimedIsSeen
    <3> QED BY <1>2, <3>1, <3>2, <3>3 DEF PointTypes
  <2> QED BY <1>2, <1>3, <2>2, <2>3, <2>4 DEF PointInv
<1> QED BY <1>6, <1>7 DEF MoveFrame

\* What a wheel event adds is a number of quarters, and less than a whole stays.
LEMMA ScrolledIs ==
  ASSUME desktop \in BOOLEAN, NEW delta \in Int \X Int, NEW u \in Int
  PROVE  Scrolled(delta, u) \in Int \X Int
<1> DEFINE k == u * (IF desktop THEN 1 ELSE 2)
           d == [a \in Axes |-> delta[a] * u * (IF desktop THEN 1 ELSE 2)]
<1>1. d[1] \in Int /\ d[2] \in Int
  BY DEF Axes
<1> HIDE DEF d
<1>2. \A x, y : x \in {0, d[1]} /\ y \in {0, d[2], -d[2]} => <<x, y>> \in Int \X Int
  BY <1>1
<1>3. \E x \in {0, d[1]}, y \in {0, d[2], -d[2]} : Scrolled(delta, u) = <<x, y>>
  BY Zenon DEF Scrolled, d
<1> QED BY <1>2, <1>3

LEMMA PushedIs ==
  ASSUME remainder \in Int \X Int, NEW added \in Int \X Int
  PROVE  LET p == Pushed(added)
         IN  /\ p.whole \in Int \X Int
             /\ p.rest = <<remainder[1] + added[1] - 4 * p.whole[1], remainder[2] + added[2] - 4 * p.whole[2]>>
             /\ \A a \in Axes : Abs(p.rest[a]) < 4
<1> DEFINE x == remainder[1] + added[1]
           y == remainder[2] + added[2]
           whole == <<Truncated(x), Truncated(y)>>
           rest == <<x - 4 * Truncated(x), y - 4 * Truncated(y)>>
<1>1. x \in Int /\ y \in Int
  OBVIOUS
<1>2. Pushed(added).whole = whole /\ Pushed(added).rest = rest
  BY DEF Pushed, Axes
<1>0. x = remainder[1] + added[1] /\ y = remainder[2] + added[2]
  OBVIOUS
<1> HIDE DEF x, y
<1>3. /\ Truncated(x) \in Int /\ Abs(x - 4 * Truncated(x)) < 4
      /\ Truncated(y) \in Int /\ Abs(y - 4 * Truncated(y)) < 4
  BY <1>1, TruncatedIs
<1>4. whole \in Int \X Int /\ whole[1] = Truncated(x) /\ whole[2] = Truncated(y) /\ \A a \in Axes : Abs(rest[a]) < 4
  BY <1>1, <1>3 DEF Axes
<1>5. rest = <<x - 4 * whole[1], y - 4 * whole[2]>>
  BY <1>4
<1> HIDE DEF whole, rest
<1>6. rest = <<remainder[1] + added[1] - 4 * whole[1], remainder[2] + added[2] - 4 * whole[2]>>
  BY <1>0, <1>1, <1>4, <1>5
<1> QED BY <1>2, <1>4, <1>6

LEMMA WheelTurnsKeeps ==
  ASSUME PointInv, NEW p \in Points, NEW delta \in Wheels, NEW u \in Int, WheelTurns(p, delta, u)
  PROVE  PointInv'
<1> DEFINE added == Scrolled(delta, u)
           pushed == Pushed(added)
<1>1. p \in Int \X Int /\ delta \in Int \X Int /\ desktop \in BOOLEAN /\ remainder \in Int \X Int /\ owed = remainder
  BY PointingAssumption DEF PointInv, PointTypes, ScrollKept
<1>2. added \in Int \X Int
  BY <1>1, ScrolledIs
<1>3. /\ remainder' = pushed.rest
      /\ UNCHANGED <<pictureVars, desktop, controlled, pointerAt>>
      /\ \/ wire' = Unset /\ UNCHANGED <<geometry, noticed, overlay, queuedMove>>
         \/ Flushes("wheel", p, pushed.whole)
      /\ owed' = <<owed[1] + added[1] - 4 * pushed.whole[1], owed[2] + added[2] - 4 * pushed.whole[2]>>
  BY DEF WheelTurns
<1> HIDE DEF added
<1>4. /\ pushed.whole \in Int \X Int
      /\ pushed.rest = <<remainder[1] + added[1] - 4 * pushed.whole[1], remainder[2] + added[2] - 4 * pushed.whole[2]>>
      /\ \A a \in Axes : Abs(pushed.rest[a]) < 4
  BY <1>1, <1>2, PushedIs
<1> HIDE DEF pushed
<1>5. ScrollKept'
  <2>1. owed' = remainder'
    BY <1>1, <1>3, <1>4
  <2>2. remainder' \in Int \X Int
    BY <1>1, <1>2, <1>3, <1>4
  <2> QED BY <1>3, <1>4, <2>1, <2>2 DEF ScrollKept
<1>6. PointTypes'
  BY <1>1, <1>3 DEF PointInv, PointTypes, Places, Flushes, RefreshGeometry, pictureVars
<1>7. GeometryKnown' /\ SentWhereSeen' /\ OverlayFollows'
  <2>1. CASE wire' = Unset /\ UNCHANGED <<geometry, noticed, overlay, queuedMove>>
    BY <1>3, <2>1, QuietKeeps
  <2>2. CASE Flushes("wheel", p, pushed.whole)
    BY <1>1, <1>3, <1>6, <2>2, FlushesAims
  <2> QED BY <1>3, <2>1, <2>2
<1> QED BY <1>5, <1>6, <1>7 DEF PointInv

\* For any layouts, sizes, points and wheels: what the page knows of the picture is what the browser paints
\* whenever it has been told, and what is not sent yet of the wheel is remembered.
THEOREM PointingInvariance == PointingSpec => []PointInv
<1>1. PointingInit => PointInv
  <2> SUFFICES ASSUME PointingInit PROVE PointInv
    OBVIOUS
  <2>1. PointTypes
    <3>1. layout \in Rectangles
      BY PointingAssumption DEF PointingInit, Rectangles
    <3>2. size \in [Axes -> MediaSizes \union {Unset}]
      BY DEF PointingInit, Axes
    <3> QED BY <3>1, <3>2 DEF PointingInit, PointTypes, Places, Axes
  <2>2. ScrollKept /\ GeometryKnown /\ SentWhereSeen /\ OverlayFollows
    BY DEF PointingInit, ScrollKept, GeometryKnown, SentWhereSeen, OverlayFollows, Axes, Abs
  <2> QED BY <2>1, <2>2 DEF PointInv
<1>2. PointInv /\ [PointingNext]_pointingVars => PointInv'
  <2> SUFFICES ASSUME PointInv, [PointingNext]_pointingVars PROVE PointInv'
    OBVIOUS
  <2>1. CASE UNCHANGED pointingVars
    <3>1. Geometry' = Geometry /\ UNCHANGED <<pictureVars, geometry, noticed, desktop, controlled, pointerAt, overlay, queuedMove, scrollVars, wire>>
      BY <2>1 DEF pointingVars, pictureVars, Geometry, Scale
    <3>2. PointTypes' /\ ScrollKept'
      BY <3>1, ScrollStays DEF PointInv, PointTypes, pictureVars
    <3>3. GeometryKnown' /\ OverlayFollows'
      BY <3>1 DEF PointInv, GeometryKnown, OverlayFollows, pictureVars
    <3>4. SentWhereSeen'
      <4>1. \A media : Painted(media)' = Painted(media)
        BY <3>1, Zenon DEF Painted, pictureVars
      <4>2. SentWhereSeen
        BY DEF PointInv
      <4> QED BY <3>1, <4>1, <4>2 DEF SentWhereSeen, PointsAt, pictureVars
    <3> QED BY <3>2, <3>3, <3>4 DEF PointInv
  <2>2. CASE \E q \in Points : \/ PointerMoves(q) \/ Press(q)
                               \/ \E d \in Wheels, u \in {1, 18, PageHeight} : WheelTurns(q, d, u)
    <3>1. PageHeight \in Int
      BY DEF PageHeight, PointInv, PointTypes, Rectangles
    <3> QED BY <2>2, <3>1, PointerMovesKeeps, PressKeeps, WheelTurnsKeeps
  <2>3. CASE Observed \/ MoveFrame \/ StageBlur \/ Control \/ PointerLeaves \/ Target
             \/ (\E l \in Layouts : Layout(l)) \/ (\E v \in Axes : \E s \in Sizes[v] : VideoSize(v, s))
             \/ \E m \in {"fit", "fill"}, v \in Axes : Shown(m, v)
    BY <2>3, ChangesKeep, QuietStepsKeep, RefreshStepsKeep, MoveFrameKeeps
  <2> QED BY <2>1, <2>2, <2>3 DEF PointingNext
<1> QED BY <1>1, <1>2, PTL DEF PointingSpec

\* A press, a release and a wheel reach the remote screen where the user sees the pointer, a move does unless
\* the page has not been told yet of the layout, the overlay follows, and no wheel step is lost.
THEOREM PointingIsTrue == PointingSpec => []PointerIsTrue
<1>1. PointInv => PointerIsTrue
  BY DEF PointInv, ScrollKept, PointerIsTrue
<1> QED BY <1>1, PointingInvariance, PTL
=============================================================================
