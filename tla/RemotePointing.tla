---------------------------- MODULE RemotePointing ----------------------------
(***************************************************************************)
(* Where on the remote screen the user points and how far it scrolls:      *)
(* useRemoteMediaGeometry.ts, remoteMediaGeometry.ts, remoteScrollInput.ts *)
(* and the senders of useRemoteInputController.ts that use them, for a page *)
(* with two videos one of which is shown.                                  *)
(*                                                                         *)
(* The browser lays the stage out, paints the picture into it and tells the *)
(* page later, by its observers and events (resize, scroll, loadedmetadata, *)
(* playing, a mutation); until then the page knows a former layout.        *)
(*                                                                         *)
(* A point is <<x, y>> in client pixels.  Numbers are exact: a fraction is *)
(* kept as numerator and denominator, a wheel delta in halves of a pixel   *)
(* and what remains of it in quarters.  What RemoteInput says of queues,   *)
(* captured pointers and a channel that does not send is left out here.    *)
(***************************************************************************)
EXTENDS Integers

CONSTANTS
  Layouts,  \* rectangles of the stage: [left, top, width, height]
  Sizes,    \* the sizes each of the two videos may have: <<width, height>>
  Points,   \* where the pointer may be
  Wheels,   \* deltas of a wheel event: <<x, y>>
  Unset

ASSUME PointingAssumption ==
  /\ Layouts \subseteq [left : Int, top : Int, width : Nat, height : Nat]
  /\ \A v \in {1, 2} : Sizes[v] \subseteq (Nat \ {0}) \X (Nat \ {0})
  /\ Points \subseteq Int \X Int /\ Wheels \subseteq Int \X Int
  /\ Unset \notin Sizes[1] \union Sizes[2] \union Points
  /\ Unset \notin [rect : [left : Int, top : Int, width : Nat, height : Nat], media : Nat \X Nat, scale : Nat \X Nat]

VARIABLES
  layout,     \* where the stage is
  mode,       \* remoteStageViewMode: "fit" or "fill"
  size,       \* of the two videos; Unset before the metadata have come
  video,      \* the one shown (data-active)
  geometry,   \* geometryRef.current, or Unset
  noticed,    \* history: nothing has changed since geometryRef was set
  desktop,    \* targetPlatform is Windows or macOS
  controlled, \* inputControlActive
  pointerAt,  \* lastPointerRef while the pointer is inside, or Unset
  overlay,    \* the overlay's offset in the stage, or Unset
  queuedMove, \* pendingPointerMoveRef
  remainder,  \* of the wheel, in quarters of a pixel
  owed,       \* history: what the user has scrolled since the last reset, less what was sent
  wire        \* what the last step sent, or Unset

pictureVars == <<layout, mode, size, video>>
scrollVars  == <<remainder, owed>>
pointingVars == <<pictureVars, geometry, noticed, desktop, controlled, pointerAt, overlay, queuedMove, scrollVars, wire>>

Axes == {1, 2}

-----------------------------------------------------------------------------
(* The geometry.                                                             *)

FaultyScaleOf(rect, media, fill) ==
  IF rect.width * media[2] <= rect.height * media[1]
  THEN <<rect.width, media[1]>> ELSE <<rect.height, media[2]>>

(* The lesser of the two scales, or the greater one if the picture is to fill *)
(* the stage, as <<numerator, denominator>>.                                 *)
ScaleOf(rect, media, fill) ==
  IF (rect.width * media[2] <= rect.height * media[1]) # fill
  THEN <<rect.width, media[1]>> ELSE <<rect.height, media[2]>>

(* computeRemoteMediaGeometry of the video shown; before its metadata have   *)
(* come it counts as large as the stage.                                     *)
Computed ==
  LET media == IF size'[video'] # Unset THEN size'[video'] ELSE <<layout'.width, layout'.height>>
  IN  IF layout'.width = 0 \/ layout'.height = 0 THEN Unset
      ELSE [rect |-> layout', media |-> media, scale |-> ScaleOf(layout', media, mode' = "fill")]

(* updateOverlayPosition, the hotspot at the corner of the picture           *)
OverlayPosition ==
  overlay' = IF geometry' = Unset \/ pointerAt' = Unset THEN overlay
             ELSE <<pointerAt'[1] - geometry'.rect.left, pointerAt'[2] - geometry'.rect.top>>

(* refreshGeometry, which tells the overlay                                  *)
RefreshGeometry == geometry' = Computed /\ noticed' = TRUE /\ OverlayPosition

Rounded(n, d) == (2 * n + d) \div (2 * d)
Within(n, low, high) == IF n < low THEN low ELSE IF n > high THEN high ELSE n

(* clientPointToRemoteMedia times the size of the media, rounded             *)
PixelAt(g, point) ==
  LET n == g.scale[1]  d == g.scale[2]
      corner == <<g.rect.left, g.rect.top>>
      stage  == <<g.rect.width, g.rect.height>>
      Pixel(a) == Rounded(Within(2 * (point[a] - corner[a]) * d - stage[a] * d + g.media[a] * n,
                                 0, 2 * n * g.media[a]), 2 * n)
  IN  <<Pixel(1), Pixel(2)>>

(* A desktop is sent fractions of the surface, others its pixels.            *)
MoveMessage(g, point) ==
  [at |-> PixelAt(g, point), of |-> IF desktop THEN g.media ELSE <<1, 1>>]

-----------------------------------------------------------------------------
(* The browser.                                                              *)

Changed ==
  /\ noticed' = FALSE /\ wire' = Unset
  /\ UNCHANGED <<geometry, desktop, controlled, pointerAt, overlay, queuedMove, scrollVars>>

Layout(l) == l # layout /\ layout' = l /\ Changed /\ UNCHANGED <<mode, size, video>>

(* The metadata come, or the picture changes its size.                       *)
VideoSize(v, s) == s # size[v] /\ size' = [size EXCEPT ![v] = s] /\ Changed /\ UNCHANGED <<layout, mode, video>>

(* An observer or an event calls refreshGeometry.                            *)
Observed ==
  /\ ~noticed /\ wire' = Unset
  /\ UNCHANGED <<pictureVars, desktop, controlled, pointerAt, queuedMove, scrollVars>>
  /\ RefreshGeometry

(* The effect of the view mode and of the video shown runs anew.             *)
Shown(m, v) ==
  /\ <<m, v>> # <<mode, video>>
  /\ mode' = m /\ video' = v /\ wire' = Unset
  /\ UNCHANGED <<layout, size, desktop, controlled, pointerAt, queuedMove, scrollVars>>
  /\ RefreshGeometry

-----------------------------------------------------------------------------
(* Input.                                                                    *)

ResetScroll == remainder' = <<0, 0>> /\ owed' = <<0, 0>>

(* handleRemoteStagePointerMove, and updatePointer of the cursor             *)
PointerMoves(point) ==
  /\ pointerAt' = point
  /\ queuedMove' = IF controlled THEN point ELSE queuedMove
  /\ wire' = Unset
  /\ UNCHANGED <<pictureVars, geometry, noticed, desktop, controlled, scrollVars>>
  /\ OverlayPosition

(* sendPointerPosition of the animation frame: with the geometry that is     *)
(* known, if there is one.                                                   *)
MoveFrame ==
  /\ queuedMove # Unset /\ queuedMove' = Unset
  /\ UNCHANGED <<pictureVars, desktop, controlled, pointerAt, scrollVars>>
  /\ IF ~controlled \/ geometry # Unset THEN UNCHANGED <<geometry, noticed, overlay>> ELSE RefreshGeometry
  /\ wire' = IF ~controlled \/ geometry' = Unset THEN Unset
             ELSE [kind |-> "move", point |-> queuedMove, move |-> MoveMessage(geometry', queuedMove), scroll |-> <<0, 0>>]

(* flushPointerPosition, in the handler of an event at `point`               *)
Flushes(kind, point, scroll) ==
  /\ queuedMove' = Unset
  /\ RefreshGeometry
  /\ wire' = IF geometry' = Unset THEN Unset
             ELSE [kind |-> kind, point |-> point, move |-> MoveMessage(geometry', point), scroll |-> scroll]

(* A button goes down or up.                                                 *)
Press(point) ==
  /\ controlled /\ pointerAt' = point
  /\ UNCHANGED <<pictureVars, desktop, controlled, scrollVars>>
  /\ Flushes("press", point, <<0, 0>>)

Abs(n) == IF n < 0 THEN -n ELSE n
Truncated(n) == IF n < 0 THEN -((-n) \div 4) ELSE n \div 4

(* What a wheel event adds, in quarters of a pixel: desktops scroll half as  *)
(* fast and the other way vertically, and what is clearly meant for one axis *)
(* goes to that axis only.                                                   *)
Scrolled(delta, perUnit) ==
  LET d == [a \in Axes |-> delta[a] * perUnit * (IF desktop THEN 1 ELSE 2)]
      Drops(a) == desktop /\ 10 * Abs(d[3 - a]) >= 16 * Abs(d[a])
                  /\ (a = 2 \/ ~(10 * Abs(d[1]) >= 16 * Abs(d[2])))
  IN  <<IF Drops(1) THEN 0 ELSE d[1], IF Drops(2) THEN 0 ELSE IF desktop THEN -d[2] ELSE d[2]>>

(* RemoteScrollDeltaAccumulator.push                                         *)
Pushed(added) ==
  LET total == [a \in Axes |-> remainder[a] + added[a]]
      whole == <<Truncated(total[1]), Truncated(total[2])>>
  IN  [whole |-> whole, rest |-> <<total[1] - 4 * whole[1], total[2] - 4 * whole[2]>>]

PageHeight == IF layout.height > 0 THEN layout.height ELSE 288

(* handleRemoteStageWheel: a whole delta needs a position that can be sent.  *)
(* perUnit is 1 for pixels, 18 for lines and PageHeight for pages.           *)
WheelTurns(point, delta, perUnit) ==
  /\ controlled
  /\ LET added  == Scrolled(delta, perUnit)
         pushed == Pushed(added)
     IN  /\ remainder' = pushed.rest
         /\ UNCHANGED <<pictureVars, desktop, controlled, pointerAt>>
         /\ IF pushed.whole = <<0, 0>>
            THEN wire' = Unset /\ UNCHANGED <<geometry, noticed, overlay, queuedMove>>
            ELSE Flushes("wheel", point, pushed.whole)
         /\ owed' = <<owed[1] + added[1] - 4 * pushed.whole[1], owed[2] + added[2] - 4 * pushed.whole[2]>>

(* handleRemoteStageBlur                                                     *)
StageBlur ==
  /\ ResetScroll /\ queuedMove' = Unset /\ wire' = Unset
  /\ UNCHANGED <<pictureVars, geometry, noticed, desktop, controlled, pointerAt, overlay>>

(* resetInputControl, enableInputControl and the effect of the control channel. *)
Control ==
  /\ controlled' = ~controlled /\ wire' = Unset
  /\ IF controlled THEN ResetScroll /\ queuedMove' = Unset ELSE UNCHANGED <<scrollVars, queuedMove>>
  /\ UNCHANGED <<pictureVars, geometry, noticed, desktop, pointerAt, overlay>>

(* leavePointer                                                              *)
PointerLeaves ==
  /\ pointerAt # Unset /\ pointerAt' = Unset /\ overlay' = Unset /\ wire' = Unset
  /\ UNCHANGED <<pictureVars, geometry, noticed, desktop, controlled, queuedMove, scrollVars>>

(* Another device: the effect of targetPlatform.                             *)
Target ==
  /\ desktop' = ~desktop /\ ResetScroll /\ wire' = Unset
  /\ UNCHANGED <<pictureVars, geometry, noticed, controlled, pointerAt, overlay, queuedMove>>

-----------------------------------------------------------------------------
PointingInit ==
  /\ layout \in Layouts /\ mode = "fit" /\ size = <<Unset, Unset>> /\ video = 1
  /\ geometry = Unset /\ noticed = FALSE
  /\ desktop \in BOOLEAN /\ controlled = FALSE
  /\ pointerAt = Unset /\ overlay = Unset /\ queuedMove = Unset
  /\ remainder = <<0, 0>> /\ owed = <<0, 0>> /\ wire = Unset

PointingNext ==
  \/ \E l \in Layouts : Layout(l)
  \/ \E v \in Axes : \E s \in Sizes[v] : VideoSize(v, s)
  \/ \E m \in {"fit", "fill"}, v \in Axes : Shown(m, v)
  \/ Observed \/ MoveFrame \/ StageBlur \/ Control \/ PointerLeaves \/ Target
  \/ \E p \in Points :
       \/ PointerMoves(p) \/ Press(p)
       \/ \E d \in Wheels, u \in {1, 18, PageHeight} : WheelTurns(p, d, u)

PointingSpec == PointingInit /\ [][PointingNext]_pointingVars

-----------------------------------------------------------------------------
(* How a browser paints a picture into the stage (object-fit): as large as   *)
(* fits, or as small as fills it, and centred.                               *)
Painted(media) ==
  LET stage == <<layout.width, layout.height>>
      Fits(s)  == \A a \in Axes : media[a] * s[1] <= stage[a] * s[2]
      Fills(s) == \A a \in Axes : media[a] * s[1] >= stage[a] * s[2]
  IN  CHOOSE s \in {<<stage[a], media[a]>> : a \in Axes} :
        IF mode = "fill" THEN Fills(s) ELSE Fits(s)

(* The remote pixel is the one painted nearest to the point, on each axis;   *)
(* where the stage is not covered, the edge nearest to it.                   *)
PointsAt(point, pixel) ==
  LET media  == size[video]
      s      == Painted(media)
      corner == <<layout.left, layout.top>>
      stage  == <<layout.width, layout.height>>
      (* the client coordinate of a pixel's corner, times 2 * s[2] *)
      Place(a, p) == 2 * s[2] * corner[a] + s[2] * stage[a] + s[1] * (2 * p - media[a])
  IN  \A a \in Axes :
        /\ pixel[a] \in 0..media[a]
        /\ \/ Abs(2 * s[2] * point[a] - Place(a, pixel[a])) <= s[1]
           \/ pixel[a] = 0 /\ 2 * s[2] * point[a] < Place(a, 0)
           \/ pixel[a] = media[a] /\ 2 * s[2] * point[a] > Place(a, media[a])

(* What was sent names the pixel the user sees at the point, as the target   *)
(* counts it; a move may name it in a layout the page has not been told is   *)
(* gone.                                                                     *)
SentWhereSeen ==
  wire # Unset /\ size[video] # Unset /\ (wire.kind = "move" => noticed) =>
    /\ PointsAt(wire.point, wire.move.at)
    /\ wire.move.of = IF desktop THEN size[video] ELSE <<1, 1>>

OverlayFollows ==
  pointerAt # Unset /\ overlay # Unset /\ noticed /\ layout.width > 0 /\ layout.height > 0 =>
    overlay = <<pointerAt[1] - layout.left, pointerAt[2] - layout.top>>

(* Whatever the layout, the view and the videos went through, a press, a     *)
(* release or a wheel reaches the remote screen where the user sees the      *)
(* pointer, and a move does unless the page has not been told yet of the     *)
(* layout; so does the overlay that stands for the pointer.  However small   *)
(* the steps of the wheel, they add up to what is sent.                      *)
PointerIsTrue ==
  /\ SentWhereSeen
  /\ OverlayFollows
  /\ \A a \in Axes : Abs(owed[a]) < 4
=============================================================================
