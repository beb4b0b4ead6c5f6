------------------------------ MODULE RemoteCursor ------------------------------
(***************************************************************************)
(* The cursor of the remote device on the page: the messages of the control *)
(* channel that carry it (browserRemoteSession.ts), what a shape asks for  *)
(* (remoteCursor.ts), and useRemoteCursorController.ts, which shows it as a *)
(* CSS cursor of the stage or as an overlay that follows the pointer.      *)
(*                                                                         *)
(* A shape is the n-th the device sent; its image is told apart only by    *)
(* what the page has to do with it.  An object URL is named by its shape   *)
(* and whether it is the original image or the resized one.  The generation *)
(* of the page's resource is modelled by the shape it belongs to, 0 after a *)
(* reset: a resize that was started for another shape is a stale one in    *)
(* both.  Positions, names of cursors and colours are left out.            *)
(***************************************************************************)
EXTENDS Integers

CONSTANTS
  Displays,  \* the displays of the device whose input can be chosen
  None,
  Engines,   \* browsers: which of "image", "image-set" they accept as a cursor
  MaxShapes  \* bound: shapes the device sends

VARIABLES
  engine,   \* supportsCursorImageRef, supportsCursorImageSetRef
  shapes,   \* shapes so far
  display,  \* remoteInputDisplayId of the session, or None
  cursor,   \* presentationRef: the image it asks for, and the display it is of
  resource, \* resourceRef: its shape (0: none), originalUrl and resizedUrl
  urls,     \* the object URLs that were created and not revoked
  resizing, \* the shapes a resize is under way for
  pointer,  \* pointerInsideRef, and whether pointerTypeRef is another than "mouse"
  controls, \* activeRef: input control is active
  css,      \* --remote-cursor: "unset", "none", or a cursor with an image (of this URL) or without
  overlayMode, \* overlayModeRef
  overlay   \* the overlay: "absent", "new" (since it was rendered), "hidden" or "visible",
            \* and its background image

cursorVars == <<engine, shapes, display, cursor, resource, urls, resizing, pointer,
                controls, css, overlayMode, overlay>>

(* requiresImageResize of "dense" and "huge"; a "huge" one is above          *)
(* maxRenderedDimension, an "invalid" one was refused by validateCursorPng.  *)
Images == {"hidden", "invalid", "fits", "dense", "huge"}

DefaultCursor == [image |-> "invalid", screen |-> None]
NoResource    == [shape |-> 0, original |-> None, resized |-> None]

CursorInit ==
  /\ engine \in Engines
  /\ shapes = 0 /\ display = None
  /\ cursor = DefaultCursor /\ resource = NoResource /\ urls = {} /\ resizing = {}
  /\ pointer = [inside |-> FALSE, touch |-> FALSE]
  /\ controls = FALSE /\ css = [kind |-> "unset", url |-> None]
  /\ overlayMode = FALSE /\ overlay = [state |-> "absent", image |-> None]

-----------------------------------------------------------------------------
(* applyCursor.                                                              *)

Url(n, kind) == <<n, kind>>
UrlsOf(r)  == {r.original, r.resized} \ {None}
Resizes(c) == c.image \in {"dense", "huge"}

(* The original is shown in an image-set, scaled by the browser.             *)
UsesImageSet(c, r) == r.original # None /\ c.image = "dense" /\ "image-set" \in engine

(* cssImage                                                                  *)
CssImage(c, r) ==
  IF r.resized # None THEN r.resized
  ELSE IF UsesImageSet(c, r) \/ ~Resizes(c) THEN r.original ELSE None

NeedsOverlay(c, r, p) ==
  \/ p.touch
  \/ ~UsesImageSet(c, r) /\ Resizes(c) /\ r.resized = None
  \/ ~UsesImageSet(c, r) /\ CssImage(c, r) # None /\ "image" \notin engine

NoCursor == [kind |-> "none", url |-> None]

Hidden(o) == [o EXCEPT !.state = IF o.state = "absent" THEN "absent" ELSE "hidden"]

(* The cursor c with resource r for pointer p, over the overlay o            *)
Apply(c, r, p, o, active) ==
  IF ~active \/ c.image = "hidden" \/ ~NeedsOverlay(c, r, p)
  THEN /\ css' = IF ~active THEN [kind |-> "unset", url |-> None]
                 ELSE IF c.image = "hidden" THEN NoCursor
                 ELSE [kind |-> "cursor", url |-> CssImage(c, r)]
       /\ overlayMode' = FALSE
       /\ overlay' = Hidden(o)
  ELSE /\ css' = NoCursor /\ overlayMode' = TRUE
       /\ overlay' = IF o.state = "absent" THEN o
                     ELSE [state |-> IF p.inside THEN "visible" ELSE "hidden", image |-> r.original]

-----------------------------------------------------------------------------
(* What the device says.                                                     *)

(* resetRemoteCursor, over the overlay o                                     *)
ResetRemoteCursor(o, active) ==
  /\ cursor' = DefaultCursor /\ resource' = NoResource
  /\ urls' = urls \ UrlsOf(resource)
  /\ Apply(DefaultCursor, NoResource, pointer, o, active)
  /\ controls' = active
  /\ UNCHANGED <<engine, shapes, resizing, pointer>>

(* applyRemoteCursorShape drops the cursor of another display.               *)
Accepts(screen) == screen = None \/ display = None \/ screen = display

(* handleRemoteCursorShape                                                   *)
Show(c) ==
  LET n == shapes + 1
      r == [shape |-> n, resized |-> None,
            original |-> IF c.image \in {"fits", "dense", "huge"} THEN Url(n, "original") ELSE None]
  IN /\ cursor' = c /\ resource' = r
     /\ urls' = (urls \ UrlsOf(resource)) \union UrlsOf(r)
     /\ Apply(c, r, pointer, overlay, controls)
     /\ resizing' = IF Resizes(c) /\ ~UsesImageSet(c, r) THEN resizing \union {n} ELSE resizing

(* A message with the shape of the cursor on `screen`                        *)
ShapeComes(image, screen) ==
  /\ shapes < MaxShapes /\ shapes' = shapes + 1
  /\ IF Accepts(screen)
     THEN Show([image |-> image, screen |-> screen])
     ELSE UNCHANGED <<cursor, resource, urls, resizing, css, overlayMode, overlay>>
  /\ UNCHANGED <<engine, display, pointer, controls>>

(* applyCaptureChangeInputIndex: the device captures display d (None: one    *)
(* that needs no index).                                                     *)
CaptureChanges(d) ==
  /\ d # display /\ display' = d
  /\ ResetRemoteCursor(overlay, controls)

FaultyBelongs(n) == resource.shape # 0

(* A resize belongs to the shape the page shows.                             *)
Belongs(n) == resource.shape = n

(* resizeCursorPng of shape n settles, with a picture or without.            *)
ResizeSettles(n) ==
  /\ n \in resizing /\ resizing' = resizing \ {n}
  /\ \/ /\ Belongs(n)
        /\ resource' = [resource EXCEPT !.resized = Url(n, "resized")]
        /\ urls' = (urls \ {resource.resized}) \union {Url(n, "resized")}
        /\ Apply(cursor, resource', pointer, overlay, controls)
     \/ UNCHANGED <<resource, urls, css, overlayMode, overlay>>
  /\ UNCHANGED <<engine, shapes, display, cursor, pointer, controls>>

-----------------------------------------------------------------------------
(* The page.                                                                 *)

(* updatePointer                                                             *)
PointerMoves(touch) ==
  LET p == [inside |-> TRUE, touch |-> touch]
  IN /\ pointer' = p
     /\ IF pointer # p \/ overlay.state \in {"absent", "new"}
        THEN Apply(cursor, resource, p, overlay, controls)
        ELSE UNCHANGED <<css, overlayMode, overlay>>
  /\ UNCHANGED <<engine, shapes, display, cursor, resource, urls, resizing, controls>>

(* leavePointer                                                              *)
PointerLeaves ==
  /\ pointer.inside /\ pointer' = [pointer EXCEPT !.inside = FALSE]
  /\ overlay' = IF overlay.state = "new" THEN overlay ELSE Hidden(overlay)
  /\ UNCHANGED <<engine, shapes, display, cursor, resource, urls, resizing,
                 controls, css, overlayMode>>

(* The effect of `active`: input control was turned on or off.               *)
ControlChanges(active) ==
  /\ controls' = active
  /\ Apply(cursor, resource, pointer, overlay, active)
  /\ UNCHANGED <<engine, shapes, display, cursor, resource, urls, resizing, pointer>>

(* The stage is rendered with a video or without: its overlay comes or goes. *)
OverlayFor(video) ==
  IF ~video THEN [state |-> "absent", image |-> None]
  ELSE IF overlay.state = "absent" THEN [state |-> "new", image |-> None] ELSE overlay

-----------------------------------------------------------------------------
(* The cursor the page shows (useRemoteCursorController).  No object URL is  *)
(* lost or shown after it was revoked, the resized picture is one of the     *)
(* shape on the page, whenever its resize settles, and the shape is one of   *)
(* the display whose input is controlled.                                    *)
CursorIsTheDevices ==
  /\ urls = UrlsOf(resource)
  /\ css.url \in urls \union {None}
  /\ overlay.state = "visible" => overlay.image \in urls \union {None}
  /\ resource.resized # None => resource.resized = Url(resource.shape, "resized")
  /\ display # None => cursor.screen \in {None, display}
  /\ controls /\ pointer.inside /\ cursor.image # "hidden" /\ overlay.state \in {"hidden", "visible"} =>
       (overlay.state = "visible" <=> css.kind = "none")

=============================================================================
