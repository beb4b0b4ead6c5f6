------------------------------ MODULE RemoteWire ------------------------------
(***************************************************************************)
(* What goes over the data channels of one browser session after another:  *)
(* BrowserRemoteChannels with its own channels and those the device        *)
(* creates, the protobuf messages of the control channel, and the parts of *)
(* BrowserRemoteSession that they change and that the page is shown.       *)
(*                                                                         *)
(* The page's callbacks are not bound to a session: whatever a session     *)
(* calls back reaches the page, whichever session the page has by then.    *)
(* A frame that comes as a Blob is converted asynchronously; conversions   *)
(* may end in any order and after their session.                           *)
(***************************************************************************)
EXTENDS Integers, Sequences, FiniteSets, FiniteSetsExt

CONSTANTS
  Displays,    \* display identifiers; 0 would not be on the wire
  Missing,     \* an optional field that is not there
  MaxObjects,  \* bound: sessions one after the other
  MaxFrames,   \* bound: frames and announcements of the device
  MaxSends     \* bound: inputs and texts of the user

ASSUME WireAssumption ==
  /\ Displays \subseteq Nat \ {0}
  /\ Missing \notin Nat \union {"request", "response", "desktop", "mumu", "input", "text"}
  /\ Missing \notin [action : {"response", Missing}, args : Nat \union {Missing}]
  /\ Missing \notin [action : {"request", "response"}, seq : Nat \union {Missing}]
  /\ Missing \notin [type : {"desktop", "mumu", Missing}, id : Displays \union {Missing}]
  /\ {MaxObjects, MaxFrames, MaxSends} \subseteq Nat

VARIABLES
  blobs,       \* the browser ignores binaryType and hands out Blobs
  made,        \* session objects so far, numbered from 1
  current,     \* sessionRef: the page's session, 0 without one
  objects,     \* the state of each session object
  link,        \* the current session's own control and text channels
  fromDevice,  \* the device created a control channel of its own
  converting,  \* frames that came as Blobs
  painted,     \* the state the page shows, and the session that set it
  shape,       \* the pointer shape the page shows, and the session that set it
  unanswered,  \* history: echo requests not answered, but for those that cannot be
  wrong,       \* history: something was answered that nobody asked for
  announced,   \* history: the display the device wants inputs for
  overtaken,   \* history: a frame was lost in conversion, or overtaken by one
  strayed,     \* history: an input went to another display than wanted
  top,         \* history: the number of the last message sent
  frames, sends

objectVars == <<made, current>>
shownVars == <<painted, shape>>
echoVars == <<unanswered, wrong>>
displayVars == <<announced, overtaken, strayed>>
boundVars == <<frames, sends>>
wireVars == <<blobs, objectVars, objects, link, fromDevice, converting, shownVars,
              echoVars, displayVars, top, boundVars>>

Objects == 1..MaxObjects
Labels == {"control", "text"}
Alike(state) == [l \in Labels |-> state]

\* the fields of a session that its messages change; live: its generation is
\* current and its peer was created
Fresh == [live |-> FALSE, desktop |-> FALSE, input |-> Missing, display |-> Missing,
          sequence |-> 1, states |-> Alike("closed")]

\* what of it the page shows
ViewOf(state) == [input |-> state.input, display |-> state.display, states |-> state.states]

WireInit ==
  /\ blobs \in BOOLEAN
  /\ made = 0 /\ current = 0
  /\ objects = [o \in Objects |-> Fresh]
  /\ link = Alike("closed") /\ fromDevice = FALSE /\ converting = {}
  /\ painted = [by |-> 0, as |-> ViewOf(Fresh)] /\ shape = Missing
  /\ unanswered = {} /\ wrong = FALSE
  /\ announced = Missing /\ overtaken = FALSE /\ strayed = FALSE
  /\ top = 0 /\ frames = 0 /\ sends = 0

(***************************************************************************)
(* Messages.  A frame is a sequence of fields, in the order of the wire; a *)
(* field that has its proto3 default is not there.                         *)
(***************************************************************************)
Field(tag, value) == <<[tag |-> tag, value |-> value]>>
Unless(default, value) == IF value = default THEN Missing ELSE value
Or(value, default) == IF value = Missing THEN default ELSE value

\* encodeSimpleAction: the number that is asked for, or answered, is in args
SimpleAction(number, action, args) ==
  Field("sequence", number) \o Field("simple", [action |-> Unless("request", action), args |-> args])

\* encodeStreamerRomMessage
RomMessage(number, type, display) ==
  Field("sequence", number) \o
  Field("rom", [type |-> Unless("input", type), display |-> display])

\* the device's: which display its inputs go to, and a pointer shape
Capture(number, type, id) ==
  Field("sequence", number) \o Field("capture", [type |-> Unless("desktop", type), id |-> id])
Shape(number, screen) == Field("sequence", number) \o Field("shape", screen)

\* what the device may send as its nth message, with the number it wants an
\* answer to and the display it wants inputs for, if it says so; the numbers
\* in args are not those of messages; the last is no message at all
Says(frame, asks, wants) == [frame |-> frame, asks |-> asks, wants |-> wants]
DeviceMessages(n) ==
  {Says(SimpleAction(n, "request", n + MaxFrames), n + MaxFrames, {}),
   Says(SimpleAction(n, "request", Missing), n, {}),
   Says(SimpleAction(n, "response", n), Missing, {}),
   Says(Shape(n, Missing), Missing, {}),
   Says(Capture(n, "desktop", Missing), Missing, {Missing}),
   Says(<<>>, Missing, {})}
  \cup {Says(Capture(n, "mumu", d), Missing, {d}) : d \in Displays}
  \cup {Says(Shape(n, d), Missing, {}) : d \in Displays}

\* decodeStreamerControlMessage: the last field of a kind counts
LastOf(frame, tag) ==
  LET at == {i \in DOMAIN frame : frame[i].tag = tag}
  IN IF at = {} THEN Missing ELSE frame[Max(at)].value

\* decodeSimpleAction, decodeCaptureChange, decodeSendToRom and
\* decodeSystemStateChange fill in the defaults
SimpleOf(frame) ==
  LET s == LastOf(frame, "simple")
  IN IF s = Missing THEN Missing ELSE [action |-> Or(s.action, "request"), seq |-> s.args]
CaptureOf(frame) ==
  LET c == LastOf(frame, "capture")
  IN IF c = Missing THEN Missing ELSE [type |-> Or(c.type, "desktop"), id |-> c.id]
RomOf(frame) ==
  LET r == LastOf(frame, "rom") IN [type |-> Or(r.type, "input"), display |-> r.display]
HasShape(frame) == \E i \in DOMAIN frame : frame[i].tag = "shape"

\* the number an echo request asks to be answered with
AskedBy(frame) ==
  IF SimpleOf(frame) = Missing \/ SimpleOf(frame).action # "request" THEN Missing
  ELSE Or(SimpleOf(frame).seq, LastOf(frame, "sequence"))

(***************************************************************************)
(* Sessions come and go.                                                   *)
(***************************************************************************)
\* setState of a session object
Paints(o, state) == objects' = [objects EXCEPT ![o] = state] /\ painted' = [by |-> o, as |-> ViewOf(state)]

\* close: the channels lose their handlers and are closed, the page loses its
\* shape; frames being converted stay
CloseObject(o) ==
  /\ Paints(o, Fresh)
  /\ shape' = Missing
  /\ link' = Alike("closed") /\ fromDevice' = FALSE
  /\ announced' = Missing /\ overtaken' = FALSE /\ top' = 0 /\ unanswered' = {}
Untouched == UNCHANGED <<objects, painted, shape, link, fromDevice, announced, overtaken, top, unanswered>>

\* start of the page's controller: the superseded session is closed first
ObjectStarts ==
  /\ made < MaxObjects
  /\ IF current # 0 THEN CloseObject(current) ELSE Untouched
  /\ made' = made + 1 /\ current' = made + 1
  /\ UNCHANGED <<blobs, converting, wrong, strayed, boundVars>>

\* the control was acknowledged: the peer and its channels are created
ObjectReady ==
  /\ current = made /\ current # 0 /\ ~objects[current].live /\ painted.by # current
  /\ \E desktop \in BOOLEAN :
       Paints(current, [Fresh EXCEPT !.live = TRUE, !.desktop = desktop, !.states = Alike("connecting")])
  /\ link' = Alike("connecting")
  /\ UNCHANGED <<blobs, objectVars, fromDevice, converting, shape, echoVars, displayVars, top, boundVars>>

\* the session fails and stays the page's
ObjectFails ==
  /\ current # 0 /\ objects[current].live
  /\ CloseObject(current)
  /\ UNCHANGED <<blobs, objectVars, converting, wrong, strayed, boundVars>>

PageCloses ==
  /\ current # 0 /\ CloseObject(current) /\ current' = 0
  /\ UNCHANGED <<blobs, made, converting, wrong, strayed, boundVars>>

(***************************************************************************)
(* Channels.                                                               *)
(***************************************************************************)
Live == current # 0 /\ objects[current].live
ChannelsOnly == UNCHANGED <<blobs, objectVars, converting, shape, echoVars, displayVars, top, boundVars>>

\* updateDataChannelState: a change of what the session last published
Publishes(l, state) ==
  IF objects[current].states[l] = state THEN UNCHANGED <<objects, painted>>
  ELSE Paints(current, [objects[current] EXCEPT !.states[l] = state])

\* a channel opens or is closed, and says so; one that is closing does not
OwnChannelChanges(l) ==
  /\ Live /\ UNCHANGED fromDevice /\ ChannelsOnly
  /\ \/ /\ link[l] = "connecting" /\ link' = [link EXCEPT ![l] = "open"] /\ Publishes(l, "open")
     \/ /\ link[l] = "open" /\ link' = [link EXCEPT ![l] = "closing"] /\ UNCHANGED <<objects, painted>>
     \/ /\ link[l] # "closed" /\ link' = [link EXCEPT ![l] = "closed"] /\ Publishes(l, "closed")

\* attachIncoming: a channel of the device is listened to, never sent on
DeviceChannelChanges ==
  /\ Live /\ fromDevice' = ~fromDevice
  /\ UNCHANGED <<objects, painted, link>> /\ ChannelsOnly

(***************************************************************************)
(* Frames of the device.                                                   *)
(***************************************************************************)
\* sendEchoResponse: only on the own channel; the number is spent even when
\* the send throws
Answer(o, seq, state, due) ==
  IF o # current \/ link.control # "open"
  THEN objects' = [objects EXCEPT ![o] = state] /\ unanswered' = due \ {seq} /\ UNCHANGED <<wrong, top>>
  ELSE /\ objects' = [objects EXCEPT ![o] = [state EXCEPT !.sequence = @ + 1]]
       /\ \/ unanswered' = due \ {seq} /\ UNCHANGED <<wrong, top>>
          \/ LET heard == SimpleOf(SimpleAction(state.sequence, "response", seq))
             IN /\ wrong' = (wrong \/ heard.action # "response" \/ heard.seq \notin due)
                /\ unanswered' = due \ {heard.seq}
                /\ top' = state.sequence

\* handleControlDataMessage: first the display for inputs, which clears the
\* shape, then the pointer shape, unless it is another display's, then echo
Handle(o, frame, due) ==
  LET c == CaptureOf(frame)
      asked == AskedBy(frame)
      input == IF c = Missing THEN objects[o].input
               ELSE IF c.type = "mumu" THEN c.id ELSE Missing
      changed == input # objects[o].input
      state == [objects[o] EXCEPT !.input = input]
      screen == LastOf(frame, "shape")
      others == screen # Missing /\ input # Missing /\ screen # input
  IN /\ painted' = IF changed THEN [by |-> o, as |-> ViewOf(state)] ELSE painted
     /\ shape' = IF HasShape(frame) /\ ~others THEN [by |-> o, screen |-> screen]
                   ELSE IF changed THEN Missing ELSE shape
     /\ IF asked = Missing
        THEN objects' = [objects EXCEPT ![o] = state] /\ unanswered' = due /\ UNCHANGED <<wrong, top>>
        ELSE Answer(o, asked, state, due)

\* a frame comes, on the own control channel or on the device's
FrameComes ==
  /\ Live /\ frames < MaxFrames /\ frames' = frames + 1
  /\ link.control \in {"open", "closing"} \/ fromDevice
  /\ \E m \in DeviceMessages(frames + 1) :
       LET asked == unanswered \cup ({m.asks} \ {Missing}) IN
       /\ announced' = IF m.wants = {} THEN announced ELSE CHOOSE d \in m.wants : TRUE
       /\ IF blobs
          THEN /\ converting' = converting \cup {[of |-> current, n |-> frames + 1, frame |-> m.frame, asks |-> m.asks]}
               /\ unanswered' = asked /\ UNCHANGED <<objects, painted, shape, wrong, top>>
          ELSE Handle(current, m.frame, asked) /\ UNCHANGED converting
  /\ UNCHANGED <<blobs, objectVars, link, fromDevice, overtaken, strayed, sends>>

\* a conversion ends, or fails; its session may be gone, or may have been given
\* a later frame before
FaultyConverted(c) ==
  /\ converting' = converting \ {c}
  /\ Handle(c.of, c.frame, unanswered)
  /\ overtaken' = (overtaken \/ \E e \in converting : e.of = c.of /\ e.n < c.n)
  /\ UNCHANGED <<blobs, objectVars, link, fromDevice, announced, strayed, boundVars>>
Converted(c) ==
  /\ converting' = converting \ {c}
  /\ IF objects[c.of].live
     THEN /\ Handle(c.of, c.frame, unanswered)
          /\ overtaken' = (overtaken \/ \E e \in converting : e.of = c.of /\ e.n < c.n)
     ELSE UNCHANGED <<objects, painted, shape, echoVars, top, overtaken>>
  /\ UNCHANGED <<blobs, objectVars, link, fromDevice, announced, strayed, boundVars>>

ConversionFails(c) ==
  /\ converting' = converting \ {c}
  /\ overtaken' = (overtaken \/ objects[c.of].live)
  /\ unanswered' = unanswered \ {c.asks}
  /\ UNCHANGED <<blobs, objectVars, objects, link, fromDevice, shownVars, wrong, announced, strayed, top, boundVars>>

\* applyRemoteDisplayCapability: a forward_setting or device_capability event
DisplayAnnounced(d) ==
  /\ Live /\ frames < MaxFrames /\ frames' = frames + 1
  /\ d # objects[current].display
  /\ Paints(current, [objects[current] EXCEPT !.display = d])
  /\ UNCHANGED <<blobs, objectVars, link, fromDevice, converting, shape, echoVars, displayVars, top, sends>>

(***************************************************************************)
(* Inputs and texts of the user.                                           *)
(***************************************************************************)
\* resolveInputDisplayId
InputDisplay(state) == Or(state.input, state.display)

\* the device reads a display from every envelope: the one it wants inputs for
Settled == ~overtaken /\ \A c \in converting : c.of # current
Strays(l, message) ==
  /\ message # Missing
  /\ LET heard == RomOf(message)
     IN \/ heard.type # (IF l = "text" THEN "text" ELSE "input")
        \/ heard.display # (IF l = "text" THEN announced ELSE Or(announced, objects[current].display))

\* a message goes out, or its channel is not open or throws; its number is
\* spent in each case
Sends(l, message) ==
  /\ current # 0 /\ sends < MaxSends /\ sends' = sends + 1
  /\ objects' = [objects EXCEPT ![current].sequence = @ + 1]
  /\ \/ UNCHANGED <<top, strayed>>
     \/ /\ link[l] = "open" /\ top' = objects[current].sequence
        /\ strayed' = (strayed \/ (Settled /\ Strays(l, message)))
  /\ UNCHANGED <<blobs, objectVars, link, fromDevice, converting, shownVars, echoVars,
                 announced, overtaken, frames>>

\* sendInputData: on a desktop the input itself, which names no display
SendInput ==
  LET state == objects[current]
  IN Sends("control", IF state.desktop THEN Missing
                      ELSE RomMessage(state.sequence, "input", InputDisplay(state)))

\* sendPastedText: typed on a desktop, else on the text channel
SendText ==
  IF current # 0 /\ objects[current].desktop THEN SendInput
  ELSE Sends("text", RomMessage(objects[current].sequence, "text", objects[current].input))

-----------------------------------------------------------------------------
WireNext ==
  \/ ObjectStarts \/ ObjectReady \/ ObjectFails \/ PageCloses
  \/ \E l \in Labels : OwnChannelChanges(l)
  \/ DeviceChannelChanges \/ FrameComes
  \/ \E c \in converting : Converted(c) \/ ConversionFails(c)
  \/ \E d \in Displays : DisplayAnnounced(d)
  \/ SendInput \/ SendText

WireSpec == WireInit /\ [][WireNext]_wireVars

-----------------------------------------------------------------------------
\* What the page shows is the state of its present session, or of one that was
\* closed and not yet followed: nothing that is converted late, published by a
\* channel or sent brings a former session's state or shape back
\* (browserRemoteSession.ts calls the page's callbacks unguarded).
PageHearsItsSession ==
  /\ painted.by # 0 => painted.as = ViewOf(objects[painted.by])
  /\ painted.by # current => painted.as = ViewOf(Fresh)
  /\ shape # Missing => shape.by = current /\ objects[current].live

\* The pointer shape shown is one of the display that the inputs go to.
ShapeOfInputDisplay ==
  Live /\ shape # Missing => shape.screen = Missing \/ objects[current].input \in {Missing, shape.screen}

\* Once every frame is converted, in order and none lost, inputs go to the
\* display the device asked for last (applyCaptureChangeInputIndex), and so
\* did the envelopes sent at such times.
InputsGoWhereWanted == ~strayed /\ (Live /\ Settled => objects[current].input = announced)

\* Every echo request is answered once and with the number it asks for, unless
\* the own channel is not open or throws, and nothing else is answered.
EchoesAreAnswered == ~wrong /\ (Live /\ (\A c \in converting : c.of # current) => unanswered = {})

\* A number is used for one message only, although inputs, texts and echo
\* answers share them and some sends fail.
NumbersAreFresh == Live => top < objects[current].sequence

WireIsOwn ==
  /\ PageHearsItsSession /\ ShapeOfInputDisplay /\ InputsGoWhereWanted
  /\ EchoesAreAnswered /\ NumbersAreFresh
=============================================================================
