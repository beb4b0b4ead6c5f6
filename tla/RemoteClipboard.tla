---------------------------- MODULE RemoteClipboard ----------------------------
(***************************************************************************)
(* Clipboard synchronisation of a remote session:                          *)
(*   browserRemote/clipboard.ts (BrowserRemoteClipboard: asks the remote   *)
(*   side for its text and assembles the blocks that answer) and           *)
(*   useRemoteClipboardController.ts (the page: reads and writes the local *)
(*   clipboard, both of which are asynchronous browser calls).             *)
(*                                                                         *)
(* What a JavaScript turn does together is one step here.  sendText and    *)
(* the code awaiting it run in the microtasks of one turn, so a send is    *)
(* part of the step that starts it and the checks of sendSequenceRef after *)
(* its await always hold.  enabledRevisionRef, readSequenceRef and the     *)
(* tail of remote writes are replaced at the same places: `read` and       *)
(* `writes` are the tasks of the present revision, staleReads and          *)
(* staleWrites those of earlier ones that are still running.  A request id *)
(* is a member of Keys that no message in flight and no read still uses.   *)
(***************************************************************************)
EXTENDS Integers, Sequences, FiniteSets, Functions

CONSTANTS
  Texts,     \* clipboard texts, Cut among them
  Size,      \* Texts -> Nat: the blocks a text is sent in
  EndsFull,  \* the texts whose last block is a full one (128 KiB)
  TooLong,   \* the texts whose blocks exceed the receiver's limit
  Cut,       \* the text assembled from some of another text's blocks
  Keys,      \* block keys of reads
  None,
  MaxActs,   \* bound: acts of the user, of the remote side and of the network
  MaxWrites  \* bound: remote texts waiting to be written locally

ASSUME TextAssumption ==
  /\ Size \in [Texts -> Nat]
  /\ EndsFull \subseteq Texts /\ TooLong \subseteq Texts
  /\ Cut \in Texts
  (* only the empty text is sent in no block *)
  /\ \A t, u \in Texts: Size[t] = 0 /\ Size[u] = 0 => t = u

ASSUME NoneAssumption ==
  /\ None \notin Texts \union Keys \union Nat \union {"resume", "user"}
  /\ None \notin [text: Texts, own: BOOLEAN]
  /\ None \notin [key: Keys, got: SUBSET [id: Nat, text: Texts], expected: Nat \union {None},
                  settle: BOOLEAN, asked: Texts]

Whole == Texts \ {Cut}

VARIABLES
  acts,        \* acts so far
  local,       \* the local clipboard
  remote,      \* the remote clipboard
  chan,        \* the TEXT and FILE channels are open
  toText,      \* messages on the way to the browser on TEXT
  toFile,      \* messages on the way to the browser on FILE
  pending,     \* pendingRead
  lastSync,    \* lastSynchronizedText
  enabled,     \* syncEnabledRef = preferredEnabledRef = state.enabled
  seen,        \* clipboardChannelsOpenRef: the channels are open as rendered
  opened,      \* clipboardChannelsOpenedRef
  autoRead,    \* autoReadAllowedRef
  synced,      \* synchronizedTextRef
  read,        \* readInFlightRef: the source of the read of this revision
  staleReads,  \* superseded reads that are still running
  writes,      \* remoteWriteTailRef: texts to write, the first being written
  staleWrites, \* local writes of earlier revisions that are still running
  copying,     \* handleCopyRemoteClipboard: the text and whether it is still shown
  shown,       \* state.reading, localText, remoteFallback, remoteStatus
  accepted,    \* history: the newest remote text taken in this revision
  assembled    \* history: the newest read that finished

net     == <<chan, toText, toFile>>
session == <<pending, lastSync, assembled>>
reads   == <<read, staleReads>>
written == <<writes, staleWrites, copying, accepted>>
page    == <<enabled, seen, opened>>
vars    == <<acts, local, remote, net, session, page, autoRead, synced, reads,
             written, shown>>

FreshShown == [reading |-> FALSE, text |-> None, fallback |-> None, status |-> "none"]

Init ==
  /\ acts = 0
  /\ local \in Whole /\ remote \in Whole
  /\ chan = FALSE /\ toText = <<>> /\ toFile = <<>>
  /\ pending = None /\ lastSync = None /\ assembled = None
  /\ enabled = TRUE /\ seen = FALSE /\ opened = FALSE
  /\ autoRead = FALSE /\ synced = None
  /\ read = None /\ staleReads = {}
  /\ writes = <<>> /\ staleWrites = {} /\ copying = None /\ accepted = None
  /\ shown = FreshShown

Act == acts < MaxActs /\ acts' = acts + 1

-----------------------------------------------------------------------------
(* Local reads and sends.                                                    *)

StartRead(source) ==
  IF read = None
  THEN /\ read' = source
       /\ shown' = [shown EXCEPT !.reading = TRUE]
       /\ UNCHANGED staleReads
  ELSE UNCHANGED <<reads, shown>>

SupersedeRead ==
  /\ staleReads' = staleReads \union ({read} \ {None})
  /\ read' = None

Unsent == UNCHANGED <<remote, lastSync, synced>>

Sent(text) ==
  IF seen /\ chan
  THEN remote' = text /\ lastSync' = text /\ synced' = text
  ELSE Unsent

(* readLocalClipboardText answers: the text is shown and sent, unless a resume
   finds it unchanged.                                                        *)
ReadServed ==
  /\ read # None
  /\ read' = None
  /\ autoRead' = TRUE
  /\ shown' = [shown EXCEPT !.reading = FALSE, !.text = local]
  /\ IF read = "resume" /\ synced = local THEN Unsent ELSE Sent(local)
  /\ UNCHANGED <<acts, local, net, pending, assembled, page, staleReads, written>>

ReadRefused ==
  /\ read # None
  /\ Act
  /\ read' = None
  /\ autoRead' = FALSE
  /\ shown' = [shown EXCEPT !.reading = FALSE]
  /\ UNCHANGED <<local, remote, net, session, page, synced, staleReads, written>>

StaleReadEnds ==
  /\ \E r \in staleReads: staleReads' = staleReads \ {r}
  /\ UNCHANGED <<acts, local, remote, net, session, page, autoRead, synced, read,
                 written, shown>>

(* focus or visibilitychange *)
Resume ==
  /\ enabled /\ autoRead
  /\ Act
  /\ StartRead("resume")
  /\ UNCHANGED <<local, remote, net, session, page, autoRead, synced, written>>

PressRead ==
  /\ ~shown.reading /\ seen
  /\ Act
  /\ StartRead("user")
  /\ UNCHANGED <<local, remote, net, session, page, autoRead, synced, written>>

PressSend ==
  /\ shown.text # None /\ seen
  /\ Act
  /\ Sent(shown.text)
  /\ UNCHANGED <<local, net, pending, assembled, page, autoRead, reads, written, shown>>

-----------------------------------------------------------------------------
(* Remote texts: applyNotification and handleRemoteClipboard.                *)

Ignored == UNCHANGED <<autoRead, synced, reads, written, shown>>

HandleRemote(text) ==
  IF ~enabled THEN Ignored
  ELSE /\ Len(writes) < MaxWrites
       /\ SupersedeRead
       /\ autoRead' = FALSE
       /\ synced' = text
       /\ writes' = Append(writes, text)
       /\ accepted' = text
       /\ copying' = IF copying = None THEN None ELSE [copying EXCEPT !.own = FALSE]
       /\ shown' = [shown EXCEPT !.reading = FALSE, !.fallback = None, !.status = "writing"]
       /\ UNCHANGED staleWrites

ApplyNotification(text) ==
  IF lastSync = text THEN UNCHANGED lastSync /\ Ignored
  ELSE lastSync' = text /\ HandleRemote(text)

FaultyWriteReports(ok) ==
  /\ autoRead' = IF ok THEN TRUE ELSE autoRead
  /\ shown' = [shown EXCEPT !.fallback = IF ok THEN None ELSE Head(writes),
                            !.status = IF ok THEN "written" ELSE "failed"]

(* The first write of the tail ends; only the newest text reports it.        *)
WriteReports(ok) ==
  IF Len(writes) > 1 THEN UNCHANGED <<autoRead, shown>>
  ELSE /\ autoRead' = IF ok THEN TRUE ELSE autoRead
       /\ shown' = [shown EXCEPT !.fallback = IF ok THEN None ELSE Head(writes),
                                 !.status = IF ok THEN "written" ELSE "failed"]

WriteEnds(ok) ==
  /\ writes # <<>>
  /\ IF ok THEN local' = Head(writes) /\ UNCHANGED acts ELSE Act /\ UNCHANGED local
  /\ WriteReports(ok)
  /\ writes' = Tail(writes)
  /\ UNCHANGED <<remote, net, session, page, synced, reads, staleWrites, copying, accepted>>

StaleWriteEnds(text, ok) ==
  /\ text \in staleWrites
  /\ staleWrites' = staleWrites \ {text}
  /\ local' = IF ok THEN text ELSE local
  /\ UNCHANGED <<acts, remote, net, session, page, autoRead, synced, reads, writes,
                 copying, accepted, shown>>

PressCopy ==
  /\ shown.fallback # None /\ copying = None
  /\ Act
  /\ copying' = [text |-> shown.fallback, own |-> TRUE]
  /\ UNCHANGED <<local, remote, net, session, page, autoRead, synced, reads, writes,
                 staleWrites, accepted, shown>>

CopyEnds(ok) ==
  /\ copying # None
  /\ copying' = None
  /\ local' = IF ok THEN copying.text ELSE local
  /\ autoRead' = IF ok THEN enabled ELSE autoRead
  /\ shown' = CASE ok /\ copying.own -> [shown EXCEPT !.fallback = None, !.status = "copied"]
                [] ok /\ ~copying.own -> shown
                [] OTHER -> [shown EXCEPT !.status = "failed"]
  /\ UNCHANGED <<acts, remote, net, session, page, synced, reads, writes, staleWrites,
                 accepted>>

-----------------------------------------------------------------------------
(* BrowserRemoteClipboard: one read at a time.                               *)

OnTheWay(k) ==
  \/ \E i \in DOMAIN toText: toText[i].kind = "confirm" /\ toText[i].key = k
  \/ \E i \in DOMAIN toFile: toFile[i].key = k

InUse(k) == OnTheWay(k) \/ (pending # None /\ pending.key = k)

Block(k, text, i) ==
  [key |-> k, text |-> text, id |-> i,
   full |-> i < Size[text] \/ text \in EndsFull,
   valid |-> text \notin TooLong]

Blocks(k, text) == [i \in 1..Size[text] |-> Block(k, text, i)]

Confirm(k, ok, n) == [kind |-> "confirm", key |-> k, ok |-> ok, count |-> n]

(* What the remote side does with a request: it answers with the block count
   and the blocks; or (an act of its own) it refuses, leaves out the count or
   stays silent.                                                             *)
RemoteAnswers(k) ==
  \/ /\ toText' = Append(toText, Confirm(k, TRUE, Size[remote]))
     /\ toFile' = toFile \o Blocks(k, remote)
     /\ UNCHANGED acts
  \/ Act /\ toText' = Append(toText, Confirm(k, FALSE, 0)) /\ UNCHANGED toFile
  \/ Act /\ toFile' = toFile \o Blocks(k, remote) /\ UNCHANGED toText
  \/ Act /\ UNCHANGED <<toText, toFile>>

(* requestRemoteClipboard, every REMOTE_CLIPBOARD_POLL_INTERVAL_MS           *)
Poll ==
  /\ enabled /\ seen /\ read = None
  /\ chan /\ pending = None
  /\ \E k \in Keys:
       /\ ~InUse(k)
       /\ pending' = [key |-> k, got |-> {}, expected |-> None, settle |-> FALSE,
                      asked |-> remote]
       /\ RemoteAnswers(k)
  /\ UNCHANGED <<local, remote, chan, lastSync, assembled, page, autoRead, synced,
                 reads, written, shown>>

Ids(got) == {b.id : b \in got}

(* The text of the blocks 1..n.                                              *)
TextOf(got, n) ==
  LET whole == {t \in Texts: Size[t] = n /\ Cardinality(got) = n
                             /\ \A b \in got: b.text = t}
  IN  IF whole = {} THEN Cut ELSE CHOOSE t \in whole: TRUE

FinishRead(p, n) ==
  LET text == TextOf(p.got, n)
  IN  /\ assembled' = [text |-> text, asked |-> p.asked, counted |-> p.expected # None]
      /\ pending' = None
      /\ \/ ApplyNotification(text)
         \/ text = Cut /\ p.asked # Cut   \* not UTF-8
            /\ UNCHANGED lastSync /\ Ignored

Waits(p) == pending' = p /\ UNCHANGED <<lastSync, assembled>> /\ Ignored

Complete(p, n) == Cardinality(p.got) = n /\ Ids(p.got) = 1..n

Expected(p) == IF p.expected = None THEN Cardinality(p.got) ELSE p.expected

(* tryFinishRead(pending, true), then (when the blocks cannot go on) false   *)
TryFinish(p, known) ==
  IF (known => p.expected # None) /\ Complete(p, Expected(p))
  THEN FinishRead(p, Expected(p))
  ELSE Waits(p)

(* applyFormatConfirm                                                        *)
ApplyConfirm(m) ==
  IF pending = None \/ pending.key # m.key THEN Waits(pending)
  ELSE IF ~m.ok THEN Waits(None)
  ELSE LET p == [pending EXCEPT !.expected = m.count]
       IN  IF m.count = 0 THEN FinishRead(p, 0) ELSE TryFinish(p, TRUE)

OfPending(b) == pending # None /\ pending.key = b.key

(* receiveDataBlock                                                          *)
ReceiveBlock(b) ==
  IF ~OfPending(b) THEN Waits(pending)
  ELSE IF ~b.valid THEN Waits(None)
  ELSE LET kept == {x \in pending.got: x.id # b.id}
           p == [pending EXCEPT !.got = kept \union {[id |-> b.id, text |-> b.text]},
                                !.settle = b.full]
       IN  TryFinish(p, b.full)

TakeText ==
  /\ toText # <<>>
  /\ toText' = Tail(toText)
  /\ LET m == Head(toText)
     IN  IF m.kind = "confirm" THEN ApplyConfirm(m)
         ELSE ApplyNotification(m.text) /\ UNCHANGED <<pending, assembled>>
  /\ UNCHANGED <<acts, local, remote, chan, toFile, page>>

TakeFile ==
  /\ toFile # <<>>
  /\ toFile' = Tail(toFile)
  /\ ReceiveBlock(Head(toFile))
  /\ UNCHANGED <<acts, local, remote, chan, toText, page>>

(* A timer that fires while the answer is on the way: the network was slow.  *)
Waited == IF OnTheWay(pending.key) THEN Act ELSE UNCHANGED acts

(* completionTimer: no block for CLIPBOARD_FULL_BLOCK_SETTLE_MS.             *)
Settles ==
  /\ pending # None /\ pending.settle
  /\ Waited
  /\ TryFinish([pending EXCEPT !.settle = FALSE], FALSE)
  /\ UNCHANGED <<local, remote, net, page>>

(* A timer that only an answer arms.                                         *)
FaultyExpires ==
  /\ pending # None
  /\ pending.got # {} \/ pending.expected # None
  /\ Waited
  /\ pending' = None
  /\ UNCHANGED <<local, remote, net, lastSync, assembled, page, autoRead, synced,
                 reads, written, shown>>

(* expiryTimer: nothing of this read for CLIPBOARD_RPC_TIMEOUT_MS.           *)
Expires ==
  /\ pending # None
  /\ Waited
  /\ pending' = None
  /\ UNCHANGED <<local, remote, net, lastSync, assembled, page, autoRead, synced,
                 reads, written, shown>>

-----------------------------------------------------------------------------
(* The channels and the page.                                                *)

(* What resetClipboardSession and handleClipboardSyncEnabledChange share:
   whatever the earlier revision still has running no longer counts.         *)
NewRevision ==
  /\ staleReads' = staleReads \union ({read} \ {None})
  /\ autoRead' = FALSE
  /\ writes' = <<>>
  /\ staleWrites' = staleWrites \union (IF writes = <<>> THEN {} ELSE {Head(writes)})
                                \union (IF copying = None THEN {} ELSE {copying.text})
  /\ copying' = None
  /\ accepted' = None

ResetPage ==
  /\ NewRevision
  /\ read' = None
  /\ synced' = None
  /\ opened' = FALSE
  /\ shown' = FreshShown

(* The channels close: BrowserRemoteClipboard.reset                          *)
Closed ==
  /\ chan' = FALSE /\ toText' = <<>> /\ toFile' = <<>>
  /\ pending' = None /\ lastSync' = None

ChannelsOpen ==
  /\ ~chan /\ ~seen /\ ~opened
  /\ Act
  /\ chan' = TRUE
  /\ UNCHANGED <<local, remote, toText, toFile, session, page, autoRead, synced, reads,
                 written, shown>>

ChannelsClose ==
  /\ chan
  /\ Act
  /\ Closed
  /\ UNCHANGED <<local, remote, assembled, page, autoRead, synced, reads, written, shown>>

(* resetBrowserRemoteSession, or another sessionKey                          *)
SessionReset ==
  /\ chan \/ opened
  /\ Act
  /\ Closed
  /\ ResetPage
  /\ UNCHANGED <<local, remote, assembled, enabled, seen>>

(* The page renders the state of the channels and runs its effect.           *)
ChannelsRendered ==
  /\ seen # chan \/ opened # chan
  /\ seen' = chan
  /\ \/ /\ chan /\ ~opened
        /\ opened' = TRUE
        /\ IF enabled THEN StartRead("resume") ELSE UNCHANGED <<reads, shown>>
        /\ UNCHANGED <<pending, autoRead, synced, written>>
     \/ /\ ~chan /\ opened
        /\ ResetPage
        /\ pending' = None
     \/ /\ chan = opened
        /\ UNCHANGED <<pending, opened, autoRead, synced, reads, written, shown>>
  /\ UNCHANGED <<acts, local, remote, net, lastSync, assembled, enabled>>

(* handleClipboardSyncEnabledChange: switching on reads the local clipboard. *)
Toggle ==
  /\ ~enabled => seen
  /\ Act
  /\ enabled' = ~enabled
  /\ NewRevision
  /\ read' = IF enabled THEN None ELSE "user"
  /\ shown' = [FreshShown EXCEPT !.text = IF enabled THEN None ELSE shown.text,
                                 !.reading = ~enabled]
  /\ pending' = IF enabled THEN None ELSE pending
  /\ UNCHANGED <<local, remote, net, lastSync, assembled, seen, opened, synced>>

-----------------------------------------------------------------------------
(* The two clipboards change.                                                *)

UserCopies ==
  /\ Act
  /\ local' \in Whole \ {local}
  /\ UNCHANGED <<remote, net, session, page, autoRead, synced, reads, written, shown>>

(* A remote copy; some systems announce it with a text-changed notification. *)
RemoteCopies ==
  /\ Act
  /\ remote' \in Whole \ {remote}
  /\ \/ chan /\ toText' = Append(toText, [kind |-> "changed", text |-> remote'])
     \/ UNCHANGED toText
  /\ UNCHANGED <<local, chan, toFile, session, page, autoRead, synced, reads, written,
                 shown>>

Next ==
  \/ ReadServed \/ ReadRefused \/ StaleReadEnds
  \/ Resume \/ PressRead \/ PressSend
  \/ \E ok \in BOOLEAN: WriteEnds(ok) \/ CopyEnds(ok)
  \/ \E text \in Texts, ok \in BOOLEAN: StaleWriteEnds(text, ok)
  \/ PressCopy
  \/ Poll \/ TakeText \/ TakeFile \/ Settles \/ Expires
  \/ ChannelsOpen \/ ChannelsClose \/ SessionReset \/ ChannelsRendered \/ Toggle
  \/ UserCopies \/ RemoteCopies

Spec == Init /\ [][Next]_vars

(* The browser ends every read and write, the channels deliver in order, and
   timers and intervals fire; nobody has to act.                             *)
FairSpec ==
  /\ Spec
  /\ WF_vars(ReadServed) /\ WF_vars(StaleReadEnds)
  /\ WF_vars(WriteEnds(TRUE)) /\ WF_vars(CopyEnds(TRUE))
  /\ WF_vars(\E text \in Texts: StaleWriteEnds(text, TRUE))
  /\ WF_vars(Poll) /\ WF_vars(TakeText) /\ WF_vars(TakeFile)
  /\ WF_vars(Settles) /\ WF_vars(Expires)
  /\ WF_vars(ChannelsRendered)

-----------------------------------------------------------------------------
TypeOK ==
  /\ acts \in 0..MaxActs
  /\ local \in Texts /\ remote \in Texts
  /\ chan \in BOOLEAN /\ enabled \in BOOLEAN /\ seen \in BOOLEAN /\ opened \in BOOLEAN
  /\ lastSync \in Texts \union {None} /\ synced \in Texts \union {None}
  /\ autoRead \in BOOLEAN
  /\ read \in {None, "resume", "user"} /\ staleReads \subseteq {"resume", "user"}
  /\ writes \in Seq(Texts) /\ staleWrites \subseteq Texts
  /\ accepted \in Texts \union {None}
  /\ shown.reading \in BOOLEAN
  /\ shown.text \in Texts \union {None} /\ shown.fallback \in Texts \union {None}
  /\ shown.status \in {"none", "writing", "written", "failed", "copied"}

(* A page that says the remote text was written to the local clipboard wrote
   the newest one it took, and a page that offers a text to copy offers the
   newest one, whichever order writes, failures and new texts come in.       *)
NewestRemoteTextShown ==
  /\ shown.status = "written" => writes = <<>> /\ accepted # None
  /\ shown.fallback # None => writes = <<>> /\ shown.fallback = accepted

(* "Reading" is shown exactly while a read of this revision runs: a read that
   a toggle, a reset or a remote text overtakes does not leave it on.        *)
ReadingEnds == shown.reading = (read # None)

(* A read whose block count was announced delivers the text the remote side
   had, never the blocks of another read or only the first ones.             *)
CountedReadIsWhole ==
  assembled # None /\ assembled.counted => assembled.text = assembled.asked

(* While synchronisation is off no local write begins, and none that was
   waiting goes on after it was switched off and on again.                   *)
OffWritesNothing == ~enabled => writes = <<>> /\ copying = None

(* What the page says of the two clipboards is so, and the text it took for
   the remote one was whole.                                                 *)
PageShowsTheTruth == NewestRemoteTextShown /\ ReadingEnds /\ OffWritesNothing /\ CountedReadIsWhole

(* With synchronisation on and the channels open, the page comes to know the
   text the remote clipboard keeps, unless it is too long to be read.         *)
RemoteTextIsHeard == <>[](enabled /\ chan /\ remote \notin TooLong => lastSync = remote)
=============================================================================
