------------------------------- MODULE Status -------------------------------
(***************************************************************************)
(* What the browsers show: build_snapshot of app/main.py reads the table   *)
(* and the health of the speakers one statement after the other, in the    *)
(* thread that changed something; the broadcaster of app/events.py keeps   *)
(* the snapshot for browsers still to come and hands it to the event loop, *)
(* which puts it into the queue of each browser that is open.              *)
(*                                                                         *)
(* The player thread is here with the steps that publish or change what a  *)
(* snapshot reads; Player has all of them, and the Stop button, which      *)
(* publishes and changes nothing a snapshot shows.  A snapshot keeps which *)
(* rows it shows and where; texts, estimates and the voice's health are    *)
(* left out.                                                               *)
(***************************************************************************)
EXTENDS AnnouncementTable, Sequences

CONSTANTS
  Handler,      \* The threads that serve requests.
  Pa,           \* The player thread.
  Browser,
  QueueSize,    \* QUEUE_SIZE: snapshots kept for a browser that is slow.
  MaxFaults,    \* Bound: how often the speakers are out of reach.
  MaxConnects   \* Bound: how often a browser connects.

Publisher == Handler \cup {Pa}

ASSUME PublisherAssumption == Pa \notin Handler
ASSUME StatusBounds == QueueSize \in Nat \ {0} /\ MaxFaults \in Nat /\ MaxConnects \in Nat

VARIABLES
  pc,       \* where the player thread is
  item,     \* the row it is at
  audioOk,  \* health.audio_ok
  faults,   \* how often the speakers were out of reach
  at,       \* [Publisher -> what it does next in publish_status]
  draft,    \* [Publisher -> the snapshot it is building]
  latest,   \* broadcaster.latest
  calls,    \* what call_soon_threadsafe queued on the loop
  stream,   \* [Browser -> its /api/events request]
  buffer,   \* [Browser -> its asyncio.Queue]
  shown,    \* [Browser -> the snapshot on its page]
  connects, \* [Browser -> how often it connected]
  order,    \* history: the publishers under way, in the order they began
  passed,   \* history: publishers that a later one was quicker than
  outdated, \* history: the last snapshot sent is older than another one sent
  keptBy,   \* history: who set latest
  sentBy,   \* history: whose snapshot was sent last
  dropped   \* history: browsers whose queue was full for the last snapshot

player  == <<pc, item, audioOk, faults>>
publish == <<at, draft, latest, calls, order, passed, outdated, keptBy, sentBy>>
page    == <<stream, buffer, shown, connects, dropped>>
vars    == <<table, player, publish, page>>

Snapshot ==
  [playing : Id \cup {None}, held : Id \cup {None}, queue : SUBSET Id,
   status : {"idle", "playing", "error"}, problems : SUBSET Id]

Problems == {i \in Id : state[i] \in {"failed", "interrupted"}}
PlayingItem == IF \E i \in Id : state[i] = "playing"
               THEN CHOOSE i \in Id : state[i] = "playing" ELSE None
StatusOf(playing) == IF ~audioOk THEN "error" ELSE IF playing # None THEN "playing" ELSE "idle"

(* The snapshot that one look at everything would give.                    *)
Truth ==
  LET p == IF audioOk THEN PlayingItem ELSE None
  IN [playing |-> p, held |-> IF audioOk THEN None ELSE PlayingItem,
      queue |-> Queued, status |-> StatusOf(p), problems |-> Problems]

Blank == [playing |-> None, held |-> None, queue |-> {}, status |-> "idle", problems |-> {}]

PlayerTypeOK ==
  /\ pc \in {"loop", "begin", "recovered", "open", "play", "unavailable", "cleanup"}
  /\ item \in Id \cup {None}
  /\ audioOk \in BOOLEAN /\ faults \in 0 .. MaxFaults

PublishTypeOK ==
  /\ at \in [Publisher -> {"idle", "playing", "queued", "held", "rest", "keep", "send"}]
  /\ draft \in [Publisher -> Snapshot] /\ latest \in Snapshot
  /\ calls \in Seq(Snapshot)
  /\ order \in Seq(Publisher)
  /\ \A t \in Publisher : at[t] # "idle" <=> \E k \in DOMAIN order : order[k] = t
  /\ passed \in SUBSET Publisher /\ outdated \in BOOLEAN
  /\ keptBy \in Publisher /\ sentBy \in Publisher

PageTypeOK ==
  /\ stream \in [Browser -> {"closed", "subscribed", "open"}]
  /\ buffer \in [Browser -> Seq(Snapshot)] /\ \A b \in Browser : Len(buffer[b]) <= QueueSize
  /\ shown \in [Browser -> Snapshot] /\ connects \in [Browser -> 0 .. MaxConnects]
  /\ dropped \in SUBSET Browser

TypeOK == TableTypeOK /\ PlayerTypeOK /\ PublishTypeOK /\ PageTypeOK

Init ==
  /\ TableInit
  /\ pc = "loop" /\ item = None /\ audioOk = TRUE /\ faults = 0
  /\ at = [t \in Publisher |-> "idle"] /\ draft = [t \in Publisher |-> Blank]
  /\ latest = Blank /\ calls = <<>>
  /\ stream = [b \in Browser |-> "closed"] /\ buffer = [b \in Browser |-> <<>>]
  /\ shown = [b \in Browser |-> Blank] /\ connects = [b \in Browser |-> 0]
  /\ order = <<>> /\ passed = {} /\ outdated = FALSE
  /\ keptBy = Pa /\ sentBy = Pa /\ dropped = {}

----------------------------------------------------------------------------
(* publish_status, a statement at a time.                                  *)

PublishStatus(t) ==
  /\ at' = [at EXCEPT ![t] = "playing"]
  /\ order' = Append(order, t)
  /\ UNCHANGED <<draft, latest, calls, passed, outdated, keptBy, sentBy>>

Build(t, here, next, snapshot) ==
  /\ at[t] = here /\ at' = [at EXCEPT ![t] = next]
  /\ draft' = [draft EXCEPT ![t] = snapshot]
  /\ UNCHANGED <<table, player, latest, calls, order, passed, outdated, keptBy, sentBy, page>>

ReadPlaying(t) == Build(t, "playing", "queued", [Blank EXCEPT !.playing = PlayingItem])

\* Mutant of ReadQueued: the playing row is left in the queue that is shown.
ReadQueuedOrPlaying(t) ==
  Build(t, "queued", "held", [draft[t] EXCEPT !.queue = Queued \cup {draft[t].playing}])

ReadQueued(t) == Build(t, "queued", "held", [draft[t] EXCEPT !.queue = Queued])

(* "Report it as held instead."                                            *)
ReadHeld(t) ==
  Build(t, "held", "rest",
        IF audioOk THEN draft[t]
        ELSE [draft[t] EXCEPT !.held = draft[t].playing, !.playing = None])

ReadRest(t) ==
  Build(t, "rest", "keep", [draft[t] EXCEPT !.status = StatusOf(draft[t].playing),
                                            !.problems = Problems])

Keep(t) ==
  /\ at[t] = "keep" /\ at' = [at EXCEPT ![t] = "send"]
  /\ latest' = draft[t] /\ keptBy' = t
  /\ UNCHANGED <<table, player, draft, calls, order, passed, outdated, sentBy, page>>

\* Mutant of Send: nothing is sent while an earlier snapshot still waits.
SendUnlessPending(t) ==
  /\ at[t] = "send" /\ at' = [at EXCEPT ![t] = "idle"]
  /\ sentBy' = t
  /\ calls' = (IF calls = <<>> THEN <<draft[t]>> ELSE calls)
  /\ draft' = [draft EXCEPT ![t] = Blank]
  /\ outdated' = (t \in passed)
  /\ LET k == CHOOSE j \in DOMAIN order : order[j] = t
     IN /\ passed' = (passed \ {t}) \cup {order[j] : j \in 1 .. k - 1}
        /\ order' = SubSeq(order, 1, k - 1) \o SubSeq(order, k + 1, Len(order))
  /\ UNCHANGED <<table, player, latest, keptBy, page>>

(* call_soon_threadsafe.  Those that began before t are late from now on.  *)
Send(t) ==
  /\ at[t] = "send" /\ at' = [at EXCEPT ![t] = "idle"]
  /\ calls' = Append(calls, draft[t]) /\ sentBy' = t
  /\ draft' = [draft EXCEPT ![t] = Blank]
  /\ outdated' = (t \in passed)
  /\ LET k == CHOOSE j \in DOMAIN order : order[j] = t
     IN /\ passed' = (passed \ {t}) \cup {order[j] : j \in 1 .. k - 1}
        /\ order' = SubSeq(order, 1, k - 1) \o SubSeq(order, k + 1, Len(order))
  /\ UNCHANGED <<table, player, latest, keptBy, page>>

----------------------------------------------------------------------------
(* The player thread; it publishes before it goes on.                      *)

Turn(here) == pc = here /\ at[Pa] = "idle"
Quietly == UNCHANGED <<publish, page>>
SaysSo(t) == PublishStatus(t) /\ UNCHANGED page

Claim(i) ==
  /\ Turn("loop") /\ ClaimNext(i)
  /\ item' = i /\ pc' = "begin"
  /\ UNCHANGED <<audioOk, faults>> /\ Quietly

Begin ==
  /\ Turn("begin") /\ pc' = "open"
  /\ UNCHANGED <<table, item, audioOk, faults>> /\ SaysSo(Pa)

SynthesizeFails ==
  /\ Turn("open") /\ pc' = "cleanup" /\ Finish(item, "failed", None)
  /\ UNCHANGED <<item, audioOk, faults>> /\ Quietly

(* _mark_audio_ok publishes before it writes the flag.                     *)
OpenSession ==
  /\ Turn("open")
  /\ IF audioOk THEN pc' = "play" /\ UNCHANGED publish
     ELSE pc' = "recovered" /\ PublishStatus(Pa)
  /\ UNCHANGED <<table, item, audioOk, faults, page>>

MarkAudioOk ==
  /\ Turn("recovered") /\ pc' = "play" /\ audioOk' = TRUE
  /\ UNCHANGED <<table, item, faults>> /\ Quietly

(* The device cannot be opened, or goes away while it is written to.       *)
MarkAudioFailed ==
  /\ Turn("open") \/ Turn("play")
  /\ faults < MaxFaults /\ faults' = faults + 1
  /\ audioOk' = FALSE /\ pc' = "unavailable"
  /\ UNCHANGED <<table, item>> /\ Quietly

(* The wait until the next attempt is spent before CleanUp.                *)
Release ==
  /\ Turn("unavailable") /\ pc' = "cleanup" /\ ReleaseToQueue(item)
  /\ UNCHANGED <<item, audioOk, faults>> /\ Quietly

PlayOut ==
  /\ Turn("play") /\ pc' = "cleanup"
  /\ Finish(item, "done", None)
  /\ UNCHANGED <<item, audioOk, faults>> /\ Quietly

\* Mutant of CleanUp: the end of an announcement is not published.
CleanUpQuietly ==
  /\ Turn("cleanup") /\ pc' = "loop" /\ item' = None
  /\ UNCHANGED <<table, audioOk, faults>> /\ Quietly

CleanUp ==
  /\ Turn("cleanup") /\ pc' = "loop" /\ item' = None
  /\ UNCHANGED <<table, audioOk, faults>> /\ SaysSo(Pa)

----------------------------------------------------------------------------
(* The handlers that change what is shown publish last.                    *)

Submit(h) ==
  /\ at[h] = "idle"
  /\ \E p \in Person : Enqueue(Row(p, 0, "announcement", None, FALSE))
  /\ UNCHANGED player /\ SaysSo(h)

Cancel(h) ==
  /\ at[h] = "idle"
  /\ \E i \in Id, p \in Person : CancelQueued(i, p)
  /\ UNCHANGED player /\ SaysSo(h)

Purge(h) ==
  /\ at[h] = "idle" /\ \E last \in Id : PurgeAnnouncements(last)
  /\ UNCHANGED player /\ SaysSo(h)

----------------------------------------------------------------------------
(* The event loop and the browsers.                                        *)

Deliver ==
  /\ calls # <<>> /\ calls' = Tail(calls)
  /\ LET in   == {b \in Browser : stream[b] # "closed"}
         room == {b \in in : Len(buffer[b]) < QueueSize}
     IN /\ buffer' = [b \in Browser |-> IF b \in room THEN Append(buffer[b], Head(calls))
                                                      ELSE buffer[b]]
        /\ dropped' = (dropped \ room) \cup (in \ room)
  /\ UNCHANGED <<table, player, at, draft, latest, order, passed, outdated, keptBy, sentBy,
                 stream, shown, connects>>

Subscribe(b) ==
  /\ stream[b] = "closed" /\ connects[b] < MaxConnects
  /\ stream' = [stream EXCEPT ![b] = "subscribed"]
  /\ buffer' = [buffer EXCEPT ![b] = <<>>]
  /\ connects' = [connects EXCEPT ![b] = @ + 1] /\ dropped' = dropped \ {b}
  /\ UNCHANGED <<table, player, publish, shown>>

FirstEvent(b) ==
  /\ stream[b] = "subscribed" /\ stream' = [stream EXCEPT ![b] = "open"]
  /\ shown' = [shown EXCEPT ![b] = latest]
  /\ UNCHANGED <<table, player, publish, buffer, connects, dropped>>

NextEvent(b) ==
  /\ stream[b] = "open" /\ buffer[b] # <<>>
  /\ shown' = [shown EXCEPT ![b] = Head(buffer[b])]
  /\ buffer' = [buffer EXCEPT ![b] = Tail(@)]
  /\ UNCHANGED <<table, player, publish, stream, connects, dropped>>

Disconnect(b) ==
  /\ stream[b] # "closed" /\ stream' = [stream EXCEPT ![b] = "closed"]
  /\ buffer' = [buffer EXCEPT ![b] = <<>>] /\ dropped' = dropped \ {b}
  /\ shown' = [shown EXCEPT ![b] = Blank]
  /\ UNCHANGED <<table, player, publish, connects>>

----------------------------------------------------------------------------
PublishStep(t) ==
  \/ ReadPlaying(t) \/ ReadQueued(t) \/ ReadHeld(t) \/ ReadRest(t)
  \/ Keep(t) \/ Send(t)

PlayerStep ==
  \/ \E i \in Id : Claim(i)
  \/ Begin \/ SynthesizeFails \/ OpenSession \/ MarkAudioOk
  \/ MarkAudioFailed \/ Release \/ PlayOut \/ CleanUp

Request(h) == Submit(h) \/ Cancel(h) \/ Purge(h)

Next ==
  \/ \E t \in Publisher : PublishStep(t)
  \/ PlayerStep
  \/ \E h \in Handler : Request(h)
  \/ Deliver
  \/ \E b \in Browser : Subscribe(b) \/ FirstEvent(b) \/ NextEvent(b) \/ Disconnect(b)

(* Threads run, the loop runs its calls, a browser reads its stream.       *)
Fairness ==
  /\ \A t \in Publisher : WF_vars(PublishStep(t))
  /\ WF_vars(PlayerStep) /\ WF_vars(Deliver)
  /\ \A b \in Browser : WF_vars(FirstEvent(b) \/ NextEvent(b))

Spec == Init /\ [][Next]_vars
FairSpec == Spec /\ Fairness

----------------------------------------------------------------------------
AllPublished == \A t \in Publisher : at[t] = "idle"
CaughtUp(b) == stream[b] = "open" /\ buffer[b] = <<>> /\ calls = <<>>

(* A browser that has been open for long shows what one that connects now  *)
(* is given, unless two threads crossed between keeping their snapshot and *)
(* sending it or its queue was full for the last one.                      *)
BrowsersAgree ==
  \A b \in Browser :
    AllPublished /\ CaughtUp(b) /\ keptBy = sentBy /\ b \notin dropped => shown[b] = latest

(* "Snapshots are absolute (not deltas), so dropping the stale ones is     *)
(* harmless" (app/events.py:19): a browser that was too slow for some of   *)
(* them has caught up when it has read the rest.                           *)
DroppingIsHarmless ==
  \A b \in Browser :
    AllPublished /\ CaughtUp(b) /\ keptBy = sentBy => shown[b] = latest

(* "A browser that connects mid-announcement immediately sees the true     *)
(* state" (app/events.py:4): what is kept for it is the truth when whoever *)
(* changed something has published, the player thread included.            *)
ConnectSeesTruth == AllPublished /\ pc \in {"loop", "open"} => latest = Truth

(* Whoever changes something says so last: in the end a page that stays    *)
(* open shows the truth, unless a slow thread published an older snapshot  *)
(* after a newer one, or the newest found the browser's queue full.        *)
PageCatchesUp ==
  \A b \in Browser :
    <>[](stream[b] = "open" =>
           b \in dropped \/ outdated \/ keptBy # sentBy \/ shown[b] = Truth)
=============================================================================
