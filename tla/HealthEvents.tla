---------------------------- MODULE HealthEvents ----------------------------
(***************************************************************************)
(* internal/health/checker.go: subscribers and publishEvent.  Whoever      *)
(* publishes goes through the subscribers with the read lock and drops an  *)
(* event for a channel that is full.  Several do so at once: the callers   *)
(* of StartMonitoring and StopMonitoring, and each monitoring loop, of     *)
(* which one that is in a check outlives its Stop.  Subscribe and          *)
(* Unsubscribe, which takes an entry out of the slice in place, need the   *)
(* write lock.  Reading and closing a channel is the subscriber's own      *)
(* affair and needs no lock.                                               *)
(*                                                                         *)
(* What an event says is the subject of HealthChecker.  Here the events of *)
(* each publisher are numbered.                                            *)
(***************************************************************************)
EXTENDS Naturals, SequencesExt

CONSTANTS
  Subscribers,       \* each has one channel
  Publishers,        \* goroutines that call publishEvent, one event after the other
  Capacity,          \* of a channel
  MaxEvents,         \* bound: events of each publisher
  MaxSubscriptions   \* bound: entries of the slice

VARIABLES
  subscribers,  \* hc.subscribers
  channels,     \* the buffer of each channel
  shut,         \* channels that their subscribers have closed
  published,    \* number of events of each publisher so far
  at,           \* its index in the loop of publishEvent; 0 if it is elsewhere
  seen,         \* the number of the event each subscriber received last of each publisher
  skipped,      \* history: subscribers that an event was dropped for
  panicked

vars == <<subscribers, channels, shut, published, at, seen, skipped, panicked>>

Events == [by : Publishers, no : 1 .. MaxEvents]

TypeOK ==
  /\ subscribers \in Seq(Subscribers) /\ Len(subscribers) <= MaxSubscriptions
  /\ channels \in [Subscribers -> Seq(Events)]
  /\ \A s \in Subscribers : Len(channels[s]) <= Capacity
  /\ shut \subseteq Subscribers /\ skipped \subseteq Subscribers
  /\ published \in [Publishers -> 0 .. MaxEvents]
  /\ at \in [Publishers -> 0 .. MaxSubscriptions]
  /\ seen \in [Subscribers -> [Publishers -> 0 .. MaxEvents]]
  /\ panicked \in BOOLEAN

Init ==
  /\ subscribers = <<>> /\ shut = {} /\ skipped = {} /\ panicked = FALSE
  /\ published = [p \in Publishers |-> 0] /\ at = [p \in Publishers |-> 0]
  /\ channels = [s \in Subscribers |-> <<>>]
  /\ seen = [s \in Subscribers |-> [p \in Publishers |-> 0]]

-----------------------------------------------------------------------------
(* Subscribing                                                             *)

\* subMu can be locked for writing when nobody is in publishEvent.
Unread == \A p \in Publishers : at[p] = 0

\* Nobody looks whether the channel is there already.  A subscriber has drained it.
Subscribe(s) ==
  /\ Unread /\ ~panicked /\ s \notin shut
  /\ Len(subscribers) < MaxSubscriptions
  /\ channels[s] = <<>>
  /\ subscribers' = Append(subscribers, s)
  /\ IF s \in ToSet(subscribers)
     THEN UNCHANGED <<seen, skipped>>
     ELSE seen' = [seen EXCEPT ![s] = published] /\ skipped' = skipped \ {s}
  /\ UNCHANGED <<channels, shut, published, at, panicked>>

\* The first entry, if there are several; an error if there is none.
Unsubscribe(s) ==
  /\ Unread /\ ~panicked
  /\ s \in ToSet(subscribers)
  /\ subscribers' = RemoveFirst(subscribers, s)
  /\ UNCHANGED <<channels, shut, published, at, seen, skipped, panicked>>

-----------------------------------------------------------------------------
(* publishEvent                                                            *)

PublishEvent(p) ==
  /\ at[p] = 0 /\ ~panicked
  /\ published[p] < MaxEvents
  /\ published' = [published EXCEPT ![p] = @ + 1]
  /\ at' = [at EXCEPT ![p] = IF subscribers = <<>> THEN 0 ELSE 1]
  /\ UNCHANGED <<subscribers, channels, shut, seen, skipped, panicked>>

\* A send on a closed channel is a case that can be taken, so that the default branch does
\* not cover it.
Offer(s, event) ==
  \/ /\ s \in shut
     /\ panicked' = TRUE
     /\ UNCHANGED <<channels, skipped>>
  \/ /\ s \notin shut /\ Len(channels[s]) < Capacity
     /\ channels' = [channels EXCEPT ![s] = Append(@, event)]
     /\ UNCHANGED <<skipped, panicked>>
  \/ /\ s \notin shut /\ Len(channels[s]) >= Capacity
     /\ skipped' = skipped \cup {s}
     /\ UNCHANGED <<channels, panicked>>

\* Mutation: a full channel ends the loop.
SendUntilFull(p) ==
  /\ at[p] # 0 /\ ~panicked
  /\ Offer(subscribers[at[p]], [by |-> p, no |-> published[p]])
  /\ at' = [at EXCEPT ![p] = IF @ < Len(subscribers) /\ skipped' = skipped THEN @ + 1 ELSE 0]
  /\ UNCHANGED <<subscribers, shut, published, seen>>

\* Mutation: the loop goes on to the index after the last.
SendPastEnd(p) ==
  /\ at[p] \in DOMAIN subscribers /\ ~panicked
  /\ Offer(subscribers[at[p]], [by |-> p, no |-> published[p]])
  /\ at' = [at EXCEPT ![p] = @ + 1]
  /\ UNCHANGED <<subscribers, shut, published, seen>>

\* One turn of the loop.
Send(p) ==
  /\ at[p] # 0 /\ ~panicked
  /\ Offer(subscribers[at[p]], [by |-> p, no |-> published[p]])
  /\ at' = [at EXCEPT ![p] = IF @ < Len(subscribers) THEN @ + 1 ELSE 0]
  /\ UNCHANGED <<subscribers, shut, published, seen>>

-----------------------------------------------------------------------------
(* Subscribers                                                             *)

Receive(s) ==
  /\ channels[s] # <<>> /\ ~panicked
  /\ seen' = [seen EXCEPT ![s][Head(channels[s]).by] = Head(channels[s]).no]
  /\ channels' = [channels EXCEPT ![s] = Tail(@)]
  /\ UNCHANGED <<subscribers, shut, published, at, skipped, panicked>>

CloseChannel(s) ==
  /\ s \notin shut /\ ~panicked
  /\ shut' = shut \cup {s}
  /\ UNCHANGED <<subscribers, channels, published, at, seen, skipped, panicked>>

-----------------------------------------------------------------------------

Next ==
  \/ \E p \in Publishers : PublishEvent(p) \/ Send(p)
  \/ \E s \in Subscribers : Subscribe(s) \/ Unsubscribe(s) \/ Receive(s) \/ CloseChannel(s)

Spec == Init /\ [][Next]_vars

-----------------------------------------------------------------------------
(* Properties                                                              *)

\* Are the events in a channel, those of one publisher each, in its order, after those that
\* were received?
InOrder(s) ==
  LET c == channels[s] IN
  \A i \in DOMAIN c :
    /\ seen[s][c[i].by] <= c[i].no
    /\ \A j \in DOMAIN c : i < j /\ c[i].by = c[j].by => c[i].no <= c[j].no

\* Has the subscriber the n-th event of p, or had it?
Has(s, p, n) ==
  n <= seen[s][p] \/ \E i \in DOMAIN channels[s] : channels[s][i] = [by |-> p, no |-> n]

\* "The channel will receive HealthEvent notifications when status changes."
\* (interfaces.go l.26): whoever subscribes, unsubscribes, publishes or is full meanwhile,
\* a subscriber gets the events of each publisher in order and, as long as its own channel
\* was never full, each of them.  (Of two publishers, subscribers may get them in different
\* orders.)
EventsReachSubscribers ==
  \A s \in ToSet(subscribers) :
    /\ InOrder(s)
    /\ s \notin skipped /\ ~panicked =>
         \A p \in Publishers : \A n \in 1 .. published[p] :
           n < published[p] \/ at[p] = 0 => Has(s, p, n)

\* "Channel is full or closed, skip this subscriber" (l.427) is not so of a closed one, on
\* which the send panics; the channel of someone who is still subscribed, whatever else
\* happens meanwhile.
PanicNeedsClosedChannel == panicked => \E s \in shut : s \in ToSet(subscribers)
=============================================================================
