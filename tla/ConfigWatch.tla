----------------------------- MODULE ConfigWatch -----------------------------
(***************************************************************************)
(* internal/config/loader.go: Watch sends the configuration on a channel   *)
(* of capacity one, at the beginning and whenever viper's watcher calls    *)
(* back, and a goroutine closes the channel when the context ends.  Viper  *)
(* is external: one goroutine reads the file and calls back, one event at  *)
(* a time; a change before the watcher is there is never seen.             *)
(*                                                                         *)
(* The file is changed from one version to the next; version v holds       *)
(* Contents[v].                                                            *)
(***************************************************************************)
EXTENDS Naturals, Sequences

CONSTANT Contents   \* the configurations that the file holds one after the other

Versions == 1 .. Len(Contents)
None     == 0

VARIABLES
  file,      \* version of the file
  event,     \* viper has an event to look at
  watch,     \* how far Watch is
  config,    \* version that viper has read
  callback,  \* "idle", "validate", "send" or "blocked"
  channel,   \* the buffer of configCh
  closed, ctxDone, crashed,
  received,  \* the version the reader of the channel has
  late       \* history: the last change came after the callback was registered

vars == <<file, event, watch, config, callback, channel, closed, ctxDone, crashed, received, late>>

TypeOK ==
  /\ file \in Versions /\ config \in Versions /\ received \in Versions \cup {None}
  /\ watch \in {"called", "read", "sent", "watching", "returned", "failed"}
  /\ callback \in {"idle", "validate", "send", "blocked"}
  /\ channel \in Seq(Versions) /\ Len(channel) <= 1
  /\ {event, closed, ctxDone, crashed, late} \subseteq BOOLEAN

Init ==
  /\ file = 1 /\ config = 1 /\ received = None /\ channel = <<>>
  /\ event = FALSE /\ closed = FALSE /\ ctxDone = FALSE /\ crashed = FALSE /\ late = FALSE
  /\ watch = "called" /\ callback = "idle"

-----------------------------------------------------------------------------
(* Validation (the struct tags are left out)                               *)

validateCustomRules(c) ==
  /\ c.autoCert => c.email # "" /\ c.domains > 0
  /\ c.routes > 0
  /\ c.port # c.httpsPort
  /\ c.metricsPort \notin {c.port, c.httpsPort}
  /\ c.requestsPerSecond > 0 /\ c.burstSize > 0
  /\ c.unhealthyThreshold > 0 /\ c.healthyThreshold > 0

Validate(v) == validateCustomRules(Contents[v])

-----------------------------------------------------------------------------
(* Watch                                                                   *)

ReadInitial ==
  /\ watch = "called"
  /\ watch'  = "read"
  /\ config' = file
  /\ UNCHANGED <<file, event, callback, channel, closed, ctxDone, crashed, received, late>>

\* The channel is empty.  If the context is done as well, either case may be taken.
SendInitial ==
  /\ watch = "read"
  /\ \/ ~Validate(config) /\ watch' = "sent" /\ UNCHANGED <<channel, closed>>
     \/ Validate(config) /\ watch' = "sent" /\ channel' = <<config>> /\ UNCHANGED closed
     \/ Validate(config) /\ ctxDone /\ watch' = "failed" /\ closed' = TRUE /\ UNCHANGED channel
  /\ UNCHANGED <<file, event, config, callback, ctxDone, crashed, received, late>>

\* WatchConfig comes before OnConfigChange: an event between them has no callback.
WatchConfig ==
  /\ watch = "sent"
  /\ watch' = "watching"
  /\ UNCHANGED <<file, event, config, callback, channel, closed, ctxDone, crashed, received, late>>

\* The callback is registered and the closing goroutine started.
OnConfigChange ==
  /\ watch = "watching"
  /\ watch' = "returned"
  /\ UNCHANGED <<file, event, config, callback, channel, closed, ctxDone, crashed, received, late>>

CloseChannel ==
  /\ watch = "returned" /\ ctxDone /\ ~closed
  /\ closed' = TRUE
  /\ UNCHANGED <<file, event, watch, config, callback, channel, ctxDone, crashed, received, late>>

-----------------------------------------------------------------------------
(* The callback                                                            *)

Called ==
  /\ event /\ callback = "idle" /\ ~crashed
  /\ event'    = FALSE
  /\ config'   = file
  /\ callback' = IF watch = "returned" THEN "validate" ELSE "idle"
  /\ UNCHANGED <<file, watch, channel, closed, ctxDone, crashed, received, late>>

ValidateNew ==
  /\ callback = "validate" /\ ~crashed
  /\ callback' = IF Validate(config) THEN "send" ELSE "idle"
  /\ UNCHANGED <<file, event, watch, config, channel, closed, ctxDone, crashed, received, late>>

\* Mutation: a configuration that finds the channel full is dropped.
SelectDropping ==
  /\ callback = "send" /\ ~crashed
  /\ callback' = "idle"
  /\ channel'  = IF closed \/ ctxDone \/ Len(channel) = 1 THEN channel ELSE <<config>>
  /\ UNCHANGED <<file, event, watch, config, closed, ctxDone, crashed, received, late>>

\* The select: a send on a closed channel is a case that can be taken, and panics.
Select ==
  /\ callback = "send" /\ ~crashed
  /\ \/ closed /\ crashed' = TRUE /\ UNCHANGED <<callback, channel>>
     \/ ~closed /\ channel = <<>> /\ channel' = <<config>> /\ callback' = "idle" /\ UNCHANGED crashed
     \/ ctxDone /\ callback' = "idle" /\ UNCHANGED <<channel, crashed>>
     \/ ~closed /\ ~ctxDone /\ channel # <<>> /\ callback' = "blocked" /\ UNCHANGED <<channel, crashed>>
  /\ UNCHANGED <<file, event, watch, config, closed, ctxDone, received, late>>

-----------------------------------------------------------------------------
(* The reader of the channel and the world                                 *)

\* A blocked send goes on in the same step.
Receive ==
  /\ watch = "returned" /\ channel # <<>> /\ ~crashed
  /\ received' = Head(channel)
  /\ channel'  = IF callback = "blocked" THEN <<config>> ELSE <<>>
  /\ callback' = IF callback = "blocked" THEN "idle" ELSE callback
  /\ UNCHANGED <<file, event, watch, config, closed, ctxDone, crashed, late>>

\* A select that is blocked takes the case of the context in the same step.
ContextEnds ==
  /\ ~ctxDone
  /\ ctxDone'  = TRUE
  /\ callback' = IF callback = "blocked" THEN "idle" ELSE callback
  /\ UNCHANGED <<file, event, watch, config, channel, closed, crashed, received, late>>

ChangeFile ==
  /\ file < Len(Contents)
  /\ file'  = file + 1
  /\ event' = (event \/ watch \in {"watching", "returned"})
  /\ late'  = (watch = "returned")
  /\ UNCHANGED <<watch, config, callback, channel, closed, ctxDone, crashed, received>>

-----------------------------------------------------------------------------

Watch    == ReadInitial \/ SendInitial \/ WatchConfig \/ OnConfigChange
Callback == Called \/ ValidateNew \/ Select

Next == Watch \/ CloseChannel \/ Callback \/ Receive \/ ContextEnds \/ ChangeFile

Spec == Init /\ [][Next]_vars

\* The goroutines are scheduled, and the reader keeps reading.
FairSpec ==
  Spec /\ WF_vars(Watch) /\ WF_vars(Callback) /\ WF_vars(CloseChannel) /\ WF_vars(Receive)

-----------------------------------------------------------------------------
(* Properties                                                              *)

\* "This enables live configuration reloading." (l.73): the reader ends up with the last
\* version of the file, if it is valid and was written after Watch had registered its
\* callback, and if the context lasts.
LastChangeDelivered ==
  [](~ctxDone) => \A v \in Versions :
    <>[](file = v /\ late /\ Validate(v)) => <>[](received = v)

\* The send on the closed channel needs the end of the context.
PanicNeedsCancel == crashed => ctxDone
=============================================================================
