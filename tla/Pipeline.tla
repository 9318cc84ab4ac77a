------------------------------ MODULE Pipeline ------------------------------
(***************************************************************************)
(* The telemetry of one job, from the monitor's goroutine to the report:   *)
(*                                                                         *)
(*   monitor -> publishChan -> forwarder -> bus.stream -> dispatcher       *)
(*           -> consumerChan -> consumer -> events table, allHits          *)
(*                                                                         *)
(* Five goroutines with three bounded channels between them, while the     *)
(* worker (executeJob) stops the monitor, closes publishChan, cancels the  *)
(* bus and writes the report.  None of the goroutines is joined, and       *)
(* consumerChan is never closed.  Events are numbered in the order of      *)
(* emission; MaxEvents bounds how many the monitor emits.                  *)
(***************************************************************************)
EXTENDS Naturals, Sequences

CONSTANTS
    PublishCap, StreamCap, ConsumerCap,  \* 5000, 5000 and 1000 in the code
    MaxEvents,                           \* bound on the events emitted
    Faults      \* "store": a statement of the store errs; "pidreuse": the memory
                \* inspector finds something at the PID of the sample that has
                \* ended; "shutdown": the daemon's context is cancelled, and its
                \* store closed

ASSUME PipelineAssumption ==
    /\ PublishCap \in Nat \ {0} /\ StreamCap \in Nat \ {0} /\ ConsumerCap \in Nat \ {0}
    /\ MaxEvents \in Nat
    /\ Faults \subseteq {"store", "pidreuse", "shutdown"}

VARIABLES
    (* the monitor's goroutine: where it is, what it has emitted, its context *)
    src, sent, srcHand, monCtx,
    (* the channels, and whether publishChan has been closed *)
    publishChan, stream, consumerChan, closed,
    (* the forwarder and the dispatcher, with the event each holds *)
    fwd, fwdHand, disp, dispHand, busCtx,
    (* the consumer, and what it writes: events table, rule hits, their mutex *)
    cons, consHand, stored, hits, hitsMu,
    (* the worker, the hits and events its report is made from, and whether *)
    (* reading the events ended before the last row                         *)
    wrk, repHits, repEvents, cutOff,
    (* events dropped for good; a goroutine has panicked, which ends the daemon *)
    lost, panicked

srcVars  == <<src, sent, srcHand, monCtx>>
chanVars == <<publishChan, stream, consumerChan, closed>>
busVars  == <<fwd, fwdHand, disp, dispHand, busCtx>>
consVars == <<cons, consHand, stored, hits, hitsMu>>
wrkVars  == <<wrk, repHits, repEvents, cutOff>>
vars == <<srcVars, chanVars, busVars, consVars, wrkVars, lost, panicked>>

Event == 1..MaxEvents
Hand  == {<<>>} \cup {<<e>> : e \in Event}
MemoryHit == 0   \* a hit of the memory scan, which no event stands behind

TypeOK ==
    /\ src \in {"off", "waiting", "polling", "blocked", "ended"}
    /\ sent \in 0..MaxEvents /\ srcHand \in Hand /\ monCtx \in {"live", "done"}
    /\ publishChan \in Seq(Event) /\ Len(publishChan) <= PublishCap
    /\ stream \in Seq(Event) /\ Len(stream) <= StreamCap
    /\ consumerChan \in Seq(Event) /\ Len(consumerChan) <= ConsumerCap
    /\ closed \in BOOLEAN
    /\ fwd \in {"loop", "ended"} /\ fwdHand \in Hand
    /\ disp \in {"loop", "ended"} /\ dispHand \in Hand
    /\ busCtx \in {"live", "done"}
    /\ cons \in {"recv", "save", "rules", "append"} /\ consHand \in Hand
    /\ stored \in Seq(Event) /\ hits \subseteq Event \cup {MemoryHit}
    /\ hitsMu \in {"free", "consumer", "worker"}
    /\ wrk \in {"launch", "running", "stopped", "closed", "inspect", "scan", "append",
                "finish", "reading", "events", "unreported", "done"}
    /\ repHits \subseteq Event \cup {MemoryHit} /\ repEvents \subseteq Event /\ cutOff \in BOOLEAN
    /\ lost \subseteq Event /\ panicked \in BOOLEAN

Init ==
    /\ src = "off" /\ sent = 0 /\ srcHand = <<>> /\ monCtx = "live"
    /\ publishChan = <<>> /\ stream = <<>> /\ consumerChan = <<>> /\ closed = FALSE
    /\ fwd = "loop" /\ fwdHand = <<>> /\ disp = "loop" /\ dispHand = <<>> /\ busCtx = "live"
    /\ cons = "recv" /\ consHand = <<>> /\ stored = <<>> /\ hits = {} /\ hitsMu = "free"
    /\ wrk = "launch" /\ repHits = {} /\ repEvents = {} /\ cutOff = FALSE
    /\ lost = {} /\ panicked = FALSE

Contents(s) == {s[i] : i \in 1..Len(s)}

\* A statement may err: the disk, or LemasClose has closed the database.
StoreErrs == "store" \in Faults \/ ("shutdown" \in Faults /\ busCtx = "done")

-----------------------------------------------------------------------------
(* The monitor's goroutine (procPollLoop, handleETWEvent).  One turn of its *)
(* loop emits any number of events; its context is looked at between turns, *)
(* and a tick that is ready beside a cancelled context may win the select.  *)
BeginTurn ==
    /\ ~panicked /\ src = "waiting" /\ src' = "polling"
    /\ UNCHANGED <<sent, srcHand, monCtx, chanVars, busVars, consVars, wrkVars, lost, panicked>>

EndTurn ==
    /\ ~panicked /\ src = "polling" /\ src' = "waiting"
    /\ UNCHANGED <<sent, srcHand, monCtx, chanVars, busVars, consVars, wrkVars, lost, panicked>>

MonitorEnds ==
    /\ ~panicked /\ src = "waiting" /\ monCtx = "done" /\ src' = "ended"
    /\ UNCHANGED <<sent, srcHand, monCtx, chanVars, busVars, consVars, wrkVars, lost, panicked>>

\* select { case bus <- ev: default: }: a full channel drops the event, a
\* closed one panics, default or not.
TrySend ==
    /\ ~panicked /\ src = "polling" /\ sent < MaxEvents
    /\ sent' = sent + 1
    /\ \/ ~closed /\ Len(publishChan) < PublishCap
          /\ publishChan' = Append(publishChan, sent + 1) /\ UNCHANGED <<lost, panicked>>
       \/ ~closed /\ Len(publishChan) = PublishCap
          /\ lost' = lost \cup {sent + 1} /\ UNCHANGED <<publishChan, panicked>>
       \/ closed /\ panicked' = TRUE
          /\ lost' = lost \cup {sent + 1} /\ UNCHANGED publishChan
    /\ UNCHANGED <<src, srcHand, monCtx, stream, consumerChan, closed, busVars, consVars, wrkVars>>

\* bus <- ev: the goroutine waits until there is room (process exits on
\* Linux, provider warnings and consumer failure on Windows).
Send ==
    /\ ~panicked /\ src = "polling" /\ sent < MaxEvents
    /\ sent' = sent + 1 /\ srcHand' = <<sent + 1>> /\ src' = "blocked"
    /\ UNCHANGED <<monCtx, chanVars, busVars, consVars, wrkVars, lost, panicked>>

SendCompletes ==
    /\ ~panicked /\ src = "blocked"
    /\ \/ /\ ~closed /\ Len(publishChan) < PublishCap
          /\ publishChan' = publishChan \o srcHand
          /\ srcHand' = <<>> /\ src' = "polling" /\ UNCHANGED <<lost, panicked>>
       \/ /\ closed /\ panicked' = TRUE
          /\ lost' = lost \cup Contents(srcHand)
          /\ srcHand' = <<>> /\ UNCHANGED <<src, publishChan>>
    /\ UNCHANGED <<sent, monCtx, stream, consumerChan, closed, busVars, consVars, wrkVars>>

-----------------------------------------------------------------------------
(* The forwarder: for ev := range publishChan { bus.Publish(ev) }.          *)
ForwarderReceives ==
    /\ ~panicked /\ fwd = "loop" /\ fwdHand = <<>> /\ publishChan # <<>>
    /\ fwdHand' = <<Head(publishChan)>> /\ publishChan' = Tail(publishChan)
    /\ UNCHANGED <<srcVars, stream, consumerChan, closed, fwd, disp, dispHand, busCtx,
                   consVars, wrkVars, lost, panicked>>

\* Mutant: wait for room.
PublishWaits ==
    /\ ~panicked /\ fwdHand # <<>> /\ Len(stream) < StreamCap
    /\ stream' = stream \o fwdHand /\ fwdHand' = <<>>
    /\ UNCHANGED <<srcVars, publishChan, consumerChan, closed, fwd, disp, dispHand, busCtx,
                   consVars, wrkVars, lost, panicked>>

\* Publish never waits: with the stream full, the event is dropped.
Publish ==
    /\ ~panicked /\ fwdHand # <<>>
    /\ \/ Len(stream) < StreamCap /\ stream' = stream \o fwdHand /\ UNCHANGED lost
       \/ Len(stream) = StreamCap /\ lost' = lost \cup Contents(fwdHand) /\ UNCHANGED stream
    /\ fwdHand' = <<>>
    /\ UNCHANGED <<srcVars, publishChan, consumerChan, closed, fwd, disp, dispHand, busCtx,
                   consVars, wrkVars, panicked>>

ForwarderEnds ==
    /\ ~panicked /\ fwd = "loop" /\ fwdHand = <<>> /\ closed /\ publishChan = <<>>
    /\ fwd' = "ended"
    /\ UNCHANGED <<srcVars, chanVars, fwdHand, disp, dispHand, busCtx, consVars,
                   wrkVars, lost, panicked>>

(* StartPipeline's dispatcher: with an event ready and the context done,    *)
(* the select takes either case.                                           *)
DispatcherReceives ==
    /\ ~panicked /\ disp = "loop" /\ dispHand = <<>> /\ stream # <<>>
    /\ dispHand' = <<Head(stream)>> /\ stream' = Tail(stream)
    /\ UNCHANGED <<srcVars, publishChan, consumerChan, closed, fwd, fwdHand, disp, busCtx,
                   consVars, wrkVars, lost, panicked>>

Dispatch ==
    /\ ~panicked /\ dispHand # <<>>
    /\ \/ /\ Len(consumerChan) < ConsumerCap
          /\ consumerChan' = consumerChan \o dispHand /\ UNCHANGED lost
       \/ /\ Len(consumerChan) = ConsumerCap
          /\ lost' = lost \cup Contents(dispHand) /\ UNCHANGED consumerChan
    /\ dispHand' = <<>>
    /\ UNCHANGED <<srcVars, publishChan, stream, closed, fwd, fwdHand, disp, busCtx,
                   consVars, wrkVars, panicked>>

\* Mutants: the event in hand is forgotten; the end of the stream is waited for.
DispatcherEndsHolding ==
    /\ ~panicked /\ disp = "loop" /\ busCtx = "done"
    /\ disp' = "ended" /\ dispHand' = <<>>
    /\ UNCHANGED <<srcVars, chanVars, fwd, fwdHand, busCtx, consVars, wrkVars, lost, panicked>>

DispatcherEndsDrained ==
    /\ ~panicked /\ disp = "loop" /\ dispHand = <<>> /\ fwd = "ended" /\ stream = <<>>
    /\ disp' = "ended"
    /\ UNCHANGED <<srcVars, chanVars, fwd, fwdHand, dispHand, busCtx, consVars,
                   wrkVars, lost, panicked>>

DispatcherEnds ==
    /\ ~panicked /\ disp = "loop" /\ dispHand = <<>> /\ busCtx = "done"
    /\ disp' = "ended"
    /\ UNCHANGED <<srcVars, chanVars, fwd, fwdHand, dispHand, busCtx, consVars,
                   wrkVars, lost, panicked>>

-----------------------------------------------------------------------------
(* The consumer: SaveEvent, then the rules, then allHits under ruleHitsMu.  *)
ConsumerReceives ==
    /\ ~panicked /\ cons = "recv" /\ consumerChan # <<>>
    /\ consHand' = <<Head(consumerChan)>> /\ consumerChan' = Tail(consumerChan)
    /\ cons' = "save"
    /\ UNCHANGED <<srcVars, publishChan, stream, closed, busVars, stored, hits, hitsMu,
                   wrkVars, lost, panicked>>

\* Mutant: an insert is retried after it succeeded.
SaveEventTwice ==
    /\ ~panicked /\ cons = "save" /\ cons' = "rules"
    /\ stored' = stored \o consHand \o consHand
    /\ UNCHANGED <<srcVars, chanVars, busVars, consHand, hits, hitsMu, wrkVars, lost, panicked>>

SaveEvent ==
    /\ ~panicked /\ cons = "save" /\ cons' = "rules"
    /\ \/ stored' = stored \o consHand /\ UNCHANGED lost
       \/ StoreErrs /\ lost' = lost \cup Contents(consHand) /\ UNCHANGED stored
    /\ UNCHANGED <<srcVars, chanVars, busVars, consHand, hits, hitsMu, wrkVars, panicked>>

\* Sigma and inline YARA: the event raises a hit or it does not.
ProcessEvent ==
    /\ ~panicked /\ cons = "rules"
    /\ \/ hitsMu = "free" /\ hitsMu' = "consumer" /\ cons' = "append" /\ UNCHANGED consHand
       \/ cons' = "recv" /\ consHand' = <<>> /\ UNCHANGED hitsMu
    /\ UNCHANGED <<srcVars, chanVars, busVars, stored, hits, wrkVars, lost, panicked>>

AppendHit ==
    /\ ~panicked /\ cons = "append"
    /\ hits' = hits \cup Contents(consHand)
    /\ hitsMu' = "free" /\ cons' = "recv" /\ consHand' = <<>>
    /\ UNCHANGED <<srcVars, chanVars, busVars, stored, wrkVars, lost, panicked>>

-----------------------------------------------------------------------------
(* The worker: from the launch to the report.                              *)
StartMonitor ==
    /\ ~panicked /\ wrk = "launch" /\ wrk' = "running"
    /\ src' = "polling"
    /\ UNCHANGED <<sent, srcHand, monCtx, chanVars, busVars, consVars,
                   repHits, repEvents, cutOff, lost, panicked>>

\* No process or no monitor: failJob closes the channel and cancels the bus.
FailJob ==
    /\ ~panicked /\ wrk = "launch" /\ wrk' = "done"
    /\ closed' = TRUE /\ busCtx' = "done"
    /\ UNCHANGED <<srcVars, publishChan, stream, consumerChan, fwd, fwdHand, disp, dispHand,
                   consVars, repHits, repEvents, cutOff, lost, panicked>>

\* The run context ends before the sample does, and the monitor's with it.
Deadline ==
    /\ ~panicked /\ wrk = "running" /\ monCtx = "live" /\ monCtx' = "done"
    /\ UNCHANGED <<src, sent, srcHand, chanVars, busVars, consVars, wrkVars, lost, panicked>>

\* The daemon's context is cancelled: the monitor's and the bus's are too.
Cancel ==
    /\ ~panicked /\ "shutdown" \in Faults /\ busCtx = "live"
    /\ busCtx' = "done" /\ monCtx' = "done"
    /\ UNCHANGED <<src, sent, srcHand, chanVars, fwd, fwdHand, disp, dispHand,
                   consVars, wrkVars, lost, panicked>>

\* mon.Stop cancels and returns; the 300 ms sleep after it is a hope.
StopMonitor ==
    /\ ~panicked /\ wrk = "running" /\ wrk' = "stopped" /\ monCtx' = "done"
    /\ UNCHANGED <<src, sent, srcHand, chanVars, busVars, consVars,
                   repHits, repEvents, cutOff, lost, panicked>>

ClosePublishChan ==
    /\ ~panicked /\ wrk = "stopped" /\ wrk' = "closed" /\ closed' = TRUE
    /\ UNCHANGED <<srcVars, publishChan, stream, consumerChan, busVars, consVars,
                   repHits, repEvents, cutOff, lost, panicked>>

StopPipeline ==
    /\ ~panicked /\ wrk = "closed" /\ wrk' = "inspect" /\ busCtx' = "done"
    /\ UNCHANGED <<srcVars, chanVars, fwd, fwdHand, disp, dispHand, consVars,
                   repHits, repEvents, cutOff, lost, panicked>>

\* InspectProcess reports each finding on publishChan, closed by now.
InspectProcess ==
    /\ ~panicked /\ wrk = "inspect"
    /\ \/ wrk' \in {"scan", "finish"} /\ UNCHANGED panicked
       \/ "pidreuse" \in Faults /\ panicked' = TRUE /\ UNCHANGED wrk
    /\ UNCHANGED <<srcVars, chanVars, busVars, consVars, repHits, repEvents, cutOff, lost>>

ScanMemory ==
    /\ ~panicked /\ wrk = "scan" /\ hitsMu = "free"
    /\ wrk' = "append" /\ hitsMu' = "worker"
    /\ UNCHANGED <<srcVars, chanVars, busVars, cons, consHand, stored, hits,
                   repHits, repEvents, cutOff, lost, panicked>>

AppendMemoryHits ==
    /\ ~panicked /\ wrk = "append" /\ wrk' = "finish"
    /\ hits' = hits \cup {MemoryHit} /\ hitsMu' = "free"
    /\ UNCHANGED <<srcVars, chanVars, busVars, cons, consHand, stored,
                   repHits, repEvents, cutOff, lost, panicked>>

\* len(allHits), and allHits passed to GenerateReport: read without the mutex.
BeginReadHits ==
    /\ ~panicked /\ wrk = "finish" /\ wrk' = "reading"
    /\ UNCHANGED <<srcVars, chanVars, busVars, consVars, repHits, repEvents, cutOff, lost, panicked>>

\* Beside an append in progress the three words of the slice may be its old
\* ones, its new ones, or a mixture that points past the end of an array.
EndReadHits ==
    /\ ~panicked /\ wrk = "reading" /\ wrk' = "events"
    /\ \/ repHits' = hits /\ UNCHANGED panicked
       \/ cons = "append" /\ repHits' = hits \cup Contents(consHand) /\ UNCHANGED panicked
       \/ cons = "append" /\ panicked' = TRUE /\ UNCHANGED repHits
    /\ UNCHANGED <<srcVars, chanVars, busVars, consVars, repEvents, cutOff, lost>>

\* Mutant: the query of the timeline is limited to two rows.
GetJobEventsLimited ==
    /\ ~panicked /\ wrk = "events" /\ wrk' = "done"
    /\ repEvents' = {stored[i] : i \in (1..Len(stored)) \cap (1..2)}
    /\ UNCHANGED <<srcVars, chanVars, busVars, consVars, repHits, cutOff, lost, panicked>>

\* GenerateReport reads the events, ordered by time, once it holds the hits.  An
\* error of the query or of a row is returned, and no report is made.  The error
\* that ends the iteration is not looked at (rows.Err): the rows read by then
\* are the timeline.
GetJobEvents ==
    /\ ~panicked /\ wrk = "events"
    /\ \/ \E n \in 0..Len(stored) :
            /\ n = Len(stored) \/ StoreErrs
            /\ wrk' = "done" /\ repEvents' = {stored[i] : i \in 1..n} /\ cutOff' = (n < Len(stored))
       \/ StoreErrs /\ wrk' = "unreported" /\ UNCHANGED <<repEvents, cutOff>>
    /\ UNCHANGED <<srcVars, chanVars, busVars, consVars, repHits, lost, panicked>>

-----------------------------------------------------------------------------
Monitor    == BeginTurn \/ EndTurn \/ MonitorEnds \/ TrySend \/ Send
Forwarder  == ForwarderReceives \/ Publish \/ ForwarderEnds
Dispatcher == DispatcherReceives \/ Dispatch \/ DispatcherEnds
Consumer   == ConsumerReceives \/ SaveEvent \/ ProcessEvent \/ AppendHit
WorkerStep == \/ StartMonitor \/ FailJob \/ StopMonitor \/ ClosePublishChan \/ StopPipeline
              \/ InspectProcess \/ ScanMemory \/ AppendMemoryHits
              \/ BeginReadHits \/ EndReadHits \/ GetJobEvents

\* A panic in any goroutine ends the whole process: no action is left then.
Next == \/ Monitor \/ SendCompletes \/ Forwarder \/ Dispatcher \/ Consumer
        \/ WorkerStep \/ Deadline \/ Cancel

Spec == Init /\ [][Next]_vars

\* The Go scheduler runs every goroutine that can run.  Nothing is asked of the
\* monitor, which may emit nothing, nor of the worker.
Fairness ==
    /\ WF_vars(SendCompletes) /\ WF_vars(Forwarder)
    /\ WF_vars(Dispatcher) /\ WF_vars(Consumer)

FairSpec == Spec /\ Fairness

-----------------------------------------------------------------------------
(* Properties.                                                             *)

\* Every event on its way to the store, the oldest first.
InFlight == (IF cons = "save" THEN consHand ELSE <<>>)
            \o consumerChan \o dispHand \o stream \o fwdHand \o publishChan \o srcHand

\* No event vanishes: each one emitted is stored, in flight, or was dropped at
\* a full channel, a failed save or a closed channel, and only one of these.
Accounted ==
    /\ 1..sent = Contents(stored) \cup Contents(InFlight) \cup lost
    /\ Contents(stored \o InFlight) \cap lost = {}

\* The evidence is in the timeline: an event behind a hit of the report is an
\* event of the report, unless its own save failed or the store failed while the
\* report read it, and then what is missing is the end of the timeline.  The
\* consumer saves an event before it scores it, and the report takes the hits
\* before the events (GenerateReport, GetJobEvents).
HitsBackedByTimeline ==
    wrk = "done" =>
        \A h \in repHits \ ({MemoryHit} \cup lost \cup repEvents) :
            cutOff /\ \A e \in repEvents : e < h

\* Nothing behind publishChan blocks, so a blocking send of the monitor gets
\* through however slow the store is and after the bus is stopped ("to prevent
\* blocking monitors"), unless the channel is closed under it.
MonitorNotStuck == src = "blocked" ~> (src # "blocked" \/ panicked)

\* "StopPipeline shuts down the dispatcher", with events still in the stream.
DispatcherStops == busCtx = "done" ~> (disp = "ended" \/ panicked)

\* The pipeline implements the log that may miss events.
Log == INSTANCE LossyLog WITH emitted <- sent, log <- stored
LogSpec == Log!Spec
=============================================================================
