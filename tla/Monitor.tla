------------------------------ MODULE Monitor ------------------------------
(***************************************************************************)
(* The request monitor (middleware/monitor.go) with its two audiences: the *)
(* dashboards that hold an event stream open and the command "apig0        *)
(* monitor", which follows the event file (cli/cli.go).                    *)
(*                                                                         *)
(* Every request goroutine draws an event number, records the event in the *)
(* ring, the counters and the file under m.mu, and offers it to each       *)
(* subscriber in turn under the read lock of m.subMu, without waiting for  *)
(* a full channel.  A dashboard reads a snapshot, subscribes in a later    *)
(* section, and then forwards what its channel holds.                      *)
(*                                                                         *)
(* Latency, addresses and times of an event are left out: it is a number,  *)
(* the service of its path and whether its status was 400 or more.         *)
(***************************************************************************)
EXTENDS Integers, Sequences, FiniteSets

CONSTANTS
    Req,                    \* request goroutines
    Client,                 \* dashboards: connections to /api/admin/events
    Reading,                \* those that keep reading their connection
    Follower,               \* runs of "apig0 monitor -f"
    Service, Gateway,       \* first path segments; "_gateway" stands for none
    Outcome,                \* what requests may end in: service and failure
    maxRecentEvents,        \* size of the ring
    ChanCap,                \* capacity of a subscriber's channel
    Lines,                  \* option -n of the command
    FileErrors,             \* may appending to the event file fail?
    MaxEvents               \* bound of the instance

ASSUME MonitorConstants ==
    /\ maxRecentEvents \in Nat \ {0} /\ ChanCap \in Nat \ {0}
    /\ Lines \in Nat \ {0} /\ MaxEvents \in Nat /\ FileErrors \in BOOLEAN
    /\ Reading \subseteq Client
    /\ Gateway \notin Service /\ Client \cap Follower = {}
    /\ Outcome \subseteq (Service \cup {Gateway}) \X BOOLEAN

VARIABLES
    nextID,
    ring, ringHead, ringLen, total, totalErr, services,
    file,                   \* the event file
    subscribers,
    req,                    \* the local variables of each request
    client,                 \* those of each SSEHandler
    follower,               \* those of each run of the command
    recorded,               \* history: all events, in the order of the lock
    recent, live,           \* history: what each viewer was handed when it
                            \* opened the feed and what it was shown since
    gap,                    \* history: events offered to the subscribers
                            \* after a dashboard's snapshot, before it joined
    dropped                 \* history: events a full channel refused

monitorVars == <<nextID, ring, ringHead, ringLen, total, totalErr, services, file>>
viewVars == <<recent, live, gap, dropped>>
vars == <<nextID, ring, ringHead, ringLen, total, totalErr, services, file,
          subscribers, req, client, follower, recorded, recent, live, gap, dropped>>

RequestEvent == [id : 1..MaxEvents, service : Service \cup {Gateway}, failed : BOOLEAN]
NoEvent == [id |-> 0, service |-> Gateway, failed |-> FALSE]
Viewer == Client \cup Follower
Slot == 0 .. maxRecentEvents - 1
ServiceCounter == [backend : {"absent", "unknown", "known"},    \* "absent": no entry
                   requests : Nat, errors : Nat, lastFailed : BOOLEAN]
NoCounter == [backend |-> "absent", requests |-> 0, errors |-> 0, lastFailed |-> FALSE]
IdleReq == [pc |-> "idle", evt |-> NoEvent, left |-> {}]
Sending(e, left) == IF left = {} THEN IdleReq ELSE [pc |-> "sending", evt |-> e, left |-> left]
NewClient == [pc |-> "new", gone |-> FALSE, chan |-> <<>>, since |-> 0]

SetOf(s) == {s[i] : i \in DOMAIN s}
LastOf(n, s) == IF Len(s) <= n THEN s ELSE SubSeq(s, Len(s) - n + 1, Len(s))

Init ==
    /\ nextID = 0
    /\ ring = [k \in Slot |-> NoEvent] /\ ringHead = 0 /\ ringLen = 0
    /\ total = 0 /\ totalErr = 0
    /\ services = [s \in Service \cup {Gateway} |-> NoCounter]
    /\ file = <<>>
    /\ subscribers = {}
    /\ req = [r \in Req |-> IdleReq]
    /\ client = [c \in Client |-> NewClient]
    /\ follower = [f \in Follower |-> [pc |-> "new", pos |-> 0]]
    /\ recorded = <<>>
    /\ recent = [v \in Viewer |-> <<>>] /\ live = [v \in Viewer |-> <<>>]
    /\ gap = [c \in Client |-> {}] /\ dropped = [c \in Client |-> {}]

-----------------------------------------------------------------------------
(* Requests *)

(* The handlers behind the middleware have answered: nextID.Add(1) and the *)
(* event.  (A handler that panics, as the reverse proxy does when a body   *)
(* breaks off, never gets here, and a request for an administration path   *)
(* is not monitored: neither leaves a trace in the monitor.)               *)
Stamp(r) ==
    /\ req[r].pc = "idle" /\ nextID < MaxEvents
    /\ nextID' = nextID + 1
    /\ \E o \in Outcome :
          req' = [req EXCEPT ![r] =
                    [pc |-> "stamped", left |-> {},
                     evt |-> [id |-> nextID', service |-> o[1], failed |-> o[2]]]]
    /\ UNCHANGED <<ring, ringHead, ringLen, total, totalErr, services, file, subscribers,
                   client, follower, recorded, viewVars>>

RingAfter(e) == [ring EXCEPT ![ringHead] = e]

(* Mutated: the index runs past the ring. *)
HeadPastRing == ringHead + 1

HeadAfter == (ringHead + 1) % maxRecentEvents

Counted(sc, e) ==
    [backend |-> IF sc.backend = "absent" THEN "unknown" ELSE sc.backend,
     requests |-> sc.requests + 1,
     errors |-> IF e.failed THEN sc.errors + 1 ELSE sc.errors,
     lastFailed |-> e.failed]

(* record: one section of m.mu, the append to the file included, whose     *)
(* errors are ignored.                                                     *)
Record(r) ==
    LET e == req[r].evt IN
    /\ req[r].pc = "stamped"
    /\ ring' = RingAfter(e)
    /\ ringHead' = HeadAfter
    /\ ringLen' = IF ringLen < maxRecentEvents THEN ringLen + 1 ELSE ringLen
    /\ total' = total + 1
    /\ totalErr' = IF e.failed THEN totalErr + 1 ELSE totalErr
    /\ services' = [services EXCEPT ![e.service] = Counted(@, e)]
    /\ \/ file' = Append(file, e)
       \/ FileErrors /\ file' = file
    /\ recorded' = Append(recorded, e)
    /\ req' = [req EXCEPT ![r].pc = "recorded"]
    /\ UNCHANGED <<nextID, subscribers, client, follower, viewVars>>

(* Mutated: the event is offered before it is recorded. *)
BroadcastFirst(r) ==
    /\ req[r].pc = "stamped"
    /\ req' = [req EXCEPT ![r] = Sending(req[r].evt, subscribers)]
    /\ UNCHANGED <<monitorVars, subscribers, client, follower, recorded, viewVars>>

(* broadcast takes the read lock: no dashboard joins or leaves until this  *)
(* request has offered its event to all of them.                           *)
BeginBroadcast(r) ==
    /\ req[r].pc = "recorded"
    /\ req' = [req EXCEPT ![r] = Sending(req[r].evt, subscribers)]
    /\ gap' = [c \in Client |-> IF client[c].pc = "snapped"
                                THEN gap[c] \cup {req[r].evt} ELSE gap[c]]
    /\ UNCHANGED <<monitorVars, subscribers, client, follower, recorded, recent, live, dropped>>

(* Mutated: a send that waits for room in the channel. *)
SendOrWait(r, c) ==
    /\ req[r].pc = "sending" /\ c \in req[r].left
    /\ Len(client[c].chan) < ChanCap
    /\ req' = [req EXCEPT ![r] = Sending(@.evt, @.left \ {c})]
    /\ client' = [client EXCEPT ![c].chan = Append(@, req[r].evt)]
    /\ UNCHANGED <<monitorVars, subscribers, follower, recorded, viewVars>>

(* Mutated: the first full channel ends the loop. *)
SendOrStop(r, c) ==
    /\ req[r].pc = "sending" /\ c \in req[r].left
    /\ \/ /\ Len(client[c].chan) < ChanCap
          /\ client' = [client EXCEPT ![c].chan = Append(@, req[r].evt)]
          /\ req' = [req EXCEPT ![r] = Sending(@.evt, @.left \ {c})]
          /\ UNCHANGED dropped
       \/ /\ Len(client[c].chan) >= ChanCap
          /\ dropped' = [dropped EXCEPT ![c] = @ \cup {req[r].evt}]
          /\ req' = [req EXCEPT ![r] = IdleReq]
          /\ UNCHANGED client
    /\ UNCHANGED <<monitorVars, subscribers, follower, recorded, recent, live, gap>>

(* One turn of the loop over the subscribers, whose order is Go's choice:  *)
(* a send that does not wait.                                              *)
Send(r, c) ==
    /\ req[r].pc = "sending" /\ c \in req[r].left
    /\ req' = [req EXCEPT ![r] = Sending(@.evt, @.left \ {c})]
    /\ \/ /\ Len(client[c].chan) < ChanCap
          /\ client' = [client EXCEPT ![c].chan = Append(@, req[r].evt)]
          /\ UNCHANGED dropped
       \/ /\ Len(client[c].chan) >= ChanCap
          /\ dropped' = [dropped EXCEPT ![c] = @ \cup {req[r].evt}]
          /\ UNCHANGED client
    /\ UNCHANGED <<monitorVars, subscribers, follower, recorded, recent, live, gap>>

(* The catch-all handler of main.go registers the service again each time  *)
(* it forwards a request, between the sections of other requests.          *)
RegisterService(s) ==
    /\ services' = [services EXCEPT ![s].backend = "known"]
    /\ UNCHANGED <<nextID, ring, ringHead, ringLen, total, totalErr, file, subscribers,
                   req, client, follower, recorded, viewVars>>

-----------------------------------------------------------------------------
(* Dashboards *)

(* Mutated: the ring is always read from the slot to be written next. *)
RingFromHead == ringHead

RingStart == IF ringHead - ringLen < 0 THEN ringHead - ringLen + maxRecentEvents
                                       ELSE ringHead - ringLen

(* recentEvents: the ring from its oldest entry.                           *)
RecentEvents ==
    [i \in 1..ringLen |-> ring[(RingStart + i - 1) % maxRecentEvents]]

Unlocked == \A r \in Req : req[r].pc # "sending"

(* SSEHandler sends the snapshot.                                          *)
SendSnapshot(c) ==
    /\ client[c].pc = "new"
    /\ client' = [client EXCEPT ![c].pc = "snapped", ![c].since = Len(recorded)]
    /\ recent' = [recent EXCEPT ![c] = RecentEvents]
    /\ UNCHANGED <<monitorVars, subscribers, req, follower, recorded, live, gap, dropped>>

Subscribe(c) ==
    /\ client[c].pc = "snapped" /\ Unlocked
    /\ subscribers' = subscribers \cup {c}
    /\ client' = [client EXCEPT ![c].pc = "live"]
    /\ UNCHANGED <<monitorVars, req, follower, recorded, viewVars>>

(* The browser closes the connection.                                      *)
Disconnect(c) ==
    /\ client[c].pc \in {"snapped", "live"} /\ ~client[c].gone
    /\ client' = [client EXCEPT ![c].gone = TRUE]
    /\ UNCHANGED <<monitorVars, subscribers, req, follower, recorded, viewVars>>

(* The loop takes a message and writes it.  A connection that is gone may  *)
(* still take it into its buffer, or refuse it.                            *)
Stream(c) ==
    /\ client[c].pc = "live" /\ client[c].chan # <<>>
    /\ client' = [client EXCEPT ![c].chan = Tail(@)]
    /\ live' = [live EXCEPT ![c] = Append(@, Head(client[c].chan))]
    /\ UNCHANGED <<monitorVars, subscribers, req, follower, recorded, recent, gap, dropped>>

StreamFails(c) ==
    /\ client[c].pc = "live" /\ client[c].chan # <<>> /\ client[c].gone
    /\ client' = [client EXCEPT ![c].chan = Tail(@), ![c].pc = "leaving"]
    /\ UNCHANGED <<monitorVars, subscribers, req, follower, recorded, viewVars>>

(* The context is done, or a heartbeat cannot be written: the loop ends.   *)
EndStream(c) ==
    /\ client[c].pc = "live" /\ client[c].gone
    /\ client' = [client EXCEPT ![c].pc = "leaving"]
    /\ UNCHANGED <<monitorVars, subscribers, req, follower, recorded, viewVars>>

Unsubscribe(c) ==
    /\ client[c].pc = "leaving" /\ Unlocked
    /\ subscribers' = subscribers \ {c}
    /\ client' = [client EXCEPT ![c] = [NewClient EXCEPT !.pc = "closed"]]
    /\ recent' = [recent EXCEPT ![c] = <<>>] /\ live' = [live EXCEPT ![c] = <<>>]
    /\ gap' = [gap EXCEPT ![c] = {}] /\ dropped' = [dropped EXCEPT ![c] = {}]
    /\ UNCHANGED <<monitorVars, req, follower, recorded>>

-----------------------------------------------------------------------------
(* apig0 monitor -f, a process of its own *)

ReadMonitorEvents(f) ==
    /\ follower[f].pc = "new"
    /\ follower' = [follower EXCEPT ![f].pc = "read"]
    /\ recent' = [recent EXCEPT ![f] = LastOf(Lines, file)]
    /\ UNCHANGED <<monitorVars, subscribers, req, client, recorded, live, gap, dropped>>

(* The file is opened a second time and read from its end.                 *)
SeekEnd(f) ==
    /\ follower[f].pc = "read"
    /\ follower' = [follower EXCEPT ![f] = [pc |-> "following", pos |-> Len(file)]]
    /\ UNCHANGED <<monitorVars, subscribers, req, client, recorded, viewVars>>

ReadLine(f) ==
    /\ follower[f].pc = "following" /\ follower[f].pos < Len(file)
    /\ follower' = [follower EXCEPT ![f].pos = @ + 1]
    /\ live' = [live EXCEPT ![f] = Append(@, file[follower'[f].pos])]
    /\ UNCHANGED <<monitorVars, subscribers, req, client, recorded, recent, gap, dropped>>

Interrupt(f) ==
    /\ follower[f].pc \in {"read", "following"}
    /\ follower' = [follower EXCEPT ![f] = [pc |-> "closed", pos |-> 0]]
    /\ recent' = [recent EXCEPT ![f] = <<>>] /\ live' = [live EXCEPT ![f] = <<>>]
    /\ UNCHANGED <<monitorVars, subscribers, req, client, recorded, gap, dropped>>

-----------------------------------------------------------------------------

RequestStep(r) ==
    Record(r) \/ BeginBroadcast(r) \/ \E c \in Client : Send(r, c)

Next ==
    \/ \E r \in Req : Stamp(r) \/ RequestStep(r)
    \/ \E s \in Service : RegisterService(s)
    \/ \E c \in Client :
          \/ SendSnapshot(c) \/ Subscribe(c) \/ Disconnect(c)
          \/ Stream(c) \/ StreamFails(c) \/ EndStream(c) \/ Unsubscribe(c)
    \/ \E f \in Follower :
          ReadMonitorEvents(f) \/ SeekEnd(f) \/ ReadLine(f) \/ Interrupt(f)

Spec == Init /\ [][Next]_vars

(* The Go scheduler runs every goroutine that can run, so requests and the *)
(* handlers of dashboards that read go on; the others may stop reading and *)
(* stay forever.  A Lock call of a Go RWMutex keeps new readers out, so a  *)
(* handler that waits for it gets it however many broadcasts come: strong  *)
(* fairness.                                                               *)
Fairness ==
    /\ \A r \in Req : WF_vars(RequestStep(r))
    /\ \A c \in Reading :
          /\ WF_vars(Stream(c)) /\ WF_vars(StreamFails(c) \/ EndStream(c))
          /\ SF_vars(Subscribe(c)) /\ SF_vars(Unsubscribe(c))

FairSpec == Spec /\ Fairness

-----------------------------------------------------------------------------
(* Properties *)

TypeOK ==
    /\ nextID \in 0..MaxEvents
    /\ ring \in [Slot -> RequestEvent \cup {NoEvent}]
    /\ ringHead \in Slot /\ ringLen \in 0..maxRecentEvents
    /\ total \in Nat /\ totalErr \in 0..total
    /\ services \in [Service \cup {Gateway} -> ServiceCounter]
    /\ subscribers \subseteq Client
    /\ req \in [Req -> [pc : {"idle", "stamped", "recorded", "sending"},
                        evt : RequestEvent \cup {NoEvent}, left : SUBSET Client]]
    /\ \A c \in Client :
          /\ client[c].pc \in {"new", "snapped", "live", "leaving", "closed"}
          /\ client[c].gone \in BOOLEAN /\ client[c].since \in 0..Len(recorded)
          /\ Len(client[c].chan) <= ChanCap
    /\ \A s \in {file, recorded} : SetOf(s) \subseteq RequestEvent
    /\ \A f \in Follower : follower[f].pos \in 0..Len(file)

FailuresIn(s) == {i \in DOMAIN s : s[i].failed}

(* What a snapshot computes is true of all requests recorded so far: the   *)
(* ring read from its oldest slot is the newest maxRecentEvents of them in *)
(* their order, however often it has wrapped, and the totals and every     *)
(* service's counters are those of the whole history (record,              *)
(* recentEvents, RegisterService).                                         *)
SnapshotExact ==
    /\ RecentEvents = LastOf(maxRecentEvents, recorded)
    /\ total = Len(recorded) /\ totalErr = Cardinality(FailuresIn(recorded))
    /\ \A s \in Service \cup {Gateway} :
          LET mine == {i \in DOMAIN recorded : recorded[i].service = s}
          IN  /\ services[s].requests = Cardinality(mine)
              /\ services[s].errors = Cardinality(mine \cap FailuresIn(recorded))

(* Where an event that a subscribed dashboard has not been shown may be.   *)
OnItsWay(e, c) ==
    \/ e \in SetOf(client[c].chan)
    \/ \E r \in Req : req[r].evt = e /\ (req[r].pc = "recorded" \/ c \in req[r].left)

(* No event gets lost in silence: a subscribed dashboard has been shown    *)
(* every event recorded since its snapshot, or the event is on its way, or *)
(* its channel was full when the event came, or the event was offered      *)
(* between the handler's snapshot and its subscription (SSEHandler,        *)
(* broadcast).                                                             *)
LossesAccounted ==
    \A c \in subscribers : client[c].pc = "live" =>
       \A i \in client[c].since + 1 .. Len(recorded) :
          \/ recorded[i] \in SetOf(live[c]) \cup dropped[c] \cup gap[c]
          \/ OnItsWay(recorded[i], c)

Abstract == INSTANCE Feed WITH Event <- RequestEvent, published <- recorded

(* The monitor implements the lossy feed of module Feed for dashboards and *)
(* for the command line: nobody is shown an event that was not recorded,   *)
(* or one twice in one stream, although two requests may offer their       *)
(* events at once and the event file may miss some of them.                *)
IsFeed == Abstract!Spec

(* Every request ends, whatever the dashboards do: one that never reads    *)
(* its channel, or waits for the lock to leave, holds no request up        *)
(* (broadcast).                                                            *)
RequestsFinish == \A r \in Req : req[r].pc # "idle" ~> req[r].pc = "idle"

(* An event on its way through the middleware reaches every dashboard that *)
(* reads and was subscribed before the event was recorded, unless the      *)
(* dashboard goes away or its channel was full.                            *)
EventsArrive ==
    \A i \in 1..MaxEvents, c \in Reading :
       (\E r \in Req : req[r].pc = "stamped" /\ req[r].evt.id = i /\ client[c].pc = "live")
       ~> (client[c].gone \/ client[c].pc = "closed"
           \/ \E e \in SetOf(live[c]) \cup dropped[c] : e.id = i)

(* A dashboard that has gone away is taken out of the subscribers, while   *)
(* requests keep coming (the deferred function of SSEHandler).             *)
LeaversForgotten == \A c \in Reading : client[c].gone ~> client[c].pc = "closed"

=============================================================================
