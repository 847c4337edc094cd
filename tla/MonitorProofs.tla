---------------------------- MODULE MonitorProofs ----------------------------
(***************************************************************************)
(* Proofs about the request monitor, for any number of requests,           *)
(* dashboards and followers, any size of the ring and of the channels, and *)
(* whether or not the event file takes every event.                        *)
(*                                                                         *)
(* That the monitor is a feed rests on the numbers of the events: they are *)
(* drawn once each, so an event that a request still has to offer to a     *)
(* dashboard is neither in that dashboard's channel nor on its screen      *)
(* (OfferInv), and the lines of the event file are all different           *)
(* (FileInv).  A snapshot is exact because the ring, read from its oldest  *)
(* slot, stays the end of the history through every wrap (RingInv).        *)
(***************************************************************************)
EXTENDS Monitor, TLAPS, SequenceTheorems, FiniteSetTheorems

Request == [pc : {"idle", "stamped", "recorded", "sending"},
            evt : RequestEvent \cup {NoEvent}, left : SUBSET Client]
Dashboard == [pc : {"new", "snapped", "live", "leaving", "closed"}, gone : BOOLEAN,
              chan : Seq(RequestEvent), since : Nat]
Run == [pc : {"new", "read", "following", "closed"}, pos : Nat]

(* The types of the monitor's own state,                                   *)
StoreInv ==
    /\ nextID \in 0..MaxEvents
    /\ ring \in [Slot -> RequestEvent \cup {NoEvent}]
    /\ ringHead \in Slot /\ ringLen \in 0..maxRecentEvents
    /\ total \in Nat /\ totalErr \in 0..total
    /\ services \in [Service \cup {Gateway} -> ServiceCounter]
    /\ recorded \in Seq(RequestEvent) /\ file \in Seq(RequestEvent)

(* and of what the goroutines keep.                                        *)
ReqInv ==
    /\ req \in [Req -> Request]
    /\ \A r \in Req : /\ req[r].pc # "idle" => req[r].evt \in RequestEvent
                      /\ req[r].pc # "sending" => req[r].left = {}

ClientInv ==
    /\ client \in [Client -> Dashboard]
    /\ \A c \in Client : Len(client[c].chan) <= ChanCap /\ client[c].since <= Len(recorded)
    /\ subscribers \subseteq Client

FollowerInv ==
    /\ follower \in [Follower -> Run]
    /\ \A f \in Follower : follower[f].pos <= Len(file)

ViewInv ==
    /\ recent \in [Viewer -> Seq(RequestEvent)] /\ live \in [Viewer -> Seq(RequestEvent)]
    /\ gap \in [Client -> SUBSET RequestEvent] /\ dropped \in [Client -> SUBSET RequestEvent]

MonitorTypes == StoreInv /\ ReqInv /\ ClientInv /\ FollowerInv /\ ViewInv

-----------------------------------------------------------------------------
(* Every event has a number of its own: requests under way have different  *)
(* ones, and a stamped event is not recorded yet.                          *)
EventInv ==
    /\ \A e \in SetOf(recorded) : e.id <= nextID
    /\ \A r \in Req : req[r].pc # "idle" => req[r].evt.id <= nextID
    /\ \A r, o \in Req : r # o /\ req[r].pc # "idle" /\ req[o].pc # "idle"
                            => req[r].evt.id # req[o].evt.id
    /\ \A r \in Req : req[r].pc = "stamped" => \A e \in SetOf(recorded) : e.id # req[r].evt.id
    /\ \A r \in Req : req[r].pc \in {"recorded", "sending"} => req[r].evt \in SetOf(recorded)

Distinct(s) == \A i, j \in DOMAIN s : s[i] = s[j] => i = j

(* r still has to offer its event to c.                                    *)
Owes(r, c) ==
    \/ req[r].pc \in {"stamped", "recorded"}
    \/ req[r].pc = "sending" /\ c \in req[r].left

(* A channel holds recorded events that were not shown, each once, and     *)
(* none that a request still has to offer.                                 *)
OfferAt(c) ==
    /\ SetOf(client[c].chan) \subseteq SetOf(recorded) /\ SetOf(live[c]) \subseteq SetOf(recorded)
    /\ Distinct(client[c].chan) /\ SetOf(client[c].chan) \cap SetOf(live[c]) = {}
    /\ \A r \in Req : Owes(r, c) => req[r].evt \notin SetOf(client[c].chan) \cup SetOf(live[c])

OfferInv == \A c \in Client : OfferAt(c)

(* The file is part of the history, and a follower has been shown lines    *)
(* before its place.                                                       *)
FileInv ==
    /\ Abstract!PartOf(file, recorded) /\ Distinct(file)
    /\ \A f \in Follower : \A e \in SetOf(live[f]) :
          \E i \in 1..follower[f].pos : file[i] = e

(* Who has not opened the feed has seen nothing.                           *)
OpeningInv ==
    /\ \A c \in Client : client[c].pc = "new" => recent[c] = <<>> /\ live[c] = <<>>
    /\ \A f \in Follower : /\ follower[f].pc = "new" => recent[f] = <<>>
                           /\ follower[f].pc \in {"new", "read"} => live[f] = <<>>

(* The ring from its oldest slot is the end of the history.                *)
RingInv ==
    /\ ringLen = IF Len(recorded) < maxRecentEvents THEN Len(recorded) ELSE maxRecentEvents
    /\ \A i \in 1..ringLen :
          ring[(RingStart + i - 1) % maxRecentEvents] = recorded[Len(recorded) - ringLen + i]

Mine(s) == {i \in DOMAIN recorded : recorded[i].service = s}

CountInv ==
    /\ total = Len(recorded) /\ totalErr = Cardinality(FailuresIn(recorded))
    /\ \A s \in Service \cup {Gateway} :
          /\ services[s].requests = Cardinality(Mine(s))
          /\ services[s].errors = Cardinality(Mine(s) \cap FailuresIn(recorded))

(* What became of the events recorded since the snapshot of a dashboard    *)
(* that is about to subscribe, or has subscribed.                          *)
LossInv ==
    \A c \in Client :
       /\ client[c].pc = "live" => c \in subscribers
       /\ client[c].pc = "snapped" =>
             \A i \in client[c].since + 1 .. Len(recorded) :
                \/ recorded[i] \in gap[c]
                \/ \E r \in Req : req[r].evt = recorded[i] /\ req[r].pc = "recorded"
       /\ client[c].pc = "live" =>
             \A i \in client[c].since + 1 .. Len(recorded) :
                \/ recorded[i] \in SetOf(live[c]) \cup dropped[c] \cup gap[c]
                \/ OnItsWay(recorded[i], c)

MonitorInv ==
    /\ MonitorTypes /\ EventInv /\ OfferInv /\ FileInv /\ OpeningInv /\ RingInv /\ CountInv
    /\ LossInv

-----------------------------------------------------------------------------
(* Sequences of events *)

(* The constants as the provers need them.                                 *)
LEMMA Constants ==
    /\ maxRecentEvents \in Nat \ {0} /\ ChanCap \in Nat \ {0} /\ Lines \in Nat \ {0}
    /\ MaxEvents \in Nat /\ Client \cap Follower = {}
    /\ \A o \in Outcome : o[1] \in Service \cup {Gateway} /\ o[2] \in BOOLEAN
BY MonitorConstants DEF MonitorConstants

(* A place that may lie one turn ahead wraps once.                         *)
LEMMA Wrap ==
    ASSUME NEW a \in 0 .. 2 * maxRecentEvents - 1
    PROVE  a % maxRecentEvents = IF a < maxRecentEvents THEN a ELSE a - maxRecentEvents
BY Constants

(* Appending an event adds it to the events of a sequence,                 *)
LEMMA AppendFacts ==
    ASSUME NEW s \in Seq(RequestEvent), NEW e \in RequestEvent
    PROVE  /\ Append(s, e) \in Seq(RequestEvent) /\ Len(Append(s, e)) = Len(s) + 1
           /\ Len(s) \in Nat
           /\ DOMAIN s = 1..Len(s) /\ DOMAIN Append(s, e) = 1..(Len(s) + 1)
           /\ \A i \in 1..Len(s) : Append(s, e)[i] = s[i]
           /\ Append(s, e)[Len(s) + 1] = e
           /\ SetOf(Append(s, e)) = SetOf(s) \cup {e}
           /\ Distinct(s) /\ e \notin SetOf(s) => Distinct(Append(s, e))
<1>1. /\ Append(s, e) \in Seq(RequestEvent) /\ Len(Append(s, e)) = Len(s) + 1
      /\ \A i \in 1..Len(s) : Append(s, e)[i] = s[i]
      /\ Append(s, e)[Len(s) + 1] = e
  BY AppendProperties
<1>2. Len(s) \in Nat /\ DOMAIN s = 1..Len(s) /\ DOMAIN Append(s, e) = 1..(Len(s) + 1)
  BY <1>1, LenProperties
<1>3. SetOf(Append(s, e)) = SetOf(s) \cup {e}
  BY <1>1, <1>2 DEF SetOf
<1>4. Distinct(s) /\ e \notin SetOf(s) => Distinct(Append(s, e))
  BY <1>1, <1>2 DEF SetOf, Distinct
<1> QED
  BY <1>1, <1>2, <1>3, <1>4

(* and taking the first one from it takes it away.                         *)
LEMMA TailFacts ==
    ASSUME NEW s \in Seq(RequestEvent), s # <<>>
    PROVE  /\ Head(s) \in RequestEvent /\ Tail(s) \in Seq(RequestEvent)
           /\ Len(Tail(s)) = Len(s) - 1
           /\ SetOf(s) = SetOf(Tail(s)) \cup {Head(s)}
           /\ Distinct(s) => Distinct(Tail(s)) /\ Head(s) \notin SetOf(Tail(s))
<1>1. /\ Head(s) \in RequestEvent /\ Tail(s) \in Seq(RequestEvent)
      /\ Len(Tail(s)) = Len(s) - 1
      /\ \A i \in 1..Len(Tail(s)) : Tail(s)[i] = s[i + 1]
  BY HeadTailProperties
<1>2. Len(s) \in Nat \ {0} /\ DOMAIN s = 1..Len(s) /\ DOMAIN Tail(s) = 1..(Len(s) - 1)
  BY <1>1, LenProperties, EmptySeq
<1>3. Head(s) = s[1]
  BY <1>2
<1>4. SetOf(s) = SetOf(Tail(s)) \cup {Head(s)}
  <2>1. ASSUME NEW i \in 1..Len(s) PROVE s[i] \in SetOf(Tail(s)) \cup {Head(s)}
    <3>1. CASE i = 1
      BY <1>3, <3>1
    <3>2. CASE i # 1
      <4>1. i - 1 \in 1..(Len(s) - 1) /\ (i - 1) + 1 = i
        BY <1>2, <3>2
      <4>2. s[i] = Tail(s)[i - 1]
        BY <1>1, <4>1
      <4> QED
        BY <1>2, <4>1, <4>2 DEF SetOf
    <3> QED
      BY <3>1, <3>2
  <2>2. SetOf(Tail(s)) \subseteq SetOf(s)
    BY <1>1, <1>2 DEF SetOf
  <2>3. Head(s) \in SetOf(s)
    BY <1>2, <1>3 DEF SetOf
  <2> QED
    BY <1>2, <2>1, <2>2, <2>3 DEF SetOf
<1>5. Distinct(s) => Distinct(Tail(s)) /\ Head(s) \notin SetOf(Tail(s))
  BY <1>1, <1>2, <1>3 DEF SetOf, Distinct
<1> QED
  BY <1>1, <1>4, <1>5

(* The last events of a sequence are part of it, in its order.             *)
LEMMA LastFacts ==
    ASSUME NEW s \in Seq(RequestEvent), NEW n \in Nat
    PROVE  LET m == IF Len(s) <= n THEN Len(s) ELSE n
           IN  /\ LastOf(n, s) \in Seq(RequestEvent) /\ Len(LastOf(n, s)) = m
               /\ \A i \in 1..m : LastOf(n, s)[i] = s[Len(s) - m + i]
<1>1. Len(s) \in Nat /\ \A i \in 1..Len(s) : s[i] \in RequestEvent
  BY LenProperties
<1>2. CASE Len(s) <= n
  BY <1>1, <1>2 DEF LastOf
<1>3. CASE ~(Len(s) <= n)
  <2> DEFINE a == Len(s) - n + 1
  <2>1. a \in Int /\ Len(s) \in Int /\ (\A i \in a..Len(s) : s[i] \in RequestEvent)
    BY <1>1, <1>3
  <2>2. /\ SubSeq(s, a, Len(s)) \in Seq(RequestEvent)
        /\ Len(SubSeq(s, a, Len(s))) = IF a <= Len(s) THEN Len(s) - a + 1 ELSE 0
        /\ \A i \in 1 .. Len(s) - a + 1 : SubSeq(s, a, Len(s))[i] = s[a + i - 1]
    <3> HIDE DEF a
    <3> QED
      BY <2>1, SubSeqProperties
  <2>3. LastOf(n, s) = SubSeq(s, a, Len(s))
    BY <1>3 DEF LastOf
  <2> QED
    BY <1>1, <1>3, <2>2, <2>3
<1> QED
  BY <1>2, <1>3

(* The empty sequence has no events.                                       *)
LEMMA EmptyFacts ==
    /\ <<>> \in Seq(RequestEvent) /\ Len(<<>>) = 0 /\ SetOf(<<>>) = {} /\ Distinct(<<>>)
BY EmptySeq DEF SetOf, Distinct

-----------------------------------------------------------------------------
(* Which steps change what *)

LEMMA WhatChanges ==
    ASSUME Next
    PROVE  /\ UNCHANGED <<ring, ringHead, ringLen, total, totalErr, recorded, file>>
              \/ \E r \in Req : Record(r)
           /\ UNCHANGED services \/ (\E r \in Req : Record(r)) \/ (\E s \in Service : RegisterService(s))
           /\ UNCHANGED nextID \/ \E r \in Req : Stamp(r)
           /\ UNCHANGED req \/ (\E r \in Req : Stamp(r) \/ RequestStep(r))
           /\ UNCHANGED follower \/ \E f \in Follower :
                 ReadMonitorEvents(f) \/ SeekEnd(f) \/ ReadLine(f) \/ Interrupt(f)
<1>1. ASSUME NEW r \in Req, Stamp(r)
      PROVE  UNCHANGED <<ring, ringHead, ringLen, total, totalErr, recorded, file, services, follower>>
  BY <1>1 DEF Stamp
<1>2. ASSUME NEW r \in Req, Record(r)
      PROVE  UNCHANGED <<nextID, follower>>
  BY <1>2 DEF Record
<1>3. ASSUME NEW r \in Req, BeginBroadcast(r) \/ \E c \in Client : Send(r, c)
      PROVE  UNCHANGED <<nextID, ring, ringHead, ringLen, total, totalErr, recorded, file, services,
                         follower>>
  BY <1>3 DEF BeginBroadcast, Send, monitorVars
<1>4. ASSUME NEW s \in Service, RegisterService(s)
      PROVE  UNCHANGED <<nextID, ring, ringHead, ringLen, total, totalErr, recorded, file, req,
                         follower>>
  BY <1>4 DEF RegisterService
<1>5. ASSUME NEW c \in Client,
             \/ SendSnapshot(c) \/ Subscribe(c) \/ Disconnect(c)
             \/ Stream(c) \/ StreamFails(c) \/ EndStream(c) \/ Unsubscribe(c)
      PROVE  UNCHANGED <<nextID, ring, ringHead, ringLen, total, totalErr, recorded, file, services,
                         req, follower>>
  BY <1>5 DEF SendSnapshot, Subscribe, Disconnect, Stream, StreamFails, EndStream, Unsubscribe,
              monitorVars
<1>6. ASSUME NEW f \in Follower,
             ReadMonitorEvents(f) \/ SeekEnd(f) \/ ReadLine(f) \/ Interrupt(f)
      PROVE  UNCHANGED <<nextID, ring, ringHead, ringLen, total, totalErr, recorded, file, services,
                         req>>
  BY <1>6 DEF ReadMonitorEvents, SeekEnd, ReadLine, Interrupt, monitorVars
<1> QED
  BY <1>1, <1>2, <1>3, <1>4, <1>5, <1>6 DEF Next, RequestStep

-----------------------------------------------------------------------------
(* Types *)

LEMMA StoreKept == ASSUME MonitorTypes, Next PROVE StoreInv'
<1> USE Constants
<1>1. CASE \E r \in Req : Stamp(r)
  <2>1. nextID' = nextID + 1 /\ nextID < MaxEvents
    BY <1>1 DEF Stamp
  <2>2. UNCHANGED <<ring, ringHead, ringLen, total, totalErr, services, file, recorded>>
    BY <1>1 DEF Stamp
  <2> QED
    BY <2>1, <2>2 DEF MonitorTypes, StoreInv
<1>2. ASSUME NEW r \in Req, Record(r) PROVE StoreInv'
  <2> DEFINE e == req[r].evt
  <2>1. e \in RequestEvent
    BY <1>2 DEF Record, MonitorTypes, ReqInv
  <2>2. e.service \in Service \cup {Gateway} /\ e.failed \in BOOLEAN
    BY <2>1 DEF RequestEvent
  <2>3. ring' \in [Slot -> RequestEvent \cup {NoEvent}]
    BY <1>2, <2>1 DEF Record, RingAfter, MonitorTypes, StoreInv
  <2>4. ringHead' \in Slot /\ ringLen' \in 0..maxRecentEvents
    <3>1. /\ ringHead \in 0 .. maxRecentEvents - 1 /\ ringLen \in 0..maxRecentEvents
          /\ ringHead' = (ringHead + 1) % maxRecentEvents
          /\ ringLen' = IF ringLen < maxRecentEvents THEN ringLen + 1 ELSE ringLen
      BY <1>2 DEF Record, HeadAfter, MonitorTypes, StoreInv, Slot
    <3>2. ringHead + 1 \in 0 .. 2 * maxRecentEvents - 1
      BY <3>1
    <3>3. ringHead' \in 0 .. maxRecentEvents - 1
      BY <3>1, <3>2, Wrap
    <3> QED
      BY <3>1, <3>3 DEF Slot
  <2>5. total' \in Nat /\ totalErr' \in 0..total'
    BY <1>2 DEF Record, MonitorTypes, StoreInv
  <2>6. services' \in [Service \cup {Gateway} -> ServiceCounter]
    <3>1. services[e.service] \in ServiceCounter
      BY <2>2 DEF MonitorTypes, StoreInv
    <3>2. Counted(services[e.service], e) \in ServiceCounter
      BY <2>2, <3>1 DEF Counted, ServiceCounter
    <3>3. services' = [services EXCEPT ![e.service] = Counted(services[e.service], e)]
      BY <1>2 DEF Record
    <3> QED
      BY <2>2, <3>2, <3>3 DEF MonitorTypes, StoreInv
  <2>7. recorded' \in Seq(RequestEvent) /\ file' \in Seq(RequestEvent)
    <3>1. recorded' = Append(recorded, e) /\ file' \in {file, Append(file, e)}
      BY <1>2 DEF Record
    <3>2. recorded \in Seq(RequestEvent) /\ file \in Seq(RequestEvent)
      BY DEF MonitorTypes, StoreInv
    <3> HIDE DEF e
    <3> QED
      BY <2>1, <3>1, <3>2, AppendFacts
  <2>8. nextID' \in 0..MaxEvents
    BY <1>2 DEF Record, MonitorTypes, StoreInv
  <2> QED
    BY <2>3, <2>4, <2>5, <2>6, <2>7, <2>8 DEF StoreInv
<1>3. ASSUME NEW s \in Service, RegisterService(s) PROVE StoreInv'
  <2>1. services' = [services EXCEPT ![s].backend = "known"]
        /\ UNCHANGED <<nextID, ring, ringHead, ringLen, total, totalErr, file, recorded>>
    BY <1>3 DEF RegisterService
  <2>2. services[s] \in ServiceCounter
    BY DEF MonitorTypes, StoreInv
  <2>3. [services[s] EXCEPT !.backend = "known"] \in ServiceCounter
    BY <2>2 DEF ServiceCounter
  <2>4. services' \in [Service \cup {Gateway} -> ServiceCounter]
    BY <2>1, <2>3 DEF MonitorTypes, StoreInv
  <2> QED
    BY <2>1, <2>4 DEF MonitorTypes, StoreInv
<1>4. CASE UNCHANGED <<nextID, ring, ringHead, ringLen, total, totalErr, services, file, recorded>>
  BY <1>4 DEF MonitorTypes, StoreInv
<1> QED
  BY <1>1, <1>2, <1>3, <1>4, WhatChanges

LEMMA ReqKept == ASSUME MonitorTypes, Next PROVE ReqInv'
<1>0. req \in [Req -> Request] /\ subscribers \subseteq Client
  BY DEF MonitorTypes, ReqInv, ClientInv
<1>1. ASSUME NEW r \in Req, NEW rec \in Request, req' = [req EXCEPT ![r] = rec],
             rec.pc # "idle" => rec.evt \in RequestEvent,
             rec.pc # "sending" => rec.left = {}
      PROVE  ReqInv'
  BY <1>0, <1>1 DEF MonitorTypes, ReqInv
<1>2. IdleReq \in Request /\ IdleReq.pc = "idle" /\ IdleReq.left = {}
  BY DEF IdleReq, Request
<1>3. ASSUME NEW r \in Req, Stamp(r) PROVE ReqInv'
  <2>1. PICK o \in Outcome :
          req' = [req EXCEPT ![r] = [pc |-> "stamped", left |-> {},
                                     evt |-> [id |-> nextID', service |-> o[1], failed |-> o[2]]]]
    BY <1>3 DEF Stamp
  <2>2. nextID' \in 1..MaxEvents
    BY <1>3, Constants DEF Stamp, MonitorTypes, StoreInv
  <2>3. [id |-> nextID', service |-> o[1], failed |-> o[2]] \in RequestEvent
    BY <2>2, Constants DEF RequestEvent
  <2> DEFINE rec == [pc |-> "stamped", left |-> {},
                     evt |-> [id |-> nextID', service |-> o[1], failed |-> o[2]]]
  <2>4. rec \in Request /\ rec.evt \in RequestEvent /\ rec.left = {}
    BY <2>3 DEF Request
  <2> HIDE DEF rec
  <2> QED
    BY <1>1, <2>1, <2>4 DEF rec
<1>4. ASSUME NEW r \in Req, Record(r) PROVE ReqInv'
  <2>1. req' = [req EXCEPT ![r].pc = "recorded"] /\ req[r].pc = "stamped"
    BY <1>4 DEF Record
  <2>2. req[r] \in Request /\ req[r].evt \in RequestEvent /\ req[r].left = {}
    BY <1>0, <2>1 DEF MonitorTypes, ReqInv
  <2> DEFINE rec == [req[r] EXCEPT !.pc = "recorded"]
  <2>3. rec \in Request /\ rec.evt = req[r].evt /\ rec.left = {}
    BY <2>2 DEF Request
  <2>4. req' = [req EXCEPT ![r] = rec]
    BY <1>0, <2>1
  <2> HIDE DEF rec
  <2> QED
    BY <1>1, <2>2, <2>3, <2>4
<1>5. ASSUME NEW r \in Req, NEW S \in SUBSET Client, req[r].pc # "idle",
             req' = [req EXCEPT ![r] = Sending(req[r].evt, S)]
      PROVE  ReqInv'
  <2>1. req[r].evt \in RequestEvent
    BY <1>5 DEF MonitorTypes, ReqInv
  <2>2. CASE S = {}
    BY <1>1, <1>2, <1>5, <2>2 DEF Sending
  <2>3. CASE S # {}
    <3> DEFINE rec == [pc |-> "sending", evt |-> req[r].evt, left |-> S]
    <3>1. rec \in Request /\ rec.evt \in RequestEvent /\ rec.pc = "sending"
      BY <2>1 DEF Request
    <3>2. req' = [req EXCEPT ![r] = rec]
      BY <1>5, <2>3 DEF Sending
    <3> HIDE DEF rec
    <3> QED
      BY <1>1, <3>1, <3>2
  <2> QED
    BY <2>2, <2>3
<1>6. ASSUME NEW r \in Req, BeginBroadcast(r) PROVE ReqInv'
  BY <1>0, <1>5, <1>6 DEF BeginBroadcast
<1>7. ASSUME NEW r \in Req, NEW c \in Client, Send(r, c) PROVE ReqInv'
  <2>1. /\ req[r].pc = "sending"
        /\ req' = [req EXCEPT ![r] = Sending(req[r].evt, req[r].left \ {c})]
    BY <1>7 DEF Send
  <2>2. req[r].left \ {c} \in SUBSET Client
    BY <1>0 DEF Request
  <2> QED
    BY <1>5, <2>1, <2>2
<1>8. CASE UNCHANGED req
  BY <1>8 DEF MonitorTypes, ReqInv
<1> QED
  BY <1>3, <1>4, <1>6, <1>7, <1>8, WhatChanges DEF RequestStep

(* Dashboard c is at place p afterwards, with the channel ch, and its      *)
(* snapshot is of the first n events; the others stay as they are.         *)
Becomes(c, p, ch, n) ==
    /\ client' \in [Client -> Dashboard]
    /\ client'[c].pc = p /\ client'[c].chan = ch /\ client'[c].since = n
    /\ \A d \in Client : d # c => client'[d] = client[d]

(* What the steps of a dashboard's handler do to its local variables.      *)
LEMMA HandlerSteps ==
    ASSUME MonitorTypes, NEW c \in Client
    PROVE  /\ SendSnapshot(c) => Becomes(c, "snapped", client[c].chan, Len(recorded))
           /\ Subscribe(c) => Becomes(c, "live", client[c].chan, client[c].since)
           /\ Disconnect(c) => Becomes(c, client[c].pc, client[c].chan, client[c].since)
           /\ Stream(c) => Becomes(c, "live", Tail(client[c].chan), client[c].since)
           /\ StreamFails(c) => Becomes(c, "leaving", Tail(client[c].chan), client[c].since)
           /\ EndStream(c) => Becomes(c, "leaving", client[c].chan, client[c].since)
           /\ Unsubscribe(c) => Becomes(c, "closed", <<>>, 0)
<1>1. client \in [Client -> Dashboard] /\ client[c].chan \in Seq(RequestEvent)
  BY DEF MonitorTypes, ClientInv, Dashboard
<1>2. client[c].chan # <<>> => Tail(client[c].chan) \in Seq(RequestEvent)
  BY <1>1, TailFacts
<1>3. Len(recorded) \in Nat
  BY LenProperties DEF MonitorTypes, StoreInv
<1>4. SendSnapshot(c) => Becomes(c, "snapped", client[c].chan, Len(recorded))
  <2> SUFFICES ASSUME SendSnapshot(c)
               PROVE  Becomes(c, "snapped", client[c].chan, Len(recorded))
    OBVIOUS
  <2> DEFINE n == Len(recorded)
  <2>1. n \in Nat /\ client' = [client EXCEPT ![c].pc = "snapped", ![c].since = n]
    BY <1>3 DEF SendSnapshot
  <2> HIDE DEF n
  <2>2. Becomes(c, "snapped", client[c].chan, n)
    BY <1>1, <2>1 DEF Becomes, Dashboard
  <2> QED
    BY <2>2 DEF n
<1>5. Subscribe(c) => Becomes(c, "live", client[c].chan, client[c].since)
  BY <1>1 DEF Subscribe, Becomes, Dashboard
<1>6. Disconnect(c) => Becomes(c, client[c].pc, client[c].chan, client[c].since)
  <2>1. Disconnect(c) => client' = [client EXCEPT ![c].gone = TRUE]
    BY DEF Disconnect
  <2>2. client' = [client EXCEPT ![c].gone = TRUE]
           => Becomes(c, client[c].pc, client[c].chan, client[c].since)
    BY <1>1, ZenonT(40) DEF Becomes, Dashboard
  <2> QED
    BY <2>1, <2>2
<1>7. Stream(c) => Becomes(c, "live", Tail(client[c].chan), client[c].since)
  <2> SUFFICES ASSUME Stream(c) PROVE Becomes(c, "live", Tail(client[c].chan), client[c].since)
    OBVIOUS
  <2> DEFINE rest == Tail(client[c].chan)
  <2>1. /\ client' = [client EXCEPT ![c].chan = rest] /\ client[c].pc = "live"
        /\ rest \in Seq(RequestEvent)
    BY <1>1, <1>2 DEF Stream
  <2> HIDE DEF rest
  <2>2. Becomes(c, "live", rest, client[c].since)
    BY <1>1, <2>1 DEF Becomes, Dashboard
  <2> QED
    BY <2>2 DEF rest
<1>8. StreamFails(c) => Becomes(c, "leaving", Tail(client[c].chan), client[c].since)
  <2> SUFFICES ASSUME StreamFails(c)
               PROVE  Becomes(c, "leaving", Tail(client[c].chan), client[c].since)
    OBVIOUS
  <2> DEFINE rest == Tail(client[c].chan)
  <2>1. /\ client' = [client EXCEPT ![c].chan = rest, ![c].pc = "leaving"]
        /\ rest \in Seq(RequestEvent)
    BY <1>1, <1>2 DEF StreamFails
  <2> HIDE DEF rest
  <2>2. Becomes(c, "leaving", rest, client[c].since)
    BY <1>1, <2>1 DEF Becomes, Dashboard
  <2> QED
    BY <2>2 DEF rest
<1>9. EndStream(c) => Becomes(c, "leaving", client[c].chan, client[c].since)
  BY <1>1, SMTT(20) DEF EndStream, Becomes, Dashboard
<1>10. Unsubscribe(c) => Becomes(c, "closed", <<>>, 0)
  <2> DEFINE none == <<>>
             new == [pc |-> "new", gone |-> FALSE, chan |-> none, since |-> 0]
             last == [new EXCEPT !.pc = "closed"]
  <2>1. Unsubscribe(c) => client' = [client EXCEPT ![c] = last]
    BY DEF Unsubscribe, NewClient
  <2>2. none \in Seq(RequestEvent)
    BY EmptyFacts
  <2> HIDE DEF none
  <2>3. /\ last \in Dashboard /\ last.pc = "closed" /\ last.chan = none /\ last.since = 0
    BY <2>2 DEF Dashboard
  <2> HIDE DEF last
  <2>4. Unsubscribe(c) => Becomes(c, "closed", none, 0)
    BY <1>1, <2>1, <2>3 DEF Becomes
  <2> QED
    BY <2>4 DEF none
<1> QED
  BY <1>4, <1>5, <1>6, <1>7, <1>8, <1>9, <1>10

(* broadcast's send appends the event to a channel that has room.          *)
LEMMA SendStep ==
    ASSUME MonitorTypes, NEW r \in Req, NEW c \in Client, Send(r, c)
    PROVE  /\ req[r].evt \in RequestEvent /\ req[r].pc = "sending" /\ c \in req[r].left
           /\ \/ /\ Len(client[c].chan) < ChanCap /\ UNCHANGED dropped
                 /\ Becomes(c, client[c].pc, Append(client[c].chan, req[r].evt), client[c].since)
              \/ /\ UNCHANGED client
                 /\ dropped' = [dropped EXCEPT ![c] = dropped[c] \cup {req[r].evt}]
           /\ UNCHANGED <<subscribers, recorded, recent, live, gap>>
<1>1. /\ client \in [Client -> Dashboard] /\ client[c].chan \in Seq(RequestEvent)
      /\ req[r].evt \in RequestEvent /\ req[r].pc = "sending" /\ c \in req[r].left
  BY DEF MonitorTypes, ClientInv, Dashboard, ReqInv, Send
<1> DEFINE more == Append(client[c].chan, req[r].evt)
<1>2. more \in Seq(RequestEvent)
  BY <1>1, AppendFacts
<1>3. \/ /\ Len(client[c].chan) < ChanCap /\ UNCHANGED dropped
         /\ client' = [client EXCEPT ![c].chan = more]
      \/ /\ UNCHANGED client
         /\ dropped' = [dropped EXCEPT ![c] = dropped[c] \cup {req[r].evt}]
  BY DEF Send
<1> HIDE DEF more
<1>4. client' = [client EXCEPT ![c].chan = more]
         => Becomes(c, client[c].pc, more, client[c].since)
  BY <1>1, <1>2 DEF Becomes, Dashboard
<1>5. UNCHANGED <<subscribers, recorded, recent, live, gap>>
  BY DEF Send
<1> QED
  BY <1>1, <1>3, <1>4, <1>5 DEF more

(* Every other step leaves the dashboards as they are.                     *)
LEMMA ClientChanges ==
    ASSUME Next
    PROVE  \/ UNCHANGED <<client, subscribers>>
           \/ \E r \in Req, c \in Client : Send(r, c)
           \/ \E c \in Client : \/ SendSnapshot(c) \/ Subscribe(c) \/ Disconnect(c)
                                \/ Stream(c) \/ StreamFails(c) \/ EndStream(c) \/ Unsubscribe(c)
<1>1. ASSUME NEW r \in Req, Stamp(r) \/ Record(r) \/ BeginBroadcast(r)
      PROVE  UNCHANGED <<client, subscribers>>
  BY <1>1 DEF Stamp, Record, BeginBroadcast
<1>2. ASSUME NEW s \in Service, RegisterService(s) PROVE UNCHANGED <<client, subscribers>>
  BY <1>2 DEF RegisterService
<1>3. ASSUME NEW f \in Follower,
             ReadMonitorEvents(f) \/ SeekEnd(f) \/ ReadLine(f) \/ Interrupt(f)
      PROVE  UNCHANGED <<client, subscribers>>
  BY <1>3 DEF ReadMonitorEvents, SeekEnd, ReadLine, Interrupt
<1> QED
  BY <1>1, <1>2, <1>3 DEF Next, RequestStep

LEMMA ClientKept == ASSUME MonitorTypes, Next PROVE ClientInv'
<1>1. /\ client \in [Client -> Dashboard] /\ subscribers \subseteq Client
      /\ \A d \in Client : /\ client[d].chan \in Seq(RequestEvent) /\ client[d].since \in Nat
                          /\ Len(client[d].chan) <= ChanCap /\ client[d].since <= Len(recorded)
                          /\ Len(client[d].chan) \in Nat
  BY LenProperties DEF MonitorTypes, ClientInv, Dashboard
<1>2. Len(recorded) \in Nat /\ Len(recorded') \in Nat /\ Len(recorded) <= Len(recorded')
  <2>1. recorded \in Seq(RequestEvent) /\ recorded' \in Seq(RequestEvent)
    BY StoreKept DEF MonitorTypes, StoreInv
  <2>2. ASSUME NEW r \in Req, Record(r) PROVE Len(recorded') = Len(recorded) + 1
    <3>1. recorded' = Append(recorded, req[r].evt) /\ req[r].evt \in RequestEvent
      BY <2>2 DEF Record, MonitorTypes, ReqInv
    <3> QED
      BY <2>1, <3>1, AppendFacts
  <2>3. Len(recorded) \in Nat /\ Len(recorded') \in Nat
    BY <2>1, LenProperties
  <2> QED
    BY <2>2, <2>3, WhatChanges
<1>3. ASSUME NEW c \in Client, NEW p, NEW ch \in Seq(RequestEvent), NEW n \in Nat,
             Becomes(c, p, ch, n), Len(ch) <= ChanCap, n <= Len(recorded),
             subscribers' \subseteq Client
      PROVE  ClientInv'
  <2> SUFFICES ASSUME NEW d \in Client
               PROVE  Len(client'[d].chan) <= ChanCap /\ client'[d].since <= Len(recorded')
    BY <1>3 DEF ClientInv, Becomes
  <2>1. CASE d = c
    BY <1>2, <1>3, <2>1 DEF Becomes
  <2>2. CASE d # c
    BY <1>1, <1>2, <1>3, <2>2 DEF Becomes
  <2> QED
    BY <2>1, <2>2
<1>4. ASSUME NEW r \in Req, NEW c \in Client, Send(r, c) PROVE ClientInv'
  <2>1. CASE UNCHANGED client
    BY <1>1, <1>2, <1>4, <2>1, SendStep DEF ClientInv
  <2>2. CASE Len(client[c].chan) < ChanCap /\
             Becomes(c, client[c].pc, Append(client[c].chan, req[r].evt), client[c].since)
    <3>1. req[r].evt \in RequestEvent /\ UNCHANGED subscribers
      BY <1>4, SendStep
    <3> DEFINE more == Append(client[c].chan, req[r].evt)
    <3>2. more \in Seq(RequestEvent) /\ Len(more) = Len(client[c].chan) + 1
      BY <1>1, <3>1, AppendFacts
    <3>3. Becomes(c, client[c].pc, more, client[c].since)
      BY <2>2
    <3> HIDE DEF more
    <3>4. Len(more) <= ChanCap
      BY <1>1, <2>2, <3>2, Constants
    <3> QED
      BY <1>1, <1>3, <3>1, <3>2, <3>3, <3>4
  <2> QED
    BY <1>4, <2>1, <2>2, SendStep
<1>5. ASSUME NEW c \in Client,
             \/ SendSnapshot(c) \/ Subscribe(c) \/ Disconnect(c)
             \/ Stream(c) \/ StreamFails(c) \/ EndStream(c) \/ Unsubscribe(c)
      PROVE  ClientInv'
  <2>1. subscribers' \subseteq Client
    BY <1>1, <1>5 DEF SendSnapshot, Subscribe, Disconnect, Stream, StreamFails, EndStream,
                      Unsubscribe
  <2>2. CASE SendSnapshot(c) \/ Subscribe(c) \/ Disconnect(c) \/ EndStream(c)
    BY <1>1, <1>2, <1>3, <2>1, <2>2, HandlerSteps
  <2>3. CASE Stream(c) \/ StreamFails(c)
    <3>1. client[c].chan # <<>>
      BY <2>3 DEF Stream, StreamFails
    <3> DEFINE rest == Tail(client[c].chan)
    <3>2. rest \in Seq(RequestEvent) /\ Len(rest) = Len(client[c].chan) - 1
      BY <1>1, <3>1, TailFacts
    <3>3. Becomes(c, "live", rest, client[c].since) \/ Becomes(c, "leaving", rest, client[c].since)
      BY <2>3, HandlerSteps
    <3> HIDE DEF rest
    <3>4. Len(rest) <= ChanCap
      BY <1>1, <3>2, Constants
    <3> QED
      BY <1>1, <1>3, <2>1, <3>2, <3>3, <3>4
  <2>4. CASE Unsubscribe(c)
    <3>1. Len(<<>>) <= ChanCap /\ 0 <= Len(recorded) /\ 0 \in Nat
      BY <1>2, EmptyFacts, Constants
    <3> QED
      BY <1>3, <2>1, <2>4, <3>1, HandlerSteps, EmptyFacts
  <2> QED
    BY <1>5, <2>2, <2>3, <2>4
<1>6. CASE UNCHANGED <<client, subscribers>>
  BY <1>1, <1>2, <1>6 DEF ClientInv
<1> QED
  BY <1>4, <1>5, <1>6, ClientChanges

LEMMA FollowerKept == ASSUME MonitorTypes, Next PROVE FollowerInv'
<1>1. /\ follower \in [Follower -> Run] /\ \A f \in Follower : follower[f].pos <= Len(file)
      /\ \A f \in Follower : follower[f].pos \in Nat
  BY DEF MonitorTypes, FollowerInv, Run
<1>2. Len(file) \in Nat
  BY LenProperties DEF MonitorTypes, StoreInv
<1>3. ASSUME NEW f \in Follower, NEW n \in 0..Len(file), UNCHANGED file,
             NEW p \in {"new", "read", "following", "closed"},
             follower' = [follower EXCEPT ![f] = [pc |-> p, pos |-> n]]
      PROVE  FollowerInv'
  BY <1>1, <1>2, <1>3 DEF FollowerInv, Run
<1>4. ASSUME NEW f \in Follower, ReadMonitorEvents(f) PROVE FollowerInv'
  <2>1. follower' = [follower EXCEPT ![f].pc = "read"] /\ UNCHANGED file
    BY <1>4 DEF ReadMonitorEvents, monitorVars
  <2> QED
    BY <1>1, <2>1 DEF FollowerInv, Run
<1>5. ASSUME NEW f \in Follower, SeekEnd(f) \/ Interrupt(f) PROVE FollowerInv'
  BY <1>2, <1>3, <1>5 DEF SeekEnd, Interrupt, monitorVars
<1>6. ASSUME NEW f \in Follower, ReadLine(f) PROVE FollowerInv'
  <2>1. /\ follower' = [follower EXCEPT ![f].pos = follower[f].pos + 1] /\ UNCHANGED file
        /\ follower[f].pos < Len(file)
    BY <1>6 DEF ReadLine, monitorVars
  <2> QED
    BY <1>1, <1>2, <2>1 DEF FollowerInv, Run
<1>7. CASE UNCHANGED follower
  <2>1. ASSUME NEW r \in Req, Record(r) PROVE Len(file) <= Len(file') /\ Len(file') \in Nat
    <3>1. file' \in {file, Append(file, req[r].evt)} /\ req[r].evt \in RequestEvent
          /\ file \in Seq(RequestEvent)
      BY <2>1 DEF Record, MonitorTypes, ReqInv, StoreInv
    <3> QED
      BY <1>2, <3>1, AppendFacts
  <2>2. Len(file) <= Len(file') /\ Len(file') \in Nat
    BY <1>2, <2>1, WhatChanges
  <2> QED
    BY <1>1, <1>2, <1>7, <2>2 DEF FollowerInv
<1> QED
  BY <1>4, <1>5, <1>6, <1>7, WhatChanges

-----------------------------------------------------------------------------
(* Requests and the numbers of their events *)

LEMMA StampStep ==
    ASSUME MonitorTypes, NEW r \in Req, Stamp(r)
    PROVE  /\ nextID' = nextID + 1 /\ req[r].pc = "idle"
           /\ req'[r].pc = "stamped" /\ req'[r].evt.id = nextID + 1 /\ req'[r].left = {}
           /\ \A o \in Req : o # r => req'[o] = req[o]
           /\ UNCHANGED <<subscribers, client, follower, file, recorded, recent, live, gap, dropped>>
<1>1. req \in [Req -> Request]
  BY DEF MonitorTypes, ReqInv
<1>2. PICK o \in Outcome :
         req' = [req EXCEPT ![r] = [pc |-> "stamped", left |-> {},
                                    evt |-> [id |-> nextID', service |-> o[1], failed |-> o[2]]]]
  BY DEF Stamp
<1> QED
  BY <1>1, <1>2 DEF Stamp, viewVars

LEMMA RecordStep ==
    ASSUME MonitorTypes, NEW r \in Req, Record(r)
    PROVE  /\ req[r].pc = "stamped" /\ req[r].evt \in RequestEvent
           /\ req'[r].pc = "recorded" /\ req'[r].evt = req[r].evt /\ req'[r].left = req[r].left
           /\ \A o \in Req : o # r => req'[o] = req[o]
           /\ recorded' = Append(recorded, req[r].evt) /\ recorded \in Seq(RequestEvent)
           /\ file' \in {file, Append(file, req[r].evt)} /\ file \in Seq(RequestEvent)
           /\ SetOf(recorded') = SetOf(recorded) \cup {req[r].evt}
           /\ UNCHANGED <<nextID, subscribers, client, follower, recent, live, gap, dropped>>
<1>1. /\ req \in [Req -> Request] /\ req[r].evt \in RequestEvent /\ req[r].pc = "stamped"
      /\ recorded \in Seq(RequestEvent) /\ file \in Seq(RequestEvent)
  BY DEF MonitorTypes, ReqInv, StoreInv, Record
<1>2. /\ recorded' = Append(recorded, req[r].evt) /\ file' \in {file, Append(file, req[r].evt)}
      /\ req' = [req EXCEPT ![r].pc = "recorded"]
      /\ UNCHANGED <<nextID, subscribers, client, follower, recent, live, gap, dropped>>
  BY DEF Record, viewVars
<1>3. /\ req'[r].pc = "recorded" /\ req'[r].evt = req[r].evt /\ req'[r].left = req[r].left
      /\ \A o \in Req : o # r => req'[o] = req[o]
  BY <1>1, <1>2 DEF Request
<1>4. SetOf(recorded') = SetOf(recorded) \cup {req[r].evt}
  BY <1>1, <1>2, AppendFacts
<1> QED
  BY <1>1, <1>2, <1>3, <1>4

(* A request goes on with its event while somebody is left to be told.     *)
LEMMA SendingFields ==
    ASSUME MonitorTypes, NEW r \in Req, NEW S,
           req' = [req EXCEPT ![r] = Sending(req[r].evt, S)]
    PROVE  /\ \A o \in Req : o # r => req'[o] = req[o]
           /\ S = {} => req'[r].pc = "idle" /\ req'[r].left = {}
           /\ S # {} => /\ req'[r].pc = "sending" /\ req'[r].evt = req[r].evt
                        /\ req'[r].left = S
<1>1. req \in [Req -> Request]
  BY DEF MonitorTypes, ReqInv
<1> QED
  BY <1>1 DEF Sending, IdleReq

(* broadcast begins, and offers the event to one subscriber after another. *)
LEMMA BroadcastSteps ==
    ASSUME MonitorTypes, NEW r \in Req
    PROVE  /\ BeginBroadcast(r) =>
                 /\ req' = [req EXCEPT ![r] = Sending(req[r].evt, subscribers)]
                 /\ req[r].pc = "recorded" /\ req[r].evt \in RequestEvent
                 /\ UNCHANGED <<nextID, subscribers, client, recorded, live, dropped>>
           /\ \A c \in Client : Send(r, c) =>
                 /\ req' = [req EXCEPT ![r] = Sending(req[r].evt, req[r].left \ {c})]
                 /\ req[r].pc = "sending" /\ c \in req[r].left /\ req[r].evt \in RequestEvent
                 /\ UNCHANGED <<nextID, subscribers, recorded, live, gap>>
BY DEF MonitorTypes, ReqInv, BeginBroadcast, Send, monitorVars

(* Numbers are drawn once each.                                            *)
LEMMA EventKept == ASSUME MonitorTypes, EventInv, Next PROVE EventInv'
<1>0. /\ nextID \in Nat
      /\ \A r \in Req : req[r].pc # "idle" => req[r].evt.id \in Nat
      /\ \A e \in SetOf(recorded) : e.id \in Nat
  <2>1. \A e \in RequestEvent : e.id \in Nat
    BY Constants DEF RequestEvent
  <2>2. SetOf(recorded) \subseteq RequestEvent
    BY LenProperties DEF MonitorTypes, StoreInv, SetOf
  <2> QED
    BY <2>1, <2>2, Constants DEF MonitorTypes, StoreInv, ReqInv
<1>1. ASSUME NEW r \in Req, Stamp(r) PROVE EventInv'
  <2>1. /\ nextID' = nextID + 1 /\ req'[r].pc = "stamped" /\ req'[r].evt.id = nextID + 1
        /\ \A o \in Req : o # r => req'[o] = req[o]
        /\ recorded' = recorded
    BY <1>1, StampStep
  <2>2. /\ \A e \in SetOf(recorded) : e.id <= nextID
        /\ \A o \in Req : req[o].pc # "idle" => req[o].evt.id <= nextID
    BY DEF EventInv
  <2>3. /\ \A e \in SetOf(recorded') : e.id <= nextID' /\ e.id # nextID + 1
        /\ \A o \in Req : req'[o].pc # "idle" => req'[o].evt.id <= nextID'
        /\ \A o \in Req : o # r /\ req'[o].pc # "idle" => req'[o].evt.id # nextID + 1
    BY <1>0, <2>1, <2>2
  <2>4. \A q, o \in Req : q # o /\ req'[q].pc # "idle" /\ req'[o].pc # "idle"
                            => req'[q].evt.id # req'[o].evt.id
    <3> SUFFICES ASSUME NEW q \in Req, NEW o \in Req, q # o,
                        req'[q].pc # "idle", req'[o].pc # "idle"
                 PROVE  req'[q].evt.id # req'[o].evt.id
      OBVIOUS
    <3>1. CASE q # r /\ o # r
      BY <2>1, <3>1 DEF EventInv
    <3>2. CASE q = r \/ o = r
      BY <2>1, <2>3, <3>2
    <3> QED
      BY <3>1, <3>2
  <2>5. \A o \in Req :
           /\ req'[o].pc = "stamped" => \A e \in SetOf(recorded') : e.id # req'[o].evt.id
           /\ req'[o].pc \in {"recorded", "sending"} => req'[o].evt \in SetOf(recorded')
    BY <2>1, <2>3 DEF EventInv
  <2> QED
    BY <2>3, <2>4, <2>5 DEF EventInv
<1>2. ASSUME NEW r \in Req, Record(r) PROVE EventInv'
  <2>1. /\ nextID' = nextID /\ SetOf(recorded') = SetOf(recorded) \cup {req[r].evt}
        /\ req[r].pc = "stamped" /\ req'[r].pc = "recorded" /\ req'[r].evt = req[r].evt
        /\ \A o \in Req : o # r => req'[o] = req[o]
    BY <1>2, RecordStep
  <2>2. \A o \in Req : /\ req'[o].evt = req[o].evt
                       /\ req'[o].pc # "idle" => req[o].pc # "idle"
    BY <2>1
  <2>3. /\ \A e \in SetOf(recorded') : e.id <= nextID'
        /\ \A o \in Req : req'[o].pc # "idle" => req'[o].evt.id <= nextID'
    BY <2>1, <2>2 DEF EventInv
  <2>4. \A q, o \in Req : q # o /\ req'[q].pc # "idle" /\ req'[o].pc # "idle"
                            => req'[q].evt.id # req'[o].evt.id
    BY <2>2 DEF EventInv
  <2>5. \A o \in Req :
           /\ req'[o].pc = "stamped" => \A e \in SetOf(recorded') : e.id # req'[o].evt.id
           /\ req'[o].pc \in {"recorded", "sending"} => req'[o].evt \in SetOf(recorded')
    <3> SUFFICES ASSUME NEW o \in Req
                 PROVE  /\ req'[o].pc = "stamped" =>
                              \A e \in SetOf(recorded') : e.id # req'[o].evt.id
                        /\ req'[o].pc \in {"recorded", "sending"} =>
                              req'[o].evt \in SetOf(recorded')
      OBVIOUS
    <3>1. CASE o = r
      BY <2>1, <3>1
    <3>2. CASE o # r
      BY <2>1, <3>2 DEF EventInv
    <3> QED
      BY <3>1, <3>2
  <2> QED
    BY <2>3, <2>4, <2>5 DEF EventInv
<1>3. ASSUME NEW r \in Req, req[r].pc \in {"recorded", "sending"}, UNCHANGED <<nextID, recorded>>,
             \A o \in Req : o # r => req'[o] = req[o],
             req'[r].pc # "idle" => req'[r].pc = "sending" /\ req'[r].evt = req[r].evt
      PROVE  EventInv'
  <2>1. \A o \in Req :
           /\ o # r => req'[o] = req[o]
           /\ req'[o].pc # "idle" => /\ req[o].pc # "idle" /\ req'[o].evt = req[o].evt
                                     /\ o = r => req'[o].pc = "sending"
    BY <1>3
  <2>2. SetOf(recorded') = SetOf(recorded) /\ nextID' = nextID
    BY <1>3
  <2>3. /\ \A e \in SetOf(recorded') : e.id <= nextID'
        /\ \A o \in Req : req'[o].pc # "idle" => req'[o].evt.id <= nextID'
    BY <2>1, <2>2 DEF EventInv
  <2>4. \A q, o \in Req : q # o /\ req'[q].pc # "idle" /\ req'[o].pc # "idle"
                            => req'[q].evt.id # req'[o].evt.id
    BY <2>1 DEF EventInv
  <2>5. \A o \in Req :
           /\ req'[o].pc = "stamped" => \A e \in SetOf(recorded') : e.id # req'[o].evt.id
           /\ req'[o].pc \in {"recorded", "sending"} => req'[o].evt \in SetOf(recorded')
    <3> SUFFICES ASSUME NEW o \in Req
                 PROVE  /\ req'[o].pc = "stamped" =>
                              \A e \in SetOf(recorded') : e.id # req'[o].evt.id
                        /\ req'[o].pc \in {"recorded", "sending"} =>
                              req'[o].evt \in SetOf(recorded')
      OBVIOUS
    <3>1. CASE o = r
      BY <1>3, <2>1, <2>2, <3>1 DEF EventInv
    <3>2. CASE o # r
      BY <2>1, <2>2, <3>2 DEF EventInv
    <3> QED
      BY <3>1, <3>2
  <2> QED
    BY <2>3, <2>4, <2>5 DEF EventInv
<1>4. ASSUME NEW r \in Req, BeginBroadcast(r) \/ \E c \in Client : Send(r, c) PROVE EventInv'
  <2>1. /\ req[r].pc \in {"recorded", "sending"} /\ UNCHANGED <<nextID, recorded>>
        /\ \E S : req' = [req EXCEPT ![r] = Sending(req[r].evt, S)]
    BY <1>4, BroadcastSteps
  <2> QED
    BY <1>3, <2>1, SendingFields
<1>5. CASE UNCHANGED <<nextID, req, recorded>>
  BY <1>5 DEF EventInv
<1> QED
  BY <1>1, <1>2, <1>4, <1>5, WhatChanges DEF RequestStep, Next

-----------------------------------------------------------------------------
(* The ring and the counters *)

LEMMA RingKept == ASSUME MonitorTypes, RingInv, Next PROVE RingInv'
<1> DEFINE n == maxRecentEvents
           L == Len(recorded)
<1>1. /\ n \in Nat \ {0} /\ L \in Nat /\ ringHead \in 0 .. n - 1 /\ ringLen \in 0..n
      /\ ring \in [0 .. n - 1 -> RequestEvent \cup {NoEvent}]
  BY Constants, LenProperties DEF MonitorTypes, StoreInv, Slot
<1>2. CASE UNCHANGED <<ring, ringHead, ringLen, recorded>>
  BY <1>2 DEF RingInv, RingStart
<1>3. ASSUME NEW r \in Req, Record(r) PROVE RingInv'
  <2> DEFINE e == req[r].evt
  <2>1. /\ ring' = [ring EXCEPT ![ringHead] = e] /\ ringHead' = (ringHead + 1) % n
        /\ ringLen' = IF ringLen < n THEN ringLen + 1 ELSE ringLen
    BY <1>3 DEF Record, RingAfter, HeadAfter
  <2>2. /\ Len(recorded') = L + 1 /\ recorded'[L + 1] = e
        /\ \A i \in 1..L : recorded'[i] = recorded[i]
    BY <1>3, RecordStep, AppendFacts
  <2>3. ringLen = IF L < n THEN L ELSE n
    BY DEF RingInv
  <2>4. ringHead' = IF ringHead + 1 < n THEN ringHead + 1 ELSE 0
    <3> DEFINE b == ringHead + 1
    <3>1. b \in 0 .. 2 * maxRecentEvents - 1
      BY <1>1
    <3>2. b % maxRecentEvents = IF b < maxRecentEvents THEN b ELSE b - maxRecentEvents
      <4> HIDE DEF b
      <4> QED
        BY <3>1, Wrap
    <3> QED
      BY <1>1, <2>1, <3>2
  <2>5. ringLen' = IF Len(recorded') < n THEN Len(recorded') ELSE n
    BY <1>1, <2>1, <2>2, <2>3
  <2> DEFINE old == RingStart
             new == RingStart'
  <2>6. /\ old = IF ringHead - ringLen < 0 THEN ringHead - ringLen + n ELSE ringHead - ringLen
        /\ new = IF ringHead' - ringLen' < 0 THEN ringHead' - ringLen' + n
                                             ELSE ringHead' - ringLen'
    BY DEF RingStart
  <2>7. \A i \in 1..ringLen : ring[(old + i - 1) % n] = recorded[L - ringLen + i]
    BY DEF RingInv
  <2> HIDE DEF e, L, n, old, new
  <2>8. old \in 0 .. n - 1 /\ new \in 0 .. n - 1
    BY <1>1, <2>1, <2>4, <2>6
  <2>9. ASSUME NEW a \in 0 .. n - 1, NEW i \in 1..n
        PROVE  (a + i - 1) % n = IF a + i - 1 < n THEN a + i - 1 ELSE a + i - 1 - n
    <3> DEFINE b == a + i - 1
    <3>1. b \in 0 .. 2 * maxRecentEvents - 1
      BY <1>1 DEF n
    <3>2. b % maxRecentEvents = IF b < maxRecentEvents THEN b ELSE b - maxRecentEvents
      <4> HIDE DEF b
      <4> QED
        BY <3>1, Wrap
    <3>3. b % n = IF b < n THEN b ELSE b - n
      BY <3>2 DEF n
    <3> QED
      BY <1>1, <3>3
  <2>10. ASSUME NEW i \in 1..ringLen'
         PROVE  ring'[(new + i - 1) % n] = recorded'[Len(recorded') - ringLen' + i]
    <3>1. i \in 1..n
      BY <1>1, <2>1
    <3>2. (new + i - 1) % n = IF new + i - 1 < n THEN new + i - 1 ELSE new + i - 1 - n
      BY <2>8, <2>9, <3>1
    <3>3. CASE i = ringLen'
      <4>1. (new + i - 1) % n = ringHead
        BY <1>1, <2>1, <2>4, <2>6, <3>2, <3>3
      <4> QED
        BY <1>1, <2>1, <2>2, <3>3, <4>1
    <3>4. CASE i < ringLen' /\ ringLen < n
      <4>1. new = old /\ i \in 1..ringLen /\ ringLen' = ringLen + 1
        BY <1>1, <2>1, <2>4, <2>6, <3>4
      <4>2. (old + i - 1) % n # ringHead /\ (old + i - 1) % n \in 0 .. n - 1
        <5>1. (old + i - 1) % n = IF old + i - 1 < n THEN old + i - 1 ELSE old + i - 1 - n
          BY <3>2, <4>1
        <5> QED
          BY <1>1, <2>6, <2>8, <3>4, <4>1, <5>1
      <4>3. ring'[(old + i - 1) % n] = recorded[L - ringLen + i]
        BY <1>1, <2>1, <2>7, <4>1, <4>2
      <4>4. L - ringLen + i \in 1..L /\ Len(recorded') - ringLen' + i = L - ringLen + i
        BY <1>1, <2>2, <2>3, <4>1
      <4> QED
        BY <2>2, <4>1, <4>3, <4>4
    <3>5. CASE i < ringLen' /\ ringLen = n
      <4>1. i + 1 \in 1..ringLen /\ i + 1 \in 1..n /\ ringLen' = n
        BY <1>1, <2>1, <3>5
      <4>2. (old + (i + 1) - 1) % n = IF old + (i + 1) - 1 < n THEN old + (i + 1) - 1
                                                               ELSE old + (i + 1) - 1 - n
        BY <2>8, <2>9, <4>1
      <4>3. (old + (i + 1) - 1) % n = (new + i - 1) % n
        BY <1>1, <2>4, <2>6, <3>2, <3>5, <4>1, <4>2
      <4>4. (new + i - 1) % n # ringHead /\ (new + i - 1) % n \in 0 .. n - 1
        BY <1>1, <2>4, <2>6, <2>8, <3>2, <3>5, <4>1
      <4>5. ring'[(new + i - 1) % n] = recorded[L - ringLen + (i + 1)]
        BY <1>1, <2>1, <2>7, <4>1, <4>3, <4>4
      <4>6. /\ L - ringLen + (i + 1) \in 1..L
            /\ Len(recorded') - ringLen' + i = L - ringLen + (i + 1)
        BY <1>1, <2>2, <2>3, <3>5, <4>1
      <4> QED
        BY <2>2, <4>5, <4>6
    <3> QED
      BY <1>1, <2>1, <3>3, <3>4, <3>5
  <2> QED
    BY <2>5, <2>10 DEF RingInv, n, new
<1> QED
  BY <1>2, <1>3, WhatChanges

(* What a snapshot is handed is the end of the history.                    *)
LEMMA RingIsEnd ==
    ASSUME MonitorTypes, RingInv
    PROVE  RecentEvents = LastOf(maxRecentEvents, recorded)
<1> DEFINE n == maxRecentEvents
           last == LastOf(n, recorded)
<1>1. recorded \in Seq(RequestEvent) /\ Len(recorded) \in Nat /\ n \in Nat \ {0}
  BY Constants, LenProperties DEF MonitorTypes, StoreInv
<1>2. /\ last \in Seq(RequestEvent) /\ Len(last) = ringLen
      /\ \A i \in 1..ringLen : last[i] = recorded[Len(recorded) - ringLen + i]
  <2> DEFINE m == IF Len(recorded) <= n THEN Len(recorded) ELSE n
  <2>1. m = ringLen
    BY <1>1 DEF RingInv
  <2>2. /\ last \in Seq(RequestEvent) /\ Len(last) = m
        /\ \A i \in 1..m : last[i] = recorded[Len(recorded) - m + i]
    BY <1>1, LastFacts
  <2> HIDE DEF m, last
  <2> QED
    BY <2>1, <2>2
<1>3. last = [i \in 1..ringLen |-> last[i]]
  BY <1>2, LenProperties
<1>4. \A i \in 1..ringLen : last[i] = ring[(RingStart + i - 1) % n]
  BY <1>2 DEF RingInv
<1> HIDE DEF last, n
<1>5. RecentEvents = [i \in 1..ringLen |-> last[i]]
  BY <1>4 DEF RecentEvents, n
<1> QED
  BY <1>3, <1>5 DEF last, n

(* A set of places in a history of n events gets one more with the next.   *)
LEMMA OneMore ==
    ASSUME NEW n \in Nat, NEW S \in SUBSET (1..n)
    PROVE  Cardinality(S) \in Nat /\ Cardinality(S \cup {n + 1}) = Cardinality(S) + 1
<1>1. IsFiniteSet(1..n)
  BY FS_Interval
<1>2. IsFiniteSet(S)
  BY <1>1, FS_Subset
<1>3. n + 1 \notin S
  OBVIOUS
<1> QED
  BY <1>2, <1>3, FS_AddElement, FS_CardinalityType

(* record counts the event for the total and for its service;              *)
(* RegisterService leaves the counts alone.                                *)
LEMMA CountKept == ASSUME MonitorTypes, CountInv, Next PROVE CountInv'
<1>1. ASSUME NEW r \in Req, Record(r) PROVE CountInv'
  <2> DEFINE e == req[r].evt
             n == Len(recorded)
  <2>1. /\ e \in RequestEvent /\ e.service \in Service \cup {Gateway} /\ e.failed \in BOOLEAN
    BY <1>1, RecordStep DEF RequestEvent
  <2>2. /\ n \in Nat /\ Len(recorded') = n + 1
        /\ DOMAIN recorded = 1..n /\ DOMAIN recorded' = 1..(n + 1)
        /\ \A i \in 1..n : recorded'[i] = recorded[i]
        /\ recorded'[n + 1] = e
    BY <1>1, RecordStep, AppendFacts
  <2>3. /\ total' = total + 1 /\ totalErr' = IF e.failed THEN totalErr + 1 ELSE totalErr
        /\ services' = [services EXCEPT ![e.service] = Counted(services[e.service], e)]
    BY <1>1 DEF Record
  <2>4. /\ total \in Nat /\ totalErr \in Nat
        /\ services \in [Service \cup {Gateway} -> ServiceCounter]
    BY DEF MonitorTypes, StoreInv
  <2> HIDE DEF e, n
  <2>5. /\ FailuresIn(recorded) \in SUBSET (1..n)
        /\ FailuresIn(recorded') = IF e.failed THEN FailuresIn(recorded) \cup {n + 1}
                                               ELSE FailuresIn(recorded)
    BY <2>1, <2>2 DEF FailuresIn
  <2>6. total' = Len(recorded') /\ totalErr' = Cardinality(FailuresIn(recorded'))
    BY <2>1, <2>2, <2>3, <2>4, <2>5, OneMore DEF CountInv, n
  <2>7. ASSUME NEW s \in Service \cup {Gateway}
        PROVE  /\ services'[s].requests = Cardinality(Mine(s)')
               /\ services'[s].errors = Cardinality(Mine(s)' \cap FailuresIn(recorded'))
    <3> DEFINE old == Mine(s)
               new == Mine(s)'
               oldErr == old \cap FailuresIn(recorded)
               newErr == new \cap FailuresIn(recorded')
    <3>1. /\ services[s].requests = Cardinality(old) /\ services[s].errors = Cardinality(oldErr)
      BY DEF CountInv
    <3>2. /\ old \in SUBSET (1..n)
          /\ new = IF e.service = s THEN old \cup {n + 1} ELSE old
      BY <2>1, <2>2 DEF Mine
    <3> HIDE DEF old, new
    <3>3. /\ oldErr \in SUBSET (1..n)
          /\ newErr = IF e.service = s /\ e.failed THEN oldErr \cup {n + 1} ELSE oldErr
      BY <2>2, <2>5, <3>2
    <3> HIDE DEF oldErr, newErr
    <3>4. CASE e.service = s
      <4>1. services'[s] = Counted(services[s], e)
        BY <2>1, <2>3, <2>4, <3>4
      <4>2. /\ services'[s].requests = services[s].requests + 1
            /\ services'[s].errors = IF e.failed THEN services[s].errors + 1
                                                 ELSE services[s].errors
        BY <4>1 DEF Counted
      <4> QED
        BY <2>2, <3>1, <3>2, <3>3, <3>4, <4>2, OneMore DEF new, newErr
    <3>5. CASE e.service # s
      <4>1. services'[s] = services[s]
        BY <2>3, <2>4, <3>5
      <4> QED
        BY <3>1, <3>2, <3>3, <3>5, <4>1 DEF new, newErr
    <3> QED
      BY <3>4, <3>5
  <2> QED
    BY <2>6, <2>7 DEF CountInv
<1>2. ASSUME NEW s \in Service, RegisterService(s) PROVE CountInv'
  <2>1. /\ UNCHANGED <<total, totalErr, recorded>>
        /\ services' = [services EXCEPT ![s].backend = "known"]
    BY <1>2 DEF RegisterService
  <2>2. services \in [Service \cup {Gateway} -> ServiceCounter]
    BY DEF MonitorTypes, StoreInv
  <2>3. \A t \in Service \cup {Gateway} : /\ services'[t].requests = services[t].requests
                                          /\ services'[t].errors = services[t].errors
    BY <2>1, <2>2 DEF ServiceCounter
  <2> QED
    BY <2>1, <2>3 DEF CountInv, Mine
<1>3. CASE UNCHANGED <<total, totalErr, services, recorded>>
  BY <1>3 DEF CountInv, Mine
<1> QED
  BY <1>1, <1>2, <1>3, WhatChanges

-----------------------------------------------------------------------------
(* What the viewers see *)

(* Only the viewers' own steps change what they see.                       *)
LEMMA ViewChanges ==
    ASSUME Next
    PROVE  \/ UNCHANGED <<recent, live>>
           \/ \E c \in Client : SendSnapshot(c) \/ Stream(c) \/ Unsubscribe(c)
           \/ \E f \in Follower : ReadMonitorEvents(f) \/ ReadLine(f) \/ Interrupt(f)
<1>1. ASSUME NEW r \in Req, Stamp(r) \/ Record(r) \/ BeginBroadcast(r) \/ \E c \in Client : Send(r, c)
      PROVE  UNCHANGED <<recent, live>>
  BY <1>1 DEF Stamp, Record, BeginBroadcast, Send, viewVars
<1>2. ASSUME NEW s \in Service, RegisterService(s) PROVE UNCHANGED <<recent, live>>
  BY <1>2 DEF RegisterService, viewVars
<1>3. ASSUME NEW c \in Client, Subscribe(c) \/ Disconnect(c) \/ StreamFails(c) \/ EndStream(c)
      PROVE  UNCHANGED <<recent, live>>
  BY <1>3 DEF Subscribe, Disconnect, StreamFails, EndStream, viewVars
<1>4. ASSUME NEW f \in Follower, SeekEnd(f) PROVE UNCHANGED <<recent, live>>
  BY <1>4 DEF SeekEnd, viewVars
<1> QED
  BY <1>1, <1>2, <1>3, <1>4 DEF Next, RequestStep

(* and like this.                                                          *)
LEMMA ViewSteps ==
    ASSUME MonitorTypes, RingInv
    PROVE  /\ \A c \in Client :
                 /\ SendSnapshot(c) =>
                       /\ recent' = [recent EXCEPT ![c] = LastOf(maxRecentEvents, recorded)]
                       /\ UNCHANGED <<live, recorded>> /\ client[c].pc = "new"
                 /\ Stream(c) =>
                       /\ live' = [live EXCEPT ![c] = Append(live[c], Head(client[c].chan))]
                       /\ UNCHANGED <<recent, recorded>> /\ client[c].chan # <<>>
                 /\ Unsubscribe(c) =>
                       /\ recent' = [recent EXCEPT ![c] = <<>>]
                       /\ live' = [live EXCEPT ![c] = <<>>] /\ UNCHANGED recorded
           /\ \A f \in Follower :
                 /\ ReadMonitorEvents(f) =>
                       /\ recent' = [recent EXCEPT ![f] = LastOf(Lines, file)]
                       /\ UNCHANGED <<live, recorded>> /\ follower[f].pc = "new"
                 /\ ReadLine(f) =>
                       /\ live' = [live EXCEPT ![f] = Append(live[f], file[follower[f].pos + 1])]
                       /\ UNCHANGED <<recent, recorded>> /\ follower[f].pos < Len(file)
                 /\ Interrupt(f) =>
                       /\ recent' = [recent EXCEPT ![f] = <<>>]
                       /\ live' = [live EXCEPT ![f] = <<>>] /\ UNCHANGED recorded
<1>1. ASSUME NEW c \in Client, SendSnapshot(c)
      PROVE  /\ recent' = [recent EXCEPT ![c] = LastOf(maxRecentEvents, recorded)]
             /\ UNCHANGED <<live, recorded>> /\ client[c].pc = "new"
  BY <1>1, RingIsEnd DEF SendSnapshot
<1>2. ASSUME NEW c \in Client
      PROVE  /\ Stream(c) =>
                   /\ live' = [live EXCEPT ![c] = Append(live[c], Head(client[c].chan))]
                   /\ UNCHANGED <<recent, recorded>> /\ client[c].chan # <<>>
             /\ Unsubscribe(c) =>
                   /\ recent' = [recent EXCEPT ![c] = <<>>]
                   /\ live' = [live EXCEPT ![c] = <<>>] /\ UNCHANGED recorded
  BY DEF Stream, Unsubscribe
<1>3. ASSUME NEW f \in Follower, ReadLine(f)
      PROVE  /\ live' = [live EXCEPT ![f] = Append(live[f], file[follower[f].pos + 1])]
             /\ UNCHANGED <<recent, recorded>> /\ follower[f].pos < Len(file)
  <2>1. follower \in [Follower -> Run]
    BY DEF MonitorTypes, FollowerInv
  <2>2. follower' = [follower EXCEPT ![f].pos = follower[f].pos + 1]
    BY <1>3 DEF ReadLine
  <2>3. follower'[f].pos = follower[f].pos + 1
    BY <2>1, <2>2 DEF Run
  <2> QED
    BY <1>3, <2>3 DEF ReadLine
<1>4. ASSUME NEW f \in Follower
      PROVE  /\ ReadMonitorEvents(f) =>
                   /\ recent' = [recent EXCEPT ![f] = LastOf(Lines, file)]
                   /\ UNCHANGED <<live, recorded>> /\ follower[f].pc = "new"
             /\ Interrupt(f) =>
                   /\ recent' = [recent EXCEPT ![f] = <<>>]
                   /\ live' = [live EXCEPT ![f] = <<>>] /\ UNCHANGED recorded
  BY DEF ReadMonitorEvents, Interrupt
<1> QED
  BY <1>1, <1>2, <1>3, <1>4

(* The history variables of the dashboards change with theirs steps only.  *)
LEMMA LossChanges ==
    ASSUME Next
    PROVE  \/ UNCHANGED <<gap, dropped>>
           \/ \E r \in Req : BeginBroadcast(r) \/ \E c \in Client : Send(r, c)
           \/ \E c \in Client : Unsubscribe(c)
<1>1. ASSUME NEW r \in Req, Stamp(r) \/ Record(r) PROVE UNCHANGED <<gap, dropped>>
  BY <1>1 DEF Stamp, Record, viewVars
<1>2. ASSUME NEW s \in Service, RegisterService(s) PROVE UNCHANGED <<gap, dropped>>
  BY <1>2 DEF RegisterService, viewVars
<1>3. ASSUME NEW c \in Client,
             \/ SendSnapshot(c) \/ Subscribe(c) \/ Disconnect(c)
             \/ Stream(c) \/ StreamFails(c) \/ EndStream(c)
      PROVE  UNCHANGED <<gap, dropped>>
  BY <1>3 DEF SendSnapshot, Subscribe, Disconnect, Stream, StreamFails, EndStream, viewVars
<1>4. ASSUME NEW f \in Follower,
             ReadMonitorEvents(f) \/ SeekEnd(f) \/ ReadLine(f) \/ Interrupt(f)
      PROVE  UNCHANGED <<gap, dropped>>
  BY <1>4 DEF ReadMonitorEvents, SeekEnd, ReadLine, Interrupt, viewVars
<1> QED
  BY <1>1, <1>2, <1>3, <1>4 DEF Next, RequestStep

LEMMA ViewKept == ASSUME MonitorTypes, RingInv, Next PROVE ViewInv'
<1>1. /\ recent \in [Viewer -> Seq(RequestEvent)] /\ live \in [Viewer -> Seq(RequestEvent)]
      /\ gap \in [Client -> SUBSET RequestEvent] /\ dropped \in [Client -> SUBSET RequestEvent]
      /\ recorded \in Seq(RequestEvent) /\ file \in Seq(RequestEvent)
      /\ \A c \in Client : client[c].chan \in Seq(RequestEvent)
  BY DEF MonitorTypes, ViewInv, StoreInv, ClientInv, Dashboard
<1>2. ASSUME NEW v \in Viewer, NEW s \in Seq(RequestEvent), NEW u \in Seq(RequestEvent),
             recent' \in {recent, [recent EXCEPT ![v] = s]}, live' \in {live, [live EXCEPT ![v] = u]}
      PROVE  recent' \in [Viewer -> Seq(RequestEvent)] /\ live' \in [Viewer -> Seq(RequestEvent)]
  BY <1>1, <1>2
<1>3. recent' \in [Viewer -> Seq(RequestEvent)] /\ live' \in [Viewer -> Seq(RequestEvent)]
  <2>1. ASSUME NEW c \in Client, SendSnapshot(c) \/ Unsubscribe(c)
        PROVE  recent' \in [Viewer -> Seq(RequestEvent)] /\ live' \in [Viewer -> Seq(RequestEvent)]
    <3>1. LastOf(maxRecentEvents, recorded) \in Seq(RequestEvent) /\ c \in Viewer
      BY <1>1, LastFacts, Constants DEF Viewer
    <3> QED
      BY <1>2, <2>1, <3>1, ViewSteps, EmptyFacts
  <2>2. ASSUME NEW c \in Client, Stream(c)
        PROVE  recent' \in [Viewer -> Seq(RequestEvent)] /\ live' \in [Viewer -> Seq(RequestEvent)]
    <3> DEFINE u == Append(live[c], Head(client[c].chan))
    <3>1. live' = [live EXCEPT ![c] = u] /\ recent' = recent /\ client[c].chan # <<>>
      BY <2>2, ViewSteps
    <3>2. u \in Seq(RequestEvent) /\ c \in Viewer
      BY <1>1, <3>1, TailFacts, AppendFacts DEF Viewer
    <3> HIDE DEF u
    <3> QED
      BY <1>1, <3>1, <3>2
  <2>3. ASSUME NEW f \in Follower, ReadMonitorEvents(f) \/ Interrupt(f)
        PROVE  recent' \in [Viewer -> Seq(RequestEvent)] /\ live' \in [Viewer -> Seq(RequestEvent)]
    <3>1. LastOf(Lines, file) \in Seq(RequestEvent) /\ f \in Viewer
      BY <1>1, LastFacts, Constants DEF Viewer
    <3> QED
      BY <1>2, <2>3, <3>1, ViewSteps, EmptyFacts
  <2>4. ASSUME NEW f \in Follower, ReadLine(f)
        PROVE  recent' \in [Viewer -> Seq(RequestEvent)] /\ live' \in [Viewer -> Seq(RequestEvent)]
    <3> DEFINE e == file[follower[f].pos + 1]
               u == Append(live[f], e)
    <3>1. live' = [live EXCEPT ![f] = u] /\ recent' = recent /\ follower[f].pos < Len(file)
      BY <2>4, ViewSteps
    <3>2. follower[f].pos \in Nat /\ Len(file) \in Nat
      BY LenProperties DEF MonitorTypes, FollowerInv, Run, StoreInv
    <3>3. follower[f].pos + 1 \in 1..Len(file)
      BY <3>1, <3>2
    <3>4. e \in RequestEvent
      BY <1>1, <3>3, ElementOfSeq
    <3> HIDE DEF e
    <3>5. u \in Seq(RequestEvent) /\ f \in Viewer
      BY <1>1, <3>4, AppendFacts DEF Viewer
    <3> HIDE DEF u
    <3> QED
      BY <1>1, <3>1, <3>5
  <2>5. CASE UNCHANGED <<recent, live>>
    BY <1>1, <2>5
  <2> QED
    BY <2>1, <2>2, <2>3, <2>4, <2>5, ViewChanges
<1>4. gap' \in [Client -> SUBSET RequestEvent] /\ dropped' \in [Client -> SUBSET RequestEvent]
  <2>1. ASSUME NEW r \in Req, BeginBroadcast(r)
        PROVE  gap' \in [Client -> SUBSET RequestEvent] /\ dropped' \in [Client -> SUBSET RequestEvent]
    <3>1. req[r].evt \in RequestEvent
      BY <2>1, BroadcastSteps
    <3>2. /\ gap' = [c \in Client |-> IF client[c].pc = "snapped"
                                       THEN gap[c] \cup {req[r].evt} ELSE gap[c]]
          /\ dropped' = dropped
      BY <2>1 DEF BeginBroadcast
    <3> QED
      BY <1>1, <3>1, <3>2
  <2>2. ASSUME NEW r \in Req, NEW c \in Client, Send(r, c)
        PROVE  gap' \in [Client -> SUBSET RequestEvent] /\ dropped' \in [Client -> SUBSET RequestEvent]
    <3>1. /\ gap' = gap /\ req[r].evt \in RequestEvent
          /\ dropped' \in {dropped, [dropped EXCEPT ![c] = dropped[c] \cup {req[r].evt}]}
      BY <2>2, SendStep
    <3>2. dropped[c] \cup {req[r].evt} \in SUBSET RequestEvent
      BY <1>1, <3>1
    <3> QED
      BY <1>1, <3>1, <3>2
  <2>3. ASSUME NEW c \in Client, Unsubscribe(c)
        PROVE  gap' \in [Client -> SUBSET RequestEvent] /\ dropped' \in [Client -> SUBSET RequestEvent]
    BY <1>1, <2>3 DEF Unsubscribe
  <2>4. CASE UNCHANGED <<gap, dropped>>
    BY <1>1, <2>4
  <2> QED
    BY <2>1, <2>2, <2>3, <2>4, LossChanges
<1> QED
  BY <1>3, <1>4 DEF ViewInv

(* Every step keeps the types.                                             *)
LEMMA TypesKept == ASSUME MonitorTypes, RingInv, Next PROVE MonitorTypes'
BY StoreKept, ReqKept, ClientKept, FollowerKept, ViewKept DEF MonitorTypes

(* A dashboard that is still new has taken no step, and so with a run of   *)
(* the command.                                                            *)
LEMMA OpeningKept == ASSUME MonitorTypes, RingInv, OpeningInv, Next PROVE OpeningInv'
<1>1. recent \in [Viewer -> Seq(RequestEvent)] /\ live \in [Viewer -> Seq(RequestEvent)]
  BY DEF MonitorTypes, ViewInv
<1>2. ASSUME NEW v \in Viewer, v \in Client =>
                 ~SendSnapshot(v) /\ ~Stream(v) /\ ~Unsubscribe(v),
             v \in Follower => ~ReadMonitorEvents(v) /\ ~ReadLine(v) /\ ~Interrupt(v)
      PROVE  recent'[v] = recent[v] /\ live'[v] = live[v]
  <2>1. ASSUME NEW c \in Client, SendSnapshot(c) \/ Stream(c) \/ Unsubscribe(c)
        PROVE  recent'[v] = recent[v] /\ live'[v] = live[v]
    <3>1. v # c
      BY <1>2, <2>1
    <3> QED
      BY <1>1, <2>1, <3>1, ViewSteps
  <2>2. ASSUME NEW f \in Follower, ReadMonitorEvents(f) \/ ReadLine(f) \/ Interrupt(f)
        PROVE  recent'[v] = recent[v] /\ live'[v] = live[v]
    <3>1. v # f
      BY <1>2, <2>2
    <3> QED
      BY <1>1, <2>2, <3>1, ViewSteps
  <2> QED
    BY <2>1, <2>2, ViewChanges
<1>3. ASSUME NEW c \in Client, client'[c].pc = "new"
      PROVE  recent'[c] = <<>> /\ live'[c] = <<>>
  <2>1. ASSUME NEW d \in Client,
               \/ SendSnapshot(d) \/ Subscribe(d) \/ Disconnect(d)
               \/ Stream(d) \/ StreamFails(d) \/ EndStream(d) \/ Unsubscribe(d)
        PROVE  d # c /\ client'[c] = client[c]
    <3>1. d # c
      <4>1. client[d].pc # "new" \/ SendSnapshot(d)
        BY <2>1 DEF Subscribe, Disconnect, Stream, StreamFails, EndStream, Unsubscribe
      <4>2. client'[d].pc # "new"
        BY <2>1, <4>1, HandlerSteps DEF Becomes, Disconnect
      <4> QED
        BY <1>3, <4>2
    <3> QED
      BY <2>1, <3>1, HandlerSteps DEF Becomes
  <2>2. ASSUME NEW r \in Req, NEW d \in Client, Send(r, d) PROVE client'[c].pc = client[c].pc
    BY <2>2, SendStep DEF Becomes
  <2>3. client[c].pc = "new"
    BY <1>3, <2>1, <2>2, ClientChanges
  <2>4. c \in Viewer /\ c \notin Follower
    BY Constants DEF Viewer
  <2> QED
    BY <1>2, <2>1, <2>3, <2>4 DEF OpeningInv
<1>4. ASSUME NEW f \in Follower
      PROVE  /\ follower'[f].pc = "new" => recent'[f] = <<>>
             /\ follower'[f].pc \in {"new", "read"} => live'[f] = <<>>
  <2>1. f \in Viewer /\ f \notin Client /\ follower \in [Follower -> Run]
    BY Constants DEF Viewer, MonitorTypes, FollowerInv
  <2>2. CASE ReadMonitorEvents(f)
    <3>1. follower'[f].pc = "read" /\ follower[f].pc = "new" /\ live' = live
      BY <2>1, <2>2 DEF ReadMonitorEvents, Run
    <3> QED
      BY <3>1 DEF OpeningInv
  <2>3. CASE SeekEnd(f) \/ ReadLine(f) \/ Interrupt(f)
    <3>1. follower'[f].pc \in {"following", "closed"}
      BY <2>1, <2>3 DEF SeekEnd, ReadLine, Interrupt, Run
    <3> QED
      BY <3>1
  <2>4. CASE ~(ReadMonitorEvents(f) \/ SeekEnd(f) \/ ReadLine(f) \/ Interrupt(f))
    <3>1. recent'[f] = recent[f] /\ live'[f] = live[f]
      BY <1>2, <2>1, <2>4
    <3>2. follower'[f] = follower[f]
      <4>1. ASSUME NEW g \in Follower, g # f,
                   ReadMonitorEvents(g) \/ SeekEnd(g) \/ ReadLine(g) \/ Interrupt(g)
            PROVE  follower'[f] = follower[f]
        BY <2>1, <4>1 DEF ReadMonitorEvents, SeekEnd, ReadLine, Interrupt
      <4> QED
        BY <2>4, <4>1, WhatChanges
    <3> QED
      BY <3>1, <3>2 DEF OpeningInv
  <2> QED
    BY <2>2, <2>3, <2>4
<1> QED
  BY <1>3, <1>4 DEF OpeningInv

(* record appends to the file what it appends to the history, or nothing,  *)
(* and the command shows one line after another.                           *)
LEMMA FileKept == ASSUME MonitorTypes, RingInv, EventInv, FileInv, OpeningInv, Next PROVE FileInv'
<1>1. /\ recent \in [Viewer -> Seq(RequestEvent)] /\ live \in [Viewer -> Seq(RequestEvent)]
      /\ follower \in [Follower -> Run] /\ \A f \in Follower : follower[f].pos \in Nat
      /\ file \in Seq(RequestEvent) /\ recorded \in Seq(RequestEvent)
      /\ Len(file) \in Nat /\ DOMAIN file = 1..Len(file)
      /\ Len(recorded) \in Nat /\ DOMAIN recorded = 1..Len(recorded)
      /\ \A f \in Follower : follower[f].pos <= Len(file)
  BY LenProperties DEF MonitorTypes, ViewInv, FollowerInv, Run, StoreInv
<1>2. ASSUME NEW r \in Req, Record(r) PROVE FileInv'
  <2> DEFINE e == req[r].evt
  <2>1. /\ e \in RequestEvent /\ recorded' = Append(recorded, e)
        /\ file' \in {file, Append(file, e)} /\ UNCHANGED <<live, follower>>
    BY <1>2, RecordStep
  <2>2. e \notin SetOf(recorded)
    BY <1>2, RecordStep DEF EventInv
  <2> HIDE DEF e
  <2>3. /\ DOMAIN recorded' = 1..(Len(recorded) + 1)
        /\ \A i \in 1..Len(recorded) : recorded'[i] = recorded[i]
        /\ recorded'[Len(recorded) + 1] = e
        /\ SetOf(recorded') = SetOf(recorded) \cup {e}
    BY <1>1, <2>1, AppendFacts
  <2>4. /\ SetOf(file) \subseteq SetOf(recorded)
        /\ \A i, j \in DOMAIN file : i < j =>
              \E k, l \in DOMAIN recorded : k < l /\ recorded[k] = file[i] /\ recorded[l] = file[j]
    BY DEF FileInv, Abstract!PartOf, Abstract!Members, SetOf
  <2>5. \A i, j \in DOMAIN file : i < j =>
           \E k, l \in DOMAIN recorded' : k < l /\ recorded'[k] = file[i] /\ recorded'[l] = file[j]
    <3> SUFFICES ASSUME NEW i \in DOMAIN file, NEW j \in DOMAIN file, i < j
                 PROVE  \E k, l \in DOMAIN recorded' :
                           k < l /\ recorded'[k] = file[i] /\ recorded'[l] = file[j]
      OBVIOUS
    <3>1. PICK k \in 1..Len(recorded), l \in 1..Len(recorded) :
             k < l /\ recorded[k] = file[i] /\ recorded[l] = file[j]
      BY <1>1, <2>4
    <3>2. k \in DOMAIN recorded' /\ l \in DOMAIN recorded'
      BY <1>1, <2>3
    <3> QED
      BY <2>3, <3>1, <3>2
  <2>6. CASE file' = file
    <3>1. Abstract!PartOf(file, recorded)'
      BY <2>3, <2>4, <2>5, <2>6, SMTT(20) DEF Abstract!PartOf, Abstract!Members, SetOf
    <3> QED
      BY <2>1, <2>6, <3>1 DEF FileInv, Distinct
  <2>7. CASE file' = Append(file, e)
    <3>1. /\ DOMAIN file' = 1..(Len(file) + 1) /\ file'[Len(file) + 1] = e
          /\ \A i \in 1..Len(file) : file'[i] = file[i]
          /\ SetOf(file') = SetOf(file) \cup {e} /\ Distinct(file')
      BY <1>1, <2>1, <2>2, <2>4, <2>7, AppendFacts DEF FileInv
    <3>2. ASSUME NEW i \in DOMAIN file', NEW j \in DOMAIN file', i < j
          PROVE  \E k, l \in DOMAIN recorded' :
                    k < l /\ recorded'[k] = file'[i] /\ recorded'[l] = file'[j]
      <4>1. i \in 1..Len(file) /\ file'[i] = file[i]
        BY <1>1, <3>1, <3>2
      <4>2. CASE j \in 1..Len(file)
        BY <1>1, <2>5, <3>1, <3>2, <4>1, <4>2
      <4>3. CASE j = Len(file) + 1
        <5>1. file[i] \in SetOf(recorded)
          BY <1>1, <2>4, <4>1 DEF SetOf
        <5>2. PICK k \in 1..Len(recorded) : recorded[k] = file[i]
          BY <1>1, <5>1 DEF SetOf
        <5>3. /\ k \in DOMAIN recorded' /\ Len(recorded) + 1 \in DOMAIN recorded'
              /\ k < Len(recorded) + 1
          BY <1>1, <2>3
        <5> QED
          BY <2>3, <3>1, <4>1, <4>3, <5>2, <5>3
      <4>4. j \in 1..Len(file) \/ j = Len(file) + 1
        BY <1>1, <3>1, <3>2
      <4> QED
        BY <4>2, <4>3, <4>4
    <3>3. Abstract!PartOf(file, recorded)'
      BY <2>3, <2>4, <3>1, <3>2, SMTT(60) DEF Abstract!PartOf, Abstract!Members, SetOf
    <3>4. ASSUME NEW f \in Follower, NEW x \in SetOf(live'[f])
          PROVE  \E i \in 1..follower'[f].pos : file'[i] = x
      <4>1. PICK i \in 1..follower[f].pos : file[i] = x
        BY <2>1, <3>4 DEF FileInv
      <4>2. i \in 1..Len(file)
        BY <1>1
      <4> QED
        BY <2>1, <3>1, <4>1, <4>2
    <3> QED
      BY <3>1, <3>3, <3>4 DEF FileInv
  <2> QED
    BY <2>1, <2>6, <2>7
<1>3. CASE UNCHANGED <<recorded, file>>
  <2>1. Abstract!PartOf(file, recorded)' /\ Distinct(file)'
    BY <1>3 DEF FileInv, Abstract!PartOf, Abstract!Members, Distinct
  <2>2. ASSUME NEW f \in Follower, NEW x \in SetOf(live'[f])
        PROVE  \E i \in 1..follower'[f].pos : file'[i] = x
    <3>1. f \in Viewer /\ f \notin Client
      BY Constants DEF Viewer
    <3>2. CASE live'[f] = live[f] /\ follower[f].pos <= follower'[f].pos
                                 /\ follower'[f].pos \in Nat
      <4>1. PICK i \in 1..follower[f].pos : file[i] = x
        BY <2>2, <3>2 DEF FileInv
      <4>2. i \in 1..follower'[f].pos
        BY <1>1, <3>2
      <4> QED
        BY <1>3, <4>1, <4>2
    <3>3. CASE ReadLine(f)
      <4> DEFINE n == follower[f].pos
      <4>1. live'[f] = Append(live[f], file[n + 1]) /\ n < Len(file)
        BY <1>1, <3>1, <3>3, ViewSteps
      <4>2. follower'[f].pos = n + 1
        BY <1>1, <3>3 DEF ReadLine, Run
      <4>3. n + 1 \in 1..Len(file) /\ file[n + 1] \in RequestEvent /\ live[f] \in Seq(RequestEvent)
        BY <1>1, <3>1, <4>1, ElementOfSeq
      <4>4. SetOf(live'[f]) = SetOf(live[f]) \cup {file[n + 1]}
        BY <4>1, <4>3, AppendFacts
      <4>5. CASE x = file[n + 1]
        <5>1. n + 1 \in 1..(n + 1)
          BY <1>1
        <5> QED
          BY <1>3, <4>2, <4>5, <5>1
      <4>6. CASE x \in SetOf(live[f])
        <5>1. PICK i \in 1..n : file[i] = x
          BY <4>6 DEF FileInv
        <5>2. i \in 1..(n + 1)
          BY <1>1
        <5> QED
          BY <1>3, <4>2, <5>1, <5>2
      <4> QED
        BY <2>2, <4>4, <4>5, <4>6
    <3>4. CASE Interrupt(f)
      <4>1. live'[f] = <<>>
        BY <1>1, <3>1, <3>4, ViewSteps
      <4> QED
        BY <2>2, <4>1, EmptyFacts
    <3>5. CASE ReadMonitorEvents(f)
      BY <1>1, <3>2, <3>5 DEF ReadMonitorEvents, Run
    <3>6. CASE SeekEnd(f)
      BY <1>1, <3>2, <3>6 DEF SeekEnd, viewVars
    <3>7. CASE ~(ReadMonitorEvents(f) \/ SeekEnd(f) \/ ReadLine(f) \/ Interrupt(f))
      <4>1. live'[f] = live[f]
        <5>1. ASSUME NEW c \in Client, SendSnapshot(c) \/ Stream(c) \/ Unsubscribe(c)
              PROVE  live'[f] = live[f]
          BY <1>1, <3>1, <5>1, ViewSteps
        <5>2. ASSUME NEW g \in Follower, g # f, ReadMonitorEvents(g) \/ ReadLine(g) \/ Interrupt(g)
              PROVE  live'[f] = live[f]
          BY <1>1, <3>1, <5>2, ViewSteps
        <5> QED
          BY <3>7, <5>1, <5>2, ViewChanges
      <4>2. follower'[f] = follower[f]
        <5>1. ASSUME NEW g \in Follower, g # f,
                     ReadMonitorEvents(g) \/ SeekEnd(g) \/ ReadLine(g) \/ Interrupt(g)
              PROVE  follower'[f] = follower[f]
          BY <1>1, <5>1 DEF ReadMonitorEvents, SeekEnd, ReadLine, Interrupt
        <5> QED
          BY <3>7, <5>1, WhatChanges
      <4> QED
        BY <1>1, <3>2, <4>1, <4>2
    <3> QED
      BY <3>3, <3>4, <3>5, <3>6, <3>7
  <2> QED
    BY <2>1, <2>2 DEF FileInv
<1> QED
  BY <1>2, <1>3, WhatChanges

-----------------------------------------------------------------------------
(* Offering events to the dashboards *)

(* A request never owes an event again that it has offered: apart from the *)
(* stamp of a new one, debts only go away.                                 *)
LEMMA DebtsShrink ==
    ASSUME MonitorTypes, Next, NEW q \in Req, ~Stamp(q), NEW d \in Client, Owes(q, d)'
    PROVE  Owes(q, d) /\ req'[q].evt = req[q].evt
<1>1. ASSUME NEW r \in Req, Stamp(r) PROVE Owes(q, d) /\ req'[q].evt = req[q].evt
  BY <1>1, StampStep DEF Owes
<1>2. ASSUME NEW r \in Req, Record(r) PROVE Owes(q, d) /\ req'[q].evt = req[q].evt
  <2>1. CASE q = r
    BY <1>2, <2>1, RecordStep DEF Owes
  <2>2. CASE q # r
    BY <1>2, <2>2, RecordStep DEF Owes
  <2> QED
    BY <2>1, <2>2
<1>3. ASSUME NEW r \in Req, BeginBroadcast(r) PROVE Owes(q, d) /\ req'[q].evt = req[q].evt
  <2>1. req' = [req EXCEPT ![r] = Sending(req[r].evt, subscribers)] /\ req[r].pc = "recorded"
    BY <1>3, BroadcastSteps
  <2> QED
    BY <2>1, SendingFields, ZenonT(40) DEF Owes
<1>4. ASSUME NEW r \in Req, NEW c \in Client, Send(r, c) PROVE Owes(q, d) /\ req'[q].evt = req[q].evt
  <2> DEFINE rest == req[r].left \ {c}
  <2>1. req' = [req EXCEPT ![r] = Sending(req[r].evt, rest)] /\ req[r].pc = "sending"
    BY <1>4, BroadcastSteps
  <2>2. /\ q # r => req'[q] = req[q]
        /\ q = r /\ req'[q].pc # "idle" =>
              req'[q].pc = "sending" /\ req'[q].evt = req[q].evt /\ req'[q].left = rest
    <3> HIDE DEF rest
    <3> QED
      BY <2>1, SendingFields
  <2> QED
    BY <2>1, <2>2 DEF Owes
<1>5. CASE UNCHANGED req
  BY <1>5 DEF Owes
<1> QED
  BY <1>1, <1>2, <1>3, <1>4, <1>5, WhatChanges DEF RequestStep

(* An event that some request still has to offer to a dashboard is neither *)
(* in its channel nor on its screen, so no dashboard is shown it twice.    *)
LEMMA OfferKept ==
    ASSUME MonitorTypes, RingInv, EventInv, OfferInv, Next
    PROVE  OfferInv'
<1>1. /\ client \in [Client -> Dashboard] /\ live \in [Viewer -> Seq(RequestEvent)]
      /\ \A c \in Client : /\ client[c].chan \in Seq(RequestEvent) /\ c \in Viewer
                          /\ live[c] \in Seq(RequestEvent) /\ c \notin Follower
  BY Constants DEF MonitorTypes, ViewInv, ClientInv, Dashboard, Viewer
<1>2. SetOf(recorded) \subseteq SetOf(recorded')
  BY RecordStep, WhatChanges
<1>3. ASSUME NEW r \in Req, Stamp(r) PROVE OfferInv'
  <2> SUFFICES ASSUME NEW d \in Client PROVE OfferAt(d)'
    BY DEF OfferInv
  <2>1. OfferAt(d) /\ UNCHANGED <<client, live, recorded>> /\ req'[r].evt.id = nextID + 1
    BY <1>3, StampStep DEF OfferInv
  <2>2. \A e \in SetOf(client[d].chan) \cup SetOf(live[d]) : e.id <= nextID
    BY <2>1 DEF OfferAt, EventInv
  <2>3. nextID \in Nat
    BY Constants DEF MonitorTypes, StoreInv
  <2>4. req'[r].evt \notin SetOf(client[d].chan) \cup SetOf(live[d])
    BY <2>1, <2>2, <2>3
  <2>5. \A q \in Req : q # r => req'[q] = req[q]
    BY <1>3, StampStep
  <2> QED
    BY <2>1, <2>4, <2>5 DEF OfferAt, Owes
<1>4. ASSUME \A q \in Req : ~Stamp(q), NEW d \in Client,
             client'[d].chan = client[d].chan, live'[d] = live[d]
      PROVE  OfferAt(d)'
  <2>1. OfferAt(d)
    BY DEF OfferInv
  <2>2. \A q \in Req : Owes(q, d)' => Owes(q, d) /\ req'[q].evt = req[q].evt
    BY <1>4, DebtsShrink
  <2>3. \A q \in Req : Owes(q, d)' => req'[q].evt \notin SetOf(client'[d].chan) \cup SetOf(live'[d])
    BY <1>4, <2>1, <2>2 DEF OfferAt
  <2> QED
    BY <1>2, <1>4, <2>1, <2>3 DEF OfferAt
<1>5. ASSUME NEW r \in Req, NEW c \in Client, Send(r, c) PROVE OfferInv'
  <2> SUFFICES ASSUME NEW d \in Client PROVE OfferAt(d)'
    BY DEF OfferInv
  <2>0. /\ \A q \in Req : ~Stamp(q)
        /\ live' = live /\ recorded' = recorded
    <3>1. live' = live /\ recorded' = recorded /\ nextID' = nextID
      BY <1>5, BroadcastSteps
    <3>2. nextID \in Nat
      BY Constants DEF MonitorTypes, StoreInv
    <3> QED
      BY <3>1, <3>2 DEF Stamp
  <2>1. CASE client'[d].chan = client[d].chan
    BY <1>4, <2>0, <2>1
  <2>2. CASE client'[d].chan # client[d].chan
    <3> DEFINE e == req[r].evt
    <3>1. /\ d = c /\ e \in RequestEvent /\ client'[d].chan = Append(client[d].chan, e)
          /\ req[r].pc = "sending" /\ c \in req[r].left
      BY <1>5, <2>2, SendStep DEF Becomes
    <3>2. OfferAt(d) /\ Owes(r, d)
      BY <3>1 DEF OfferInv, Owes
    <3>3. e \notin SetOf(client[d].chan) \cup SetOf(live[d]) /\ e \in SetOf(recorded)
      BY <3>1, <3>2 DEF OfferAt, EventInv
    <3>4. /\ SetOf(client'[d].chan) = SetOf(client[d].chan) \cup {e} /\ Distinct(client'[d].chan)
      BY <1>1, <3>1, <3>2, <3>3, AppendFacts DEF OfferAt
    <3>5. ASSUME NEW q \in Req, Owes(q, d)'
          PROVE  req'[q].evt \notin SetOf(client'[d].chan) \cup SetOf(live'[d])
      <4>1. Owes(q, d) /\ req'[q].evt = req[q].evt
        BY <2>0, <3>5, DebtsShrink
      <4>2. q # r
        <5> DEFINE rest == req[r].left \ {c}
        <5>1. req' = [req EXCEPT ![r] = Sending(e, rest)]
          BY <1>5, BroadcastSteps
        <5>2. req'[r].pc \in {"idle", "sending"} /\ req'[r].left = rest
          <6> HIDE DEF rest
          <6> QED
            BY <5>1, SendingFields
        <5>3. ~Owes(r, d)'
          BY <3>1, <5>2 DEF Owes
        <5> QED
          BY <3>5, <5>3
      <4>3. req[q].evt # e
        BY <3>1, <4>1, <4>2 DEF EventInv, Owes
      <4> QED
        BY <2>0, <3>2, <3>4, <4>1, <4>3 DEF OfferAt
    <3> QED
      BY <2>0, <3>2, <3>3, <3>4, <3>5 DEF OfferAt
  <2> QED
    BY <2>1, <2>2
<1>6. ASSUME \A q \in Req : ~Stamp(q), UNCHANGED recorded, NEW c \in Client,
             SetOf(client'[c].chan) \cup SetOf(live'[c]) \subseteq
                SetOf(client[c].chan) \cup SetOf(live[c]),
             Distinct(client'[c].chan), SetOf(client'[c].chan) \cap SetOf(live'[c]) = {},
             \A d \in Client : d # c => client'[d].chan = client[d].chan /\ live'[d] = live[d]
      PROVE  OfferInv'
  <2> SUFFICES ASSUME NEW d \in Client PROVE OfferAt(d)'
    BY DEF OfferInv
  <2>1. CASE d # c
    BY <1>4, <1>6, <2>1
  <2>2. CASE d = c
    <3>1. OfferAt(d)
      BY DEF OfferInv
    <3>2. \A q \in Req : Owes(q, d)' => Owes(q, d) /\ req'[q].evt = req[q].evt
      BY <1>6, DebtsShrink
    <3>3. \A q \in Req :
             Owes(q, d)' => req'[q].evt \notin SetOf(client'[d].chan) \cup SetOf(live'[d])
      BY <1>6, <2>2, <3>1, <3>2 DEF OfferAt
    <3> QED
      BY <1>6, <2>2, <3>1, <3>3 DEF OfferAt
  <2> QED
    BY <2>1, <2>2
<1>7. ASSUME NEW c \in Client, Stream(c) \/ StreamFails(c) \/ Unsubscribe(c) PROVE OfferInv'
  <2>1. /\ (\A q \in Req : ~Stamp(q)) /\ UNCHANGED recorded
    <3>1. recorded' = recorded /\ nextID' = nextID
      BY <1>7 DEF Stream, StreamFails, Unsubscribe, monitorVars
    <3>2. nextID \in Nat
      BY Constants DEF MonitorTypes, StoreInv
    <3> QED
      BY <3>1, <3>2 DEF Stamp
  <2>2. OfferAt(c)
    BY DEF OfferInv
  <2>3. CASE Stream(c)
    <3>1. /\ client[c].chan # <<>> /\ client'[c].chan = Tail(client[c].chan)
          /\ live'[c] = Append(live[c], Head(client[c].chan))
          /\ \A d \in Client : d # c => client'[d] = client[d] /\ live'[d] = live[d]
      BY <1>1, <2>3, HandlerSteps, ViewSteps DEF Becomes
    <3>2. /\ SetOf(client[c].chan) = SetOf(client'[c].chan) \cup {Head(client[c].chan)}
          /\ Distinct(client'[c].chan) /\ Head(client[c].chan) \notin SetOf(client'[c].chan)
          /\ Head(client[c].chan) \in RequestEvent
      BY <1>1, <2>2, <3>1, TailFacts DEF OfferAt
    <3>3. SetOf(live'[c]) = SetOf(live[c]) \cup {Head(client[c].chan)}
      BY <1>1, <3>1, <3>2, AppendFacts
    <3>4. SetOf(client'[c].chan) \cap SetOf(live'[c]) = {}
      BY <2>2, <3>2, <3>3 DEF OfferAt
    <3> QED
      BY <1>6, <2>1, <3>1, <3>2, <3>3, <3>4
  <2>4. CASE StreamFails(c)
    <3>1. /\ client[c].chan # <<>> /\ client'[c].chan = Tail(client[c].chan)
          /\ live' = live
          /\ \A d \in Client : d # c => client'[d] = client[d]
      BY <2>4, HandlerSteps DEF Becomes, StreamFails, viewVars
    <3>2. /\ SetOf(client[c].chan) = SetOf(client'[c].chan) \cup {Head(client[c].chan)}
          /\ Distinct(client'[c].chan)
      BY <1>1, <2>2, <3>1, TailFacts DEF OfferAt
    <3>3. SetOf(client'[c].chan) \cap SetOf(live'[c]) = {}
      BY <2>2, <3>1, <3>2 DEF OfferAt
    <3> QED
      BY <1>6, <2>1, <3>1, <3>2, <3>3
  <2>5. CASE Unsubscribe(c)
    <3>1. /\ client'[c].chan = <<>> /\ live'[c] = <<>>
          /\ \A d \in Client : d # c => client'[d] = client[d] /\ live'[d] = live[d]
      BY <1>1, <2>5, HandlerSteps, ViewSteps DEF Becomes
    <3> QED
      BY <1>6, <2>1, <3>1, EmptyFacts
  <2> QED
    BY <1>7, <2>3, <2>4, <2>5
<1>8. ASSUME \A q \in Req : ~Stamp(q),
             \A c \in Client : /\ ~Stream(c) /\ ~StreamFails(c) /\ ~Unsubscribe(c)
                              /\ \A q \in Req : ~Send(q, c)
      PROVE  OfferInv'
  <2>1. ASSUME NEW d \in Client PROVE client'[d].chan = client[d].chan
    BY <1>8, HandlerSteps, ClientChanges DEF Becomes
  <2>2. ASSUME NEW d \in Client PROVE live'[d] = live[d]
    BY <1>1, <1>8, ViewSteps, ViewChanges
  <2> QED
    BY <1>4, <1>8, <2>1, <2>2 DEF OfferInv
<1> QED
  BY <1>3, <1>5, <1>7, <1>8

-----------------------------------------------------------------------------
(* What became of every event *)

(* c has not subscribed yet and x was, or will be, offered without it.     *)
Waiting(c, x) == x \in gap[c] \/ \E r \in Req : req[r].evt = x /\ req[r].pc = "recorded"

(* c has subscribed, and x was shown, or lost for a known reason, or is on *)
(* its way.                                                                *)
Accounted(c, x) == x \in SetOf(live[c]) \cup dropped[c] \cup gap[c] \/ OnItsWay(x, c)

(* A dashboard gets to these places by these steps only, and keeps the     *)
(* place of its snapshot.                                                  *)
LEMMA ClientPlaces ==
    ASSUME MonitorTypes, Next, NEW c \in Client
    PROVE  /\ client'[c].pc = "snapped" =>
                 SendSnapshot(c) \/ (client[c].pc = "snapped" /\ client'[c].since = client[c].since)
           /\ client'[c].pc = "live" =>
                 /\ client[c].pc = "live" \/ (client[c].pc = "snapped" /\ Subscribe(c))
                 /\ client'[c].since = client[c].since
<1>1. ASSUME NEW r \in Req, NEW d \in Client, Send(r, d)
      PROVE  client'[c].pc = client[c].pc /\ client'[c].since = client[c].since
  BY <1>1, SendStep DEF Becomes
<1>2. ASSUME NEW d \in Client, d # c,
             \/ SendSnapshot(d) \/ Subscribe(d) \/ Disconnect(d)
             \/ Stream(d) \/ StreamFails(d) \/ EndStream(d) \/ Unsubscribe(d)
      PROVE  client'[c] = client[c]
  BY <1>2, HandlerSteps DEF Becomes
<1>3. CASE Disconnect(c) \/ Stream(c)
  <2>1. Stream(c) => client[c].pc = "live"
    BY DEF Stream
  <2> QED
    BY <1>3, <2>1, HandlerSteps DEF Becomes
<1>4. CASE Subscribe(c)
  <2>1. client[c].pc = "snapped"
    BY <1>4 DEF Subscribe
  <2> QED
    BY <1>4, <2>1, HandlerSteps DEF Becomes
<1>5. CASE SendSnapshot(c) \/ StreamFails(c) \/ EndStream(c) \/ Unsubscribe(c)
  BY <1>5, HandlerSteps DEF Becomes
<1> QED
  BY <1>1, <1>2, <1>3, <1>4, <1>5, ClientChanges

(* Until a dashboard leaves, the notes of its losses only grow.            *)
LEMMA LossesGrow ==
    ASSUME MonitorTypes, Next, NEW c \in Client, client[c].pc # "leaving"
    PROVE  gap[c] \subseteq gap'[c] /\ dropped[c] \subseteq dropped'[c]
<1>1. gap \in [Client -> SUBSET RequestEvent] /\ dropped \in [Client -> SUBSET RequestEvent]
  BY DEF MonitorTypes, ViewInv
<1>2. ASSUME NEW r \in Req, BeginBroadcast(r)
      PROVE  gap[c] \subseteq gap'[c] /\ dropped[c] \subseteq dropped'[c]
  BY <1>2 DEF BeginBroadcast
<1>3. ASSUME NEW r \in Req, NEW d \in Client, Send(r, d)
      PROVE  gap[c] \subseteq gap'[c] /\ dropped[c] \subseteq dropped'[c]
  BY <1>1, <1>3, SendStep
<1>4. ASSUME NEW d \in Client, Unsubscribe(d)
      PROVE  gap[c] \subseteq gap'[c] /\ dropped[c] \subseteq dropped'[c]
  <2>1. d # c
    BY <1>4 DEF Unsubscribe
  <2> QED
    BY <1>1, <1>4, <2>1 DEF Unsubscribe
<1> QED
  BY <1>2, <1>3, <1>4, LossChanges

(* A recorded event stays with its request until it is offered.            *)
LEMMA WaitingStays ==
    ASSUME MonitorTypes, Next, NEW c \in Client, NEW x, Waiting(c, x),
           client[c].pc = "snapped"
    PROVE  Waiting(c, x)'
<1>1. gap[c] \subseteq gap'[c]
  BY LossesGrow
<1>2. CASE x \in gap[c]
  BY <1>1, <1>2 DEF Waiting
<1>3. ASSUME NEW q \in Req, req[q].evt = x, req[q].pc = "recorded"
      PROVE  Waiting(c, x)'
  <2>1. CASE BeginBroadcast(q)
    <3>1. x \in gap'[c]
      BY <1>3, <2>1 DEF BeginBroadcast
    <3> QED
      BY <3>1 DEF Waiting
  <2>2. CASE req'[q] = req[q]
    BY <1>3, <2>2 DEF Waiting
  <2>3. ASSUME NEW r \in Req, Stamp(r) \/ Record(r) PROVE req'[q] = req[q]
    BY <1>3, <2>3, StampStep, RecordStep
  <2>4. ASSUME NEW r \in Req, BeginBroadcast(r), r # q PROVE req'[q] = req[q]
    BY <2>4, BroadcastSteps, SendingFields, SMTT(20)
  <2>5. ASSUME NEW r \in Req, NEW d \in Client, Send(r, d) PROVE req'[q] = req[q]
    <3> DEFINE rest == req[r].left \ {d}
    <3>1. req' = [req EXCEPT ![r] = Sending(req[r].evt, rest)] /\ r # q
      BY <1>3, <2>5, BroadcastSteps
    <3> HIDE DEF rest
    <3> QED
      BY <3>1, SendingFields
  <2> QED
    BY <2>1, <2>2, <2>3, <2>4, <2>5, WhatChanges DEF RequestStep
<1> QED
  BY <1>2, <1>3 DEF Waiting

(* What a subscribed dashboard is owed is put into its channel, or noted   *)
(* as dropped, and what is in the channel is shown.                        *)
LEMMA AccountedStays ==
    ASSUME MonitorTypes, RingInv, Next, NEW c \in Client, NEW x, Accounted(c, x),
           client[c].pc = "live", client'[c].pc = "live", c \in subscribers
    PROVE  Accounted(c, x)'
<1>1. gap[c] \subseteq gap'[c] /\ dropped[c] \subseteq dropped'[c]
  BY LossesGrow
<1>2. /\ live \in [Viewer -> Seq(RequestEvent)] /\ c \in Viewer /\ c \notin Follower
      /\ client[c].chan \in Seq(RequestEvent) /\ live[c] \in Seq(RequestEvent)
      /\ client \in [Client -> Dashboard]
  BY Constants DEF MonitorTypes, ViewInv, ClientInv, Dashboard, Viewer
<1>3. SetOf(client[c].chan) \cup SetOf(live[c]) \subseteq SetOf(client'[c].chan) \cup SetOf(live'[c])
  <2>1. CASE Stream(c)
    <3>1. /\ client[c].chan # <<>> /\ client'[c].chan = Tail(client[c].chan)
          /\ live'[c] = Append(live[c], Head(client[c].chan))
      BY <1>2, <2>1, HandlerSteps, ViewSteps DEF Becomes
    <3>2. /\ SetOf(client[c].chan) = SetOf(client'[c].chan) \cup {Head(client[c].chan)}
          /\ Head(client[c].chan) \in RequestEvent
      BY <1>2, <3>1, TailFacts
    <3>3. SetOf(live'[c]) = SetOf(live[c]) \cup {Head(client[c].chan)}
      BY <1>2, <3>1, <3>2, AppendFacts
    <3> QED
      BY <3>2, <3>3
  <2>2. CASE ~Stream(c)
    <3>1. live'[c] = live[c]
      <4>1. ~Unsubscribe(c)
        BY DEF Unsubscribe
      <4> QED
        BY <1>2, <2>2, <4>1, ViewSteps, ViewChanges
    <3>2. SetOf(client[c].chan) \subseteq SetOf(client'[c].chan)
      <4>1. ASSUME NEW r \in Req, NEW d \in Client, Send(r, d)
            PROVE  SetOf(client[c].chan) \subseteq SetOf(client'[c].chan)
        <5>1. \/ client'[c].chan = client[c].chan
              \/ client'[c].chan = Append(client[c].chan, req[r].evt) /\ req[r].evt \in RequestEvent
          BY <4>1, SendStep DEF Becomes
        <5>2. req[r].evt \in RequestEvent =>
                 SetOf(Append(client[c].chan, req[r].evt)) = SetOf(client[c].chan) \cup {req[r].evt}
          BY <1>2, AppendFacts
        <5>3. CASE client'[c].chan = client[c].chan
          BY <5>3
        <5>4. CASE /\ client'[c].chan = Append(client[c].chan, req[r].evt)
                   /\ req[r].evt \in RequestEvent
          BY <5>2, <5>4
        <5> QED
          BY <5>1, <5>3, <5>4
      <4>2. ~StreamFails(c) /\ ~EndStream(c) /\ ~Unsubscribe(c)
        BY HandlerSteps DEF Becomes
      <4>3. SendSnapshot(c) \/ Subscribe(c) \/ Disconnect(c) => client'[c].chan = client[c].chan
        BY HandlerSteps DEF Becomes
      <4>4. ASSUME NEW d \in Client, d # c,
                   \/ SendSnapshot(d) \/ Subscribe(d) \/ Disconnect(d)
                   \/ Stream(d) \/ StreamFails(d) \/ EndStream(d) \/ Unsubscribe(d)
            PROVE  client'[c].chan = client[c].chan
        BY <4>4, HandlerSteps DEF Becomes
      <4> QED
        BY <2>2, <4>1, <4>2, <4>3, <4>4, ClientChanges
    <3> QED
      BY <3>1, <3>2
  <2> QED
    BY <2>1, <2>2
<1>4. ASSUME NEW q \in Req, req[q].evt = x, req[q].pc = "recorded" \/ c \in req[q].left
      PROVE  Accounted(c, x)'
  <2>0. c \in req[q].left => req[q].pc = "sending"
    BY DEF MonitorTypes, ReqInv
  <2>1. CASE req'[q].evt = x /\ (req'[q].pc = "recorded" \/ c \in req'[q].left)
    BY <2>1 DEF Accounted, OnItsWay
  <2>2. ASSUME NEW r \in Req, Stamp(r) \/ Record(r) PROVE req'[q] = req[q]
    BY <1>4, <2>0, <2>2, StampStep, RecordStep
  <2>3. ASSUME NEW r \in Req, BeginBroadcast(r) PROVE Accounted(c, x)'
    <3>1. req' = [req EXCEPT ![r] = Sending(req[r].evt, subscribers)] /\ subscribers # {}
      BY <2>3, BroadcastSteps
    <3>2. /\ r # q => req'[q] = req[q]
          /\ r = q => req'[q].evt = x /\ req'[q].left = subscribers
      BY <1>4, <3>1, SendingFields
    <3> QED
      BY <1>4, <2>1, <3>2
  <2>4. ASSUME NEW r \in Req, NEW d \in Client, Send(r, d) PROVE Accounted(c, x)'
    <3> DEFINE rest == req[r].left \ {d}
    <3>1. req' = [req EXCEPT ![r] = Sending(req[r].evt, rest)] /\ req[r].pc = "sending"
      BY <2>4, BroadcastSteps
    <3>2. CASE q # r
      <4>1. req'[q] = req[q]
        <5> HIDE DEF rest
        <5> QED
          BY <3>1, <3>2, SendingFields
      <4> QED
        BY <1>4, <2>1, <4>1
    <3>3. CASE q = r /\ d # c
      <4>1. c \in rest
        BY <1>4, <3>1, <3>3
      <4>2. req'[q].evt = x /\ c \in req'[q].left
        <5> HIDE DEF rest
        <5> QED
          BY <1>4, <3>1, <3>3, <4>1, SendingFields, ZenonT(40)
      <4> QED
        BY <2>1, <4>2
    <3>4. CASE q = r /\ d = c
      <4>1. x \in SetOf(client'[c].chan) \/ x \in dropped'[c]
        <5>1. /\ x \in RequestEvent
              /\ \/ client'[c].chan = Append(client[c].chan, x)
                 \/ dropped' = [dropped EXCEPT ![c] = dropped[c] \cup {x}]
          BY <1>4, <2>4, <3>4, SendStep DEF Becomes
        <5>2. dropped \in [Client -> SUBSET RequestEvent]
          BY DEF MonitorTypes, ViewInv
        <5>3. CASE client'[c].chan = Append(client[c].chan, x)
          BY <1>2, <5>1, <5>3, AppendFacts
        <5>4. CASE dropped' = [dropped EXCEPT ![c] = dropped[c] \cup {x}]
          BY <5>2, <5>4
        <5> QED
          BY <5>1, <5>3, <5>4
      <4> QED
        BY <4>1 DEF Accounted, OnItsWay
    <3> QED
      BY <3>2, <3>3, <3>4
  <2>5. CASE UNCHANGED req
    BY <1>4, <2>1, <2>5
  <2>6. ASSUME NEW r \in Req, Stamp(r) \/ Record(r) PROVE Accounted(c, x)'
    BY <1>4, <2>1, <2>2, <2>6
  <2> QED
    BY <2>3, <2>4, <2>5, <2>6, WhatChanges DEF RequestStep
<1>5. CASE x \in SetOf(client[c].chan) \cup SetOf(live[c])
  BY <1>3, <1>5 DEF Accounted, OnItsWay
<1>6. CASE x \in dropped[c] \cup gap[c]
  BY <1>1, <1>6 DEF Accounted
<1> QED
  BY <1>4, <1>5, <1>6 DEF Accounted, OnItsWay

(* The history only grows, at its end, by the event of a request that now  *)
(* is "recorded".                                                          *)
LEMMA HistoryGrows ==
    ASSUME MonitorTypes, Next, NEW i \in 1..Len(recorded')
    PROVE  /\ Len(recorded) \in Nat
           /\ \/ i \in 1..Len(recorded) /\ recorded'[i] = recorded[i]
              \/ \E r \in Req : req'[r].evt = recorded'[i] /\ req'[r].pc = "recorded"
<1>1. Len(recorded) \in Nat
  BY LenProperties DEF MonitorTypes, StoreInv
<1>2. ASSUME NEW r \in Req, Record(r)
      PROVE  \/ i \in 1..Len(recorded) /\ recorded'[i] = recorded[i]
             \/ req'[r].evt = recorded'[i] /\ req'[r].pc = "recorded"
  <2>1. /\ Len(recorded') = Len(recorded) + 1 /\ recorded'[Len(recorded) + 1] = req[r].evt
        /\ \A j \in 1..Len(recorded) : recorded'[j] = recorded[j]
        /\ req'[r].evt = req[r].evt /\ req'[r].pc = "recorded"
    BY <1>2, RecordStep, AppendFacts, SMTT(20)
  <2>2. i \in 1..Len(recorded) \/ i = Len(recorded) + 1
    BY <1>1, <2>1
  <2> QED
    BY <2>1, <2>2
<1> QED
  BY <1>1, <1>2, WhatChanges

LEMMA LossKept == ASSUME MonitorTypes, RingInv, LossInv, Next PROVE LossInv'
<1> SUFFICES ASSUME NEW c \in Client
             PROVE  /\ client'[c].pc = "live" => c \in subscribers'
                    /\ client'[c].pc = "snapped" =>
                          \A i \in client'[c].since + 1 .. Len(recorded') : Waiting(c, recorded[i])'
                    /\ client'[c].pc = "live" =>
                          \A i \in client'[c].since + 1 .. Len(recorded') : Accounted(c, recorded[i])'
  BY DEF LossInv, Waiting, Accounted
<1>1. /\ client[c].pc = "live" => c \in subscribers
      /\ client[c].pc = "snapped" =>
            \A i \in client[c].since + 1 .. Len(recorded) : Waiting(c, recorded[i])
      /\ client[c].pc = "live" =>
            \A i \in client[c].since + 1 .. Len(recorded) : Accounted(c, recorded[i])
  BY DEF LossInv, Waiting, Accounted
<1>2. client[c].since \in Nat /\ client'[c].since \in Nat
  BY TypesKept DEF MonitorTypes, ClientInv, Dashboard
<1>3. client'[c].pc = "live" => c \in subscribers'
  <2>1. ASSUME NEW d \in Client, Unsubscribe(d), client'[c].pc = "live"
        PROVE  c \in subscribers'
    <3>1. d # c /\ client'[c] = client[c]
      BY <2>1, HandlerSteps DEF Becomes
    <3> QED
      BY <1>1, <2>1, <3>1 DEF Unsubscribe
  <2>2. ASSUME NEW d \in Client, Subscribe(d) PROVE subscribers' = subscribers \cup {d}
    BY <2>2 DEF Subscribe
  <2>3. ASSUME NEW d \in Client,
               SendSnapshot(d) \/ Disconnect(d) \/ Stream(d) \/ StreamFails(d) \/ EndStream(d)
        PROVE  subscribers' = subscribers
    BY <2>3 DEF SendSnapshot, Disconnect, Stream, StreamFails, EndStream
  <2>4. ASSUME NEW r \in Req, NEW d \in Client, Send(r, d) PROVE subscribers' = subscribers
    BY <2>4, SendStep
  <2> QED
    BY <1>1, <2>1, <2>2, <2>3, <2>4, ClientPlaces, ClientChanges
<1>4. client[c].pc = "snapped" =>
         \A x : Waiting(c, x) =>
            x \in gap'[c] \/ \E r \in Req : req'[r].evt = x /\ req'[r].pc = "recorded"
  BY WaitingStays DEF Waiting
<1>5. ASSUME client'[c].pc = "snapped", NEW i \in client'[c].since + 1 .. Len(recorded')
      PROVE  Waiting(c, recorded[i])'
  <2>1. CASE \E r \in Req : req'[r].evt = recorded'[i] /\ req'[r].pc = "recorded"
    BY <2>1 DEF Waiting
  <2>2. CASE i \in 1..Len(recorded) /\ recorded'[i] = recorded[i]
    <3>1. ~SendSnapshot(c)
      <4>1. SendSnapshot(c) => client'[c].since = Len(recorded)
        BY HandlerSteps DEF Becomes
      <4> QED
        BY <1>2, <2>2, <4>1
    <3>2. client[c].pc = "snapped" /\ client'[c].since = client[c].since
      BY <1>5, <3>1, ClientPlaces
    <3>3. Waiting(c, recorded[i])
      BY <1>1, <1>2, <2>2, <3>2
    <3> QED
      BY <1>4, <2>2, <3>2, <3>3 DEF Waiting
  <2>3. i \in 1..Len(recorded')
    BY <1>2
  <2> QED
    BY <2>1, <2>2, <2>3, HistoryGrows
<1>6. ASSUME client'[c].pc = "live", NEW i \in client'[c].since + 1 .. Len(recorded')
      PROVE  Accounted(c, recorded[i])'
  <2>1. CASE \E r \in Req : req'[r].evt = recorded'[i] /\ req'[r].pc = "recorded"
    BY <2>1 DEF Accounted, OnItsWay
  <2>2. CASE i \in 1..Len(recorded) /\ recorded'[i] = recorded[i]
    <3>1. client'[c].since = client[c].since
      BY <1>6, ClientPlaces
    <3>2. i \in client[c].since + 1 .. Len(recorded)
      BY <1>2, <2>2, <3>1
    <3>3. CASE client[c].pc = "live"
      <4>1. \A x : Accounted(c, x) =>
               \/ x \in SetOf(live'[c]) \cup dropped'[c] \cup gap'[c]
               \/ x \in SetOf(client'[c].chan)
               \/ \E r \in Req : req'[r].evt = x /\ (req'[r].pc = "recorded" \/ c \in req'[r].left)
        BY <1>1, <1>6, <3>3, AccountedStays DEF Accounted, OnItsWay
      <4>2. Accounted(c, recorded[i])
        BY <1>1, <3>2, <3>3
      <4> QED
        BY <2>2, <4>1, <4>2 DEF Accounted, OnItsWay
    <3>4. CASE client[c].pc = "snapped"
      <4>1. Waiting(c, recorded[i])
        BY <1>1, <3>2, <3>4
      <4> QED
        BY <1>4, <2>2, <3>4, <4>1 DEF Accounted, OnItsWay
    <3> QED
      BY <1>6, <3>3, <3>4, ClientPlaces
  <2>3. i \in 1..Len(recorded')
    BY <1>2
  <2> QED
    BY <2>1, <2>2, <2>3, HistoryGrows
<1> QED
  BY <1>3, <1>5, <1>6

-----------------------------------------------------------------------------
(* The inductive invariant *)

LEMMA MonitorInitially == ASSUME Init PROVE MonitorInv
<1> USE Constants
<1> DEFINE none == <<>>
<1>1. none \in Seq(RequestEvent) /\ Len(none) = 0 /\ SetOf(none) = {} /\ Distinct(none)
  BY EmptyFacts
<1>2. /\ recorded = none /\ file = none
      /\ client = [c \in Client |-> [pc |-> "new", gone |-> FALSE, chan |-> none, since |-> 0]]
      /\ recent = [v \in Viewer |-> none] /\ live = [v \in Viewer |-> none]
  BY DEF Init, NewClient
<1>3. DOMAIN none = {}
  BY <1>1, LenProperties
<1>4. \A c \in Client : c \in Viewer
  BY DEF Viewer
<1>5. \A f \in Follower : f \in Viewer
  BY DEF Viewer
<1>6. OpeningInv
  BY <1>4, <1>5 DEF Init, OpeningInv
<1> HIDE DEF none
<1>7. StoreInv
  <2>1. services \in [Service \cup {Gateway} -> ServiceCounter]
    BY DEF Init, NoCounter, ServiceCounter
  <2>2. nextID \in 0..MaxEvents /\ ringHead \in Slot /\ ringLen \in 0..maxRecentEvents
    BY DEF Init, Slot
  <2> QED
    BY <1>1, <1>2, <2>1, <2>2 DEF Init, StoreInv
<1>8. ReqInv
  <2>1. IdleReq \in Request
    BY DEF IdleReq, Request
  <2> QED
    BY <2>1 DEF Init, ReqInv, IdleReq
<1>9. ClientInv
  <2>1. client \in [Client -> Dashboard]
    BY <1>1, <1>2 DEF Dashboard
  <2> QED
    BY <1>1, <1>2, <2>1 DEF Init, ClientInv
<1>10. FollowerInv
  BY <1>1, <1>2 DEF Init, FollowerInv, Run
<1>11. ViewInv
  BY <1>1, <1>2 DEF Init, ViewInv
<1>12. EventInv
  <2>1. \A r \in Req : req[r].pc = "idle"
    BY DEF Init, IdleReq
  <2> QED
    BY <1>1, <1>2, <2>1 DEF EventInv
<1>13. OfferInv
  <2>1. \A r \in Req : req[r].pc = "idle"
    BY DEF Init, IdleReq
  <2> QED
    BY <1>1, <1>2, <1>4, <2>1 DEF OfferInv, OfferAt, Owes
<1>14. FileInv
  <2>1. Abstract!PartOf(file, recorded)
    BY <1>2, <1>3 DEF Abstract!PartOf, Abstract!Members
  <2> QED
    BY <1>1, <1>2, <1>5, <2>1 DEF FileInv
<1>15. RingInv
  <2>1. ringLen = 0 /\ Len(recorded) = 0
    BY <1>1, <1>2 DEF Init
  <2> QED
    BY <2>1 DEF RingInv
<1>16. CountInv
  <2>1. FailuresIn(recorded) = {} /\ \A s \in Service \cup {Gateway} : Mine(s) = {}
    BY <1>2, <1>3 DEF FailuresIn, Mine
  <2>2. Cardinality({}) = 0
    BY FS_EmptySet
  <2> QED
    BY <1>1, <1>2, <2>1, <2>2 DEF Init, CountInv, NoCounter
<1>17. LossInv
  BY <1>2 DEF LossInv
<1> QED
  BY <1>6, <1>7, <1>8, <1>9, <1>10, <1>11, <1>12, <1>13, <1>14, <1>15, <1>16, <1>17
     DEF MonitorInv, MonitorTypes

LEMMA MonitorInvIsInductive == ASSUME MonitorInv, [Next]_vars PROVE MonitorInv'
<1>1. CASE Next
  BY <1>1, TypesKept, EventKept, OfferKept, FileKept, OpeningKept, RingKept, CountKept, LossKept
     DEF MonitorInv
<1>2. CASE UNCHANGED vars
  <2> USE <1>2 DEF vars
  <2>1. MonitorTypes'
    BY DEF MonitorInv, MonitorTypes, StoreInv, ReqInv, ClientInv, FollowerInv, ViewInv
  <2>2. EventInv'
    BY DEF MonitorInv, EventInv
  <2>3. OfferInv'
    BY DEF MonitorInv, OfferInv, OfferAt, Owes
  <2>4. FileInv'
    BY DEF MonitorInv, FileInv, Abstract!PartOf, Abstract!Members
  <2>5. OpeningInv' /\ RingInv' /\ CountInv'
    BY DEF MonitorInv, OpeningInv, RingInv, RingStart, CountInv, Mine
  <2>6. LossInv'
    BY DEF MonitorInv, LossInv, OnItsWay
  <2> QED
    BY <2>1, <2>2, <2>3, <2>4, <2>5, <2>6 DEF MonitorInv
<1> QED
  BY <1>1, <1>2

LEMMA MonitorInvHolds == Spec => []MonitorInv
BY MonitorInitially, MonitorInvIsInductive, PTL DEF Spec

-----------------------------------------------------------------------------
(* Theorems *)

(* Every variable of the monitor keeps its type: in particular the ring's  *)
(* index stays inside the ring and no channel holds more than it can.      *)
THEOREM MonitorTypeCorrect == Spec => []TypeOK
<1>1. MonitorInv => TypeOK
  <2> SUFFICES ASSUME MonitorInv PROVE TypeOK
    OBVIOUS
  <2> USE DEF MonitorInv, MonitorTypes
  <2>1. Len(recorded) \in Nat /\ Len(file) \in Nat
    BY LenProperties DEF StoreInv
  <2>2. \A c \in Client : /\ client[c].pc \in {"new", "snapped", "live", "leaving", "closed"}
                         /\ client[c].gone \in BOOLEAN /\ client[c].since \in 0..Len(recorded)
                         /\ Len(client[c].chan) <= ChanCap
    BY <2>1 DEF ClientInv, Dashboard
  <2>3. \A s \in {file, recorded} : SetOf(s) \subseteq RequestEvent
    BY LenProperties, ElementOfSeq DEF StoreInv, SetOf
  <2>4. \A f \in Follower : follower[f].pos \in 0..Len(file)
    BY <2>1 DEF FollowerInv, Run
  <2>5. /\ nextID \in 0..MaxEvents
        /\ ring \in [Slot -> RequestEvent \cup {NoEvent}]
        /\ ringHead \in Slot /\ ringLen \in 0..maxRecentEvents
        /\ total \in Nat /\ totalErr \in 0..total
        /\ services \in [Service \cup {Gateway} -> ServiceCounter]
    BY DEF StoreInv
  <2>6. /\ subscribers \subseteq Client
        /\ req \in [Req -> [pc : {"idle", "stamped", "recorded", "sending"},
                            evt : RequestEvent \cup {NoEvent}, left : SUBSET Client]]
    BY DEF ClientInv, ReqInv, Request
  <2> QED
    BY <2>2, <2>3, <2>4, <2>5, <2>6 DEF TypeOK
<1> QED
  BY <1>1, MonitorInvHolds, PTL

(* A snapshot is exact: the ring read from its oldest slot is the newest   *)
(* events in their order however often it has wrapped, and all counters    *)
(* are those of the whole history (record, recentEvents, RegisterService). *)
THEOREM SnapshotIsExact == Spec => []SnapshotExact
<1>1. MonitorInv => SnapshotExact
  <2> SUFFICES ASSUME MonitorInv PROVE SnapshotExact
    OBVIOUS
  <2>1. RecentEvents = LastOf(maxRecentEvents, recorded)
    BY RingIsEnd DEF MonitorInv
  <2> QED
    BY <2>1 DEF MonitorInv, CountInv, Mine, SnapshotExact
<1> QED
  BY <1>1, MonitorInvHolds, PTL

(* No event is lost in silence: since its snapshot a subscribed dashboard  *)
(* was shown every event, or the event is on its way, or it met a full     *)
(* channel, or it was offered before the subscription (SSEHandler,         *)
(* broadcast).                                                             *)
THEOREM LossesAreAccounted == Spec => []LossesAccounted
<1>1. MonitorInv => LossesAccounted
  BY DEF MonitorInv, MonitorTypes, ClientInv, LossInv, LossesAccounted
<1> QED
  BY <1>1, MonitorInvHolds, PTL

-----------------------------------------------------------------------------
(* The monitor is a feed *)

LEMMA FeedInitially == ASSUME Init PROVE Abstract!Init
BY DEF Init, Abstract!Init

(* The last events of part of the history are part of the history.         *)
LEMMA LastIsPart ==
    ASSUME NEW s \in Seq(RequestEvent), NEW t, NEW n \in Nat, Abstract!PartOf(s, t)
    PROVE  Abstract!PartOf(LastOf(n, s), t)
<1> DEFINE u == LastOf(n, s)
           m == IF Len(s) <= n THEN Len(s) ELSE n
           k == Len(s) - m
<1>1. /\ Len(s) \in Nat /\ DOMAIN s = 1..Len(s)
      /\ u \in Seq(RequestEvent) /\ Len(u) = m /\ DOMAIN u = 1..m
      /\ \A i \in 1..m : u[i] = s[k + i]
  BY LastFacts, LenProperties
<1>2. k \in Nat /\ m \in Nat /\ k + m = Len(s)
  BY <1>1
<1> HIDE DEF u, m, k
<1>3. \A i \in 1..m : k + i \in DOMAIN s
  BY <1>1, <1>2
<1>4. \A i \in DOMAIN u : u[i] \in Abstract!Members(t)
  BY <1>1, <1>3 DEF Abstract!PartOf, Abstract!Members
<1>5. ASSUME NEW i \in DOMAIN u, NEW j \in DOMAIN u, i < j
      PROVE  \E a, b \in DOMAIN t : a < b /\ t[a] = u[i] /\ t[b] = u[j]
  <2>1. k + i \in DOMAIN s /\ k + j \in DOMAIN s /\ k + i < k + j
    BY <1>1, <1>2, <1>3, <1>5
  <2>2. u[i] = s[k + i] /\ u[j] = s[k + j]
    BY <1>1
  <2> QED
    BY <2>1, <2>2 DEF Abstract!PartOf
<1>6. Abstract!PartOf(u, t)
  BY <1>4, <1>5 DEF Abstract!PartOf, Abstract!Members
<1> QED
  BY <1>6 DEF u

LEMMA HistoryIsPart ==
    ASSUME NEW s \in Seq(RequestEvent) PROVE Abstract!PartOf(s, s)
BY DEF Abstract!PartOf, Abstract!Members

(* record publishes; the snapshot of a dashboard and the first lines of a  *)
(* run of the command open the feed; a message from the channel and a line *)
(* of the file are shows; leaving closes.  Everything else stutters.       *)
LEMMA FeedStep ==
    ASSUME MonitorInv, [Next]_vars
    PROVE  [Abstract!Next]_Abstract!feedVars
<1> USE DEF MonitorInv
<1>1. /\ recorded \in Seq(RequestEvent) /\ file \in Seq(RequestEvent)
      /\ \A c \in Client : c \in Viewer
      /\ \A f \in Follower : f \in Viewer
      /\ recent \in [Viewer -> Seq(RequestEvent)] /\ live \in [Viewer -> Seq(RequestEvent)]
  BY DEF MonitorTypes, StoreInv, ViewInv, Viewer
<1>2. ASSUME NEW r \in Req, Record(r) PROVE Abstract!Next
  <2>1. /\ recorded' = Append(recorded, req[r].evt) /\ req[r].evt \in RequestEvent
        /\ req[r].pc = "stamped" /\ UNCHANGED <<recent, live>>
    BY <1>2, RecordStep
  <2>2. req[r].evt \notin Abstract!Members(recorded)
    BY <2>1 DEF EventInv, Abstract!Members, SetOf
  <2>3. Abstract!Publish
    BY <2>1, <2>2 DEF Abstract!Publish
  <2> QED
    BY <2>3 DEF Abstract!Next
<1>3. ASSUME NEW v \in Viewer, NEW s \in Seq(RequestEvent), Abstract!PartOf(s, recorded),
             recent[v] = <<>>, live[v] = <<>>,
             recent' = [recent EXCEPT ![v] = s], UNCHANGED <<recorded, live>>
      PROVE  Abstract!Next
  <2>1. recent'[v] = s
    BY <1>1, <1>3
  <2>2. Abstract!Open(v)
    BY <1>3, <2>1 DEF Abstract!Open
  <2> QED
    BY <2>2 DEF Abstract!Next
<1>4. ASSUME NEW v \in Viewer, NEW e \in SetOf(recorded), e \notin SetOf(live[v]),
             live' = [live EXCEPT ![v] = Append(live[v], e)], UNCHANGED <<recorded, recent>>
      PROVE  Abstract!Next
  <2>1. e \in Abstract!Members(recorded) \ Abstract!Members(live[v])
    BY <1>4 DEF Abstract!Members, SetOf
  <2>2. Abstract!Show(v)
    BY <1>4, <2>1 DEF Abstract!Show
  <2> QED
    BY <2>2 DEF Abstract!Next
<1>5. ASSUME NEW c \in Client, SendSnapshot(c) PROVE Abstract!Next
  <2> DEFINE s == LastOf(maxRecentEvents, recorded)
  <2>1. recent' = [recent EXCEPT ![c] = s] /\ UNCHANGED <<live, recorded>> /\ client[c].pc = "new"
    BY <1>5, ViewSteps
  <2>2. s \in Seq(RequestEvent) /\ Abstract!PartOf(s, recorded)
    BY <1>1, Constants, LastFacts, LastIsPart, HistoryIsPart
  <2>3. recent[c] = <<>> /\ live[c] = <<>>
    BY <2>1 DEF OpeningInv
  <2> HIDE DEF s
  <2> QED
    BY <1>1, <1>3, <2>1, <2>2, <2>3
<1>6. ASSUME NEW f \in Follower, ReadMonitorEvents(f) PROVE Abstract!Next
  <2> DEFINE s == LastOf(Lines, file)
  <2>1. recent' = [recent EXCEPT ![f] = s] /\ UNCHANGED <<live, recorded>> /\ follower[f].pc = "new"
    BY <1>6, ViewSteps
  <2>2. s \in Seq(RequestEvent) /\ Abstract!PartOf(s, recorded)
    BY <1>1, Constants, LastFacts, LastIsPart DEF FileInv
  <2>3. recent[f] = <<>> /\ live[f] = <<>>
    BY <2>1 DEF OpeningInv
  <2>4. f \in Viewer
    BY DEF Viewer
  <2> HIDE DEF s
  <2> QED
    BY <1>3, <2>1, <2>2, <2>3, <2>4
<1>7. ASSUME NEW c \in Client, Stream(c) PROVE Abstract!Next
  <2> DEFINE e == Head(client[c].chan)
  <2>1. /\ live' = [live EXCEPT ![c] = Append(live[c], e)]
        /\ UNCHANGED <<recent, recorded>> /\ client[c].chan # <<>>
    BY <1>7, ViewSteps
  <2>2. client[c].chan \in Seq(RequestEvent)
    BY DEF MonitorTypes, ClientInv, Dashboard
  <2>3. e \in SetOf(client[c].chan)
    BY <2>1, <2>2, TailFacts
  <2>4. e \in SetOf(recorded) /\ e \notin SetOf(live[c])
    BY <2>3 DEF OfferInv, OfferAt
  <2> HIDE DEF e
  <2> QED
    BY <1>1, <1>4, <2>1, <2>4
<1>8. ASSUME NEW f \in Follower, ReadLine(f) PROVE Abstract!Next
  <2> DEFINE n == follower[f].pos
             e == file[n + 1]
  <2>1. /\ live' = [live EXCEPT ![f] = Append(live[f], e)]
        /\ UNCHANGED <<recent, recorded>> /\ n < Len(file)
    BY <1>8, ViewSteps
  <2>2. n \in Nat /\ Len(file) \in Nat /\ DOMAIN file = 1..Len(file)
    BY <1>1, LenProperties DEF MonitorTypes, FollowerInv, Run
  <2>3. n + 1 \in DOMAIN file
    BY <2>1, <2>2
  <2>4. e \in SetOf(recorded)
    BY <2>3 DEF FileInv, Abstract!PartOf, Abstract!Members, SetOf
  <2>5. e \notin SetOf(live[f])
    <3> SUFFICES ASSUME e \in SetOf(live[f]) PROVE FALSE
      OBVIOUS
    <3>1. PICK i \in 1..n : file[i] = e
      BY DEF FileInv
    <3>2. i \in DOMAIN file /\ i # n + 1
      BY <2>1, <2>2
    <3> QED
      BY <2>3, <3>1, <3>2 DEF FileInv, Distinct
  <2>6. f \in Viewer
    BY DEF Viewer
  <2> HIDE DEF e
  <2> QED
    BY <1>4, <2>1, <2>4, <2>5, <2>6
<1>9. ASSUME NEW c \in Client, Unsubscribe(c) PROVE Abstract!Next
  <2>1. Abstract!Close(c)
    BY <1>9, ViewSteps DEF Abstract!Close
  <2> QED
    BY <1>1, <2>1 DEF Abstract!Next
<1>10. ASSUME NEW f \in Follower, Interrupt(f) PROVE Abstract!Next
  <2>1. Abstract!Close(f) /\ f \in Viewer
    BY <1>10, ViewSteps DEF Abstract!Close, Viewer
  <2> QED
    BY <2>1 DEF Abstract!Next
<1>11. CASE UNCHANGED <<recorded, recent, live>>
  BY <1>11 DEF Abstract!feedVars
<1>12. CASE UNCHANGED vars
  BY <1>11, <1>12 DEF vars
<1>13. CASE Next
  BY <1>2, <1>5, <1>6, <1>7, <1>8, <1>9, <1>10, <1>11, <1>13, WhatChanges, ViewChanges
<1> QED
  BY <1>12, <1>13

(* The monitor implements the lossy feed: nobody is shown an event that    *)
(* was not recorded, or one twice in one stream, whatever requests and     *)
(* dashboards do at once and whatever the event file misses.               *)
THEOREM MonitorIsFeed == Spec => IsFeed
BY FeedInitially, FeedStep, MonitorInvHolds, PTL DEF Spec, IsFeed, Abstract!Spec

=============================================================================
