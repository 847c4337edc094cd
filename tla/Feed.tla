-------------------------------- MODULE Feed --------------------------------
(***************************************************************************)
(* What the monitor promises to whoever watches it: a lossy feed.          *)
(*                                                                         *)
(* Requests are published one by one.  A viewer that opens the feed is     *)
(* handed some of the published ones, in the order they were published,    *)
(* and then sees published requests one at a time, each at most once and   *)
(* in no promised order.  Requests may be missing.                         *)
(***************************************************************************)
EXTENDS Sequences, Naturals

CONSTANTS Event, Viewer

VARIABLES published, recent, live

feedVars == <<published, recent, live>>

Members(s) == {s[i] : i \in DOMAIN s}

(* s is what remains of t when some of its elements are left out.  The     *)
(* events of a feed are all different, so their order decides.             *)
PartOf(s, t) ==
    /\ Members(s) \subseteq Members(t)
    /\ \A i, j \in DOMAIN s : i < j =>
          \E k, l \in DOMAIN t : k < l /\ t[k] = s[i] /\ t[l] = s[j]

Init ==
    /\ published = <<>>
    /\ recent = [v \in Viewer |-> <<>>]
    /\ live = [v \in Viewer |-> <<>>]

Publish ==
    /\ \E e \in Event \ Members(published) : published' = Append(published, e)
    /\ UNCHANGED <<recent, live>>

Open(v) ==
    /\ recent[v] = <<>> /\ live[v] = <<>>
    /\ PartOf(recent'[v], published)
    /\ recent' = [recent EXCEPT ![v] = recent'[v]]
    /\ UNCHANGED <<published, live>>

Close(v) ==
    /\ recent' = [recent EXCEPT ![v] = <<>>]
    /\ live' = [live EXCEPT ![v] = <<>>]
    /\ UNCHANGED published

Show(v) ==
    /\ \E e \in Members(published) \ Members(live[v]) :
          live' = [live EXCEPT ![v] = Append(@, e)]
    /\ UNCHANGED <<published, recent>>

Next == Publish \/ \E v \in Viewer : Open(v) \/ Show(v) \/ Close(v)

Spec == Init /\ [][Next]_feedVars

=============================================================================
