---------------------------- MODULE MCGameClock ----------------------------
(* GameClock with one process that does two things at a time, a page with one
   clock on it, and a world that runs at 3 and is slowed down to 1.           *)
EXTENDS GameClock

CONSTANTS h1, c1, c2, i1

MCHostOf == [c \in Calls |-> h1]
MCRates == {[num |-> 1, den |-> 1], [num |-> 3, den |-> 1]}
MCInitial == [num |-> 3, den |-> 1]
MCConfigured == [h \in Hosts |-> [num |-> 1, den |-> 1]]

\* The arithmetic on small anchors: the clock never decreases in the real instant, an alarm set
\* with RealMsFor never rings early and rings as soon as it can.
SmallAnchors == [game : 0 .. 4, real : 0 .. 3, num : 1 .. 4, den : 1 .. 3, epoch : {0}]
ASSUME \A a \in SmallAnchors : \A t \in 0 .. 6 :
    /\ GameMsAt(a, t) <= GameMsAt(a, t + 1)
    /\ GameMsAt(a, RealMsFor(a, t)) >= t
    /\ RealMsFor(a, t) > 0 => GameMsAt(a, RealMsFor(a, t) - 1) < t \/ t = 0
=============================================================================
