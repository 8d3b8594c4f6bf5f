--------------------------- MODULE MCTimelineEvents ---------------------------
(***************************************************************************)
(* TimelineEvents on small instances: two workers, two events of one       *)
(* device and one of another, whose detail has no name and whose id is no  *)
(* string.                                                                 *)
(***************************************************************************)
EXTENDS TimelineEvents

CONSTANTS d1, d2, e1, e2, e3, w1, w2

MCWorkers == {w1, w2}
MCEvents == {e1, e2, e3}

MCDevices == {d1, d2}
MCNameless == {d2}
MCOdd == {d2}
MCDeviceOf == (e1 :> d1) @@ (e2 :> d1) @@ (e3 :> d2)
=============================================================================
