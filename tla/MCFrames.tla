------------------------------ MODULE MCFrames ------------------------------
(***************************************************************************)
(* Frames on a small instance: a frame of every type, usable and unusable  *)
(* readings, and good items next to every kind of bad one.                 *)
(***************************************************************************)
EXTENDS Frames

Mains(c, w, h) == [current |-> c, watts |-> w, hertz |-> h]
Item(kind) == [kind |-> kind, point |-> [always_on_state |-> "text"]]
Plug(w, i) == [kind |-> "good", point |-> [device_watts |-> w, sd_current |-> i]]

Reading(mains, legs, items) ==
    [type |-> "realtime_update", shape |-> "object", mains |-> mains, legs |-> legs,
     items |-> items]
Message(type, items) ==
    [type |-> type, shape |-> "object", mains |-> Mains("absent", "absent", "absent"),
     legs |-> <<>>, items |-> items]
Misshapen(f) == [f EXCEPT !.shape = "broken"]

Ordinary == Reading(Mains("fraction", "fraction", "fraction"), <<[watts |-> "whole"]>>,
                    <<Plug("fraction", "fraction")>>)
Spelled == Reading(Mains("numeral", "whole", "absent"), <<>>,
                   <<Item("not_object"), Plug("whole", "text")>>)
TextWatts == Reading(Mains("fraction", "numeral", "fraction"), <<>>, <<>>)
TextLeg == Reading(Mains("fraction", "fraction", "fraction"), <<[watts |-> "text"]>>, <<>>)
NoCurrent == Reading(Mains("absent", "fraction", "fraction"), <<>>, <<Plug("whole", "whole")>>)
BadId == Reading(Mains("fraction", "fraction", "fraction"), <<>>,
                 <<Plug("whole", "whole"), Item("unhashable_id")>>)

BadInTheMiddle == <<Item("good"), Item("not_object"), Item("good")>>
NamelessFirst == <<Item("anonymous"), Item("good")>>
Version(k) == <<[kind |-> "good", point |-> [user_version |-> k]]>>

MCFrameSet == {
    Ordinary, Spelled, TextWatts, TextLeg, NoCurrent, BadId, Misshapen(Ordinary),
    Message("new_timeline_event", BadInTheMiddle),
    Message("new_timeline_event", NamelessFirst),
    Message("device_states", BadInTheMiddle),
    Misshapen(Message("device_states_changed", NamelessFirst)),
    Message("hello", <<Item("good")>>),
    Message("data_change", Version("whole")),
    Message("unknown", <<>>)}

MCDetails == {
    [yearly_cost |-> "whole", usage |-> "whole"],
    [yearly_cost |-> "numeral", usage |-> "fraction"],
    [yearly_cost |-> "fraction", usage |-> "structure"],
    [count |-> "whole"], [count |-> "point_zero"]}

MCWatched == {"watts", "yearly_cost", "count"}
=============================================================================
