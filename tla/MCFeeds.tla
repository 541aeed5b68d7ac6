------------------------------ MODULE MCFeeds -------------------------------
(* Small instances of Feeds: three policies of one insurer, one of them on  *)
(* the register of another insurer too.                                     *)
EXTENDS Feeds

CONSTANTS p1, p2, p3, i1, i2, none

Of(policy, insurer, n) == [policy |-> policy, insurer |-> insurer, n |-> n]

AllKeys ==
    {[policy |-> p, insurer |-> i1] : p \in {p1, p2, p3}} \cup {[policy |-> p1, insurer |-> i2]}

(* p1 is paid by both insurers, p2 by one, p3 by none; a line did not       *)
(* normalize.                                                               *)
Baseline == {Of(p1, i1, 1), Of(p1, i2, 1), Of(p2, i1, 1), Of(none, i1, 2)}

(* A duplicate payment, another policy, a scan read as the one policy or as *)
(* the other, an unknown policy with an unusable line, and a file of the    *)
(* other insurer.                                                           *)
Table(insurer, lines) == [insurer |-> insurer, readings |-> {lines}]

Files ==
    {Table(i1, {Of(p1, i1, 1), Of(p1, i1, 2)}),
     [insurer |-> i1, readings |-> {{Of(p1, i1, 1)}, {Of(p2, i1, 1)}, {}}],
     Table(i1, {Of(p3, i1, 1), Of(none, i1, 2)}),
     Table(i2, {Of(p1, i2, 1)})}
=============================================================================
