-------------------------------- MODULE Parts ---------------------------------
(***************************************************************************)
(* Lists that come in parts.  What is on its way stands in a row of places *)
(* 0..z: the table that is being filled (0), the packets on the wire, and  *)
(* what the server has still to send (z).  h[n] is what place n holds, b   *)
(* the places where a list begins and e those where one ends.  The         *)
(* invariants of AllianceGift and AllianceMember are stated with these.    *)
(***************************************************************************)
EXTENDS Naturals

\* Behind place m and up to place n no list begins.
SameList(b, m, n) == \A j \in (m + 1)..n : j \notin b

\* Nothing is twice in a list, and nothing of a list comes behind its end.
Apart(h, b, z) ==
  \A m, n \in 0..z : m < n /\ SameList(b, m, n) => h[m] \cap h[n] = {}
Closed(h, b, e, z) ==
  \A m, n \in 0..z : m < n /\ m \in e /\ SameList(b, m, n) => h[n] = {}

\* The list s is what is on its way behind its beginning.
Whole(h, b, z, s) ==
  s = UNION {h[n] : n \in {n \in 0..z : SameList(b, n, z)}}

\* What a list holds up to any place is within one of the sets f.
Within(h, b, z, f) ==
  \A n \in 0..z : \E s \in f : \A m \in 0..n : SameList(b, m, n) => h[m] \subseteq s

\* A place that tells of a list (t) goes on with one (k) exactly when the place
\* that told before it has not ended one.
Turns(t, e, k, z) ==
  \A m, n \in 0..z :
    m < n /\ m \in t /\ n \in t /\ (\A j \in (m + 1)..(n - 1) : j \notin t)
      => (m \in e <=> n \notin k)
===============================================================================
