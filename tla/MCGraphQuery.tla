----------------------------- MODULE MCGraphQuery -----------------------------
(***************************************************************************)
(* A small instance for TLC: three container sets over the same two hosts, *)
(* and three workloads.                                                    *)
(***************************************************************************)
EXTENDS GraphQuery, TLC

CONSTANTS q1, q2, q3, q4, sa, sb, sc, a1, a2, b1, b2, c1, c2, c3,
          ca1, ca2, cb, cc1, cc2, h1, h2, u1, u2, v1, v2, v3, w1, w2, w3

MCQuery == {q1, q2, q3, q4}
MCContainerSet == {sa, sb, sc}
MCExecutor == {a1, a2, b1, b2, c1, c2, c3}
MCContainer == {ca1, ca2, cb, cc1, cc2}
MCHost == {h1, h2}
MCWord == {u1, u2, v1, v2, v3, w1, w2, w3}

MCSetOf == (q1 :> sa) @@ (q2 :> sb) @@ (q3 :> sb) @@ (q4 :> sc)
MCExecutorsOf == (sa :> {a1, a2}) @@ (sb :> {b1, b2}) @@ (sc :> {c1, c2, c3})
MCContainerOf ==
  (a1 :> ca1) @@ (a2 :> ca2) @@ (b1 :> cb) @@ (b2 :> cb)
  @@ (c1 :> cc1) @@ (c3 :> cc1) @@ (c2 :> cc2)
MCHostOf ==
  (a1 :> h1) @@ (a2 :> h2) @@ (b1 :> h1) @@ (b2 :> h1)
  @@ (c1 :> h1) @@ (c3 :> h1) @@ (c2 :> h2)
MCHostsOf == (sa :> MCHost) @@ (sb :> MCHost) @@ (sc :> MCHost)
MCWordsOf == (sa :> {u1, u2}) @@ (sb :> {v1, v2, v3}) @@ (sc :> {w1, w2, w3})

\* The keys of sa are distinct.  Two words of sb and two of sc name one key; the first of those
\* of sc brought it into the container of c1 too, as c3, to which no word leads.
MCGraphOf ==
  (u1 :> a1) @@ (u2 :> a2) @@ (v1 :> b1) @@ (v2 :> b2) @@ (v3 :> b2)
  @@ (w1 :> c1) @@ (w2 :> c2) @@ (w3 :> c2)

MCRoundLimit == (q1 :> 1) @@ (q2 :> 0) @@ (q3 :> 2) @@ (q4 :> 1)
MCNoChange == (q1 :> TRUE) @@ (q2 :> FALSE) @@ (q3 :> FALSE) @@ (q4 :> FALSE)

\* One query on sa beside one on sb; two on sb, one after the other; one on sc.
MCWorkload == { {q1, q2}, {q2, q3}, {q4} }
=============================================================================
