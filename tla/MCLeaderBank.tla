---------------------------- MODULE MCLeaderBank ----------------------------
(***************************************************************************)
(* Small instances of LeaderBank.  In every one of them a bundle conflicts *)
(* with itself, with the next bundle, and with the banking stage.          *)
(***************************************************************************)
EXTENDS LeaderBank, TLC

CONSTANTS a, b, t1, t2, v1, b1, b2, tip, x1, x2, x3, y1

RW(w, r) == [write |-> w, read |-> r]

MCAccess == (t1 :> RW({a}, {})) @@ (t2 :> RW({b}, {a})) @@ (v1 :> RW({b}, {}))
            @@ (x1 :> RW({a}, {})) @@ (x2 :> RW({b}, {a})) @@ (x3 :> RW({a}, {b}))
            @@ (y1 :> RW({b}, {}))

MCBundle == (b1 :> <<x1, x2>>) @@ (b2 :> <<x3>>) @@ (tip :> <<y1>>)

\* Two bundles in the window, two workers and a vote; or a tip bundle before a
\* bundle, with a worker and a vote.
MCSlots ==
  { [tips |-> <<>>, stored |-> <<b1, b2>>, queued |-> {t1, t2, v1}],
    [tips |-> <<tip>>, stored |-> <<b1>>, queued |-> {t2, v1}] }
=============================================================================
