-------------------------- MODULE MCEventHandler --------------------------
EXTENDS EventHandler, TLC

\* The root ends a window; the next one has two blocks for its first slot,
\* and one more on top of the first of them.
Root == <<1, 1>>
OneWindow == (<<2, 1>> :> Root) @@ (<<2, 2>> :> Root) @@ (<<3, 1>> :> <<2, 1>>)
============================================================================
