----------------------------- MODULE CacheSpec -----------------------------
(***************************************************************************)
(* What the hardware cache of mcp_server.py promises the tools that read   *)
(* it: it holds nothing, or the last bundle that was analysed             *)
(* successfully together with a summary of that bundle.  Only a           *)
(* successful analysis changes it; no other tool, and no failed analysis, *)
(* does.  The detailed module Server.tla implements this specification   *)
(* (Server!CacheRefinement).                                               *)
(***************************************************************************)
CONSTANTS
    None,            \* the empty cache
    Bundles,         \* the must-gather paths a client may pass
    BundleNodes,     \* their contents, or Missing
    Missing,         \* a path that does not exist
    SummariesOf(_)   \* the summaries the parser can derive from a content

VARIABLE snapshot    \* None, or [bundle, summary]

Init == snapshot = None

\* A successful analysis of an existing bundle replaces the snapshot.
Analyze(b) ==
    /\ BundleNodes[b] # Missing
    /\ \E s \in SummariesOf(BundleNodes[b]) :
          snapshot' = [bundle |-> b, summary |-> s]

Next == \E b \in Bundles : Analyze(b)

Spec == Init /\ [][Next]_snapshot

=============================================================================
