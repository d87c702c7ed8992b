---------------------------- MODULE MCCrawlIngest ----------------------------
(***************************************************************************)
(* Instances of CrawlIngest for TLC.                                       *)
(***************************************************************************)
EXTENDS CrawlIngest

CONSTANTS a, b, c, s1, s2

\* Fuzzy similarity is symmetric and not transitive: a and c both resemble b.
MCSimilar ==
    {<<a, a>>, <<b, b>>, <<c, c>>, <<a, b>>, <<b, a>>, <<b, c>>, <<c, b>>}

\* One or two items a fetch, every pair of titles in every order.
MCFeeds == {<<t>> : t \in Titles} \union {<<t, u>> : t, u \in Titles}

\* A short feed set for the behaviours with clean-ups.
MCShortFeeds == {<<a, c>>, <<c, b>>, <<a, b>>}

Set(sources, feeds, faults) ==
    [sources |-> sources, feeds |-> feeds, faults |-> faults]

\* Overlapping runs over one source, failing repository calls and clean-ups;
\* one run at a time over two sources, and clean-ups; and overlapping runs that
\* may fail, every feed, no clean-ups.
MCSettings == {
    Set({s1}, MCShortFeeds, {"overlap", "repo_fails", "cleanup"}),
    Set({s1, s2}, MCShortFeeds, {"cleanup"}),
    Set({s1}, MCFeeds, {"overlap", "repo_fails"})}

\* Overlapping runs, and nothing else that could go wrong.
MCOverlap == {Set({s1}, MCShortFeeds, {"overlap"})}

=============================================================================
