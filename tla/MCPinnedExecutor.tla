-------------------------- MODULE MCPinnedExecutor --------------------------
(***************************************************************************)
(* PinnedExecutor with the model values of its TLC runs.                   *)
(***************************************************************************)
EXTENDS PinnedExecutor, TLC

CONSTANTS p1, p2, p3, pluginThread, downloader

TwoLocal == {p1, p2}
OneLocal == {p1}
OneRemote == {p3}
OneDownloader == {downloader}

\* Only the first plugin gets an event beside its loads and cleanups.
FirstGetsEvent == [p \in Plugins |-> IF p = p1 THEN 1 ELSE 0]
NoEvents == [p \in Plugins |-> 0]
=============================================================================
