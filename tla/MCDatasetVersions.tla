-------------------------- MODULE MCDatasetVersions --------------------------
(***************************************************************************)
(* Instances of DatasetVersions for TLC: dataset d1 with one superseded    *)
(* version, which a request rolls back to or replays a run on.             *)
(***************************************************************************)
EXTENDS DatasetVersions

CONSTANTS d1

McFirst == [d \in Dataset |-> 2]
McViewed == {<<d1, 1>>}
McAsked == {[kind |-> "rollback", inputs |-> <<<<d1, 1>>>>],
            [kind |-> "replay", inputs |-> <<<<d1, 2>>, <<d1, 1>>>>]}
=============================================================================
