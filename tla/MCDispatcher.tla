---------------------------- MODULE MCDispatcher ----------------------------
(* Values of the constants of Dispatcher for TLC. *)
EXTENDS Dispatcher

CONSTANTS NumHttp, NumMedia, \* rows of either kind
          Playlist           \* the media rows are a playlist, or each its own

MCJobs == 1 .. NumHttp + NumMedia
MCKind == [j \in MCJobs |-> IF j <= NumHttp THEN "http" ELSE "media"]

\* The items are at the places opposite to their age.
MCBatch    == [j \in MCJobs |-> IF Playlist /\ j > NumHttp THEN 1 ELSE NoBatch]
MCPosition == [j \in MCJobs |-> NumHttp + NumMedia - j]

MCOneRank  == {1}
MCTwoRanks == {0, 1}
MCTwoHttp  == [k \in Kinds |-> IF k = "http" THEN 2 ELSE 1]
MCTwoMedia == [k \in Kinds |-> IF k = "media" THEN 2 ELSE 1]
=============================================================================
