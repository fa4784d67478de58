--------------------------- MODULE MCMusicCharts ---------------------------
(***************************************************************************)
(* A small instance of MusicCharts for TLC: a chart of all songs and one   *)
(* of the genre that the odd songs are of, with one place each.  Song 1    *)
(* goes before song 2 when both were played as often; it may be played     *)
(* before it has reached the table of songs.                               *)
(***************************************************************************)
EXTENDS MusicCharts

\* The topic holds a play of one song when the application starts.
OnePlay == {<<1>>, <<2>>}

MCChartsOf(s) == {"all", "punk"} \cap (IF s % 2 = 1 THEN Charts ELSE {"all"})
=============================================================================
