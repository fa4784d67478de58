---------------------------- MODULE MusicCharts ----------------------------
(***************************************************************************)
(* kafka-streams, KafkaMusicExample.java: play events are filtered, joined *)
(* with the table of songs and counted per song; the counts are grouped    *)
(* again, by genre and all together, into Top-Five charts.                 *)
(*                                                                         *)
(* An updated count is published to the repartition topic of a chart as    *)
(* two records, the old count for the subtractor and the new one for the   *)
(* adder, between which the records of other songs may come.  The topology *)
(* runs with the default at-least-once guarantee: after a crash a task     *)
(* restores its store from the changelog, which may be newer than the      *)
(* committed offsets, and processes records again.                         *)
(***************************************************************************)
EXTENDS TopFiveSongs, Sequences, Functions

CONSTANTS
    SongIds,     \* the songs of song-feed
    Charts,      \* "all" and the genres
    ChartsOf(_), \* the charts a song belongs to
    FirstSongs,  \* the songs and ...
    FirstPlays,  \* ... the lists of plays the topics may hold at the start
    AdderFirst,  \* may Kafka Streams publish the new count before the old one?
    MaxPlays,    \* bounds: play events, ...
    MaxCrashes   \* ... and crashes of a task

ASSUME ConstantsAssumption ==
    /\ SongIds \subseteq Nat /\ IsFiniteSet(SongIds)
    /\ \A s \in SongIds : ChartsOf(s) \subseteq Charts
    /\ FirstSongs \subseteq SongIds
    /\ FirstPlays \subseteq Seq(SongIds)
    /\ AdderFirst \subseteq BOOLEAN /\ AdderFirst # {}
    /\ MaxPlays \in Nat /\ MaxCrashes \in Nat

VARIABLES
    allSongs,     \* the songs that have reached the all-songs store
    plays,        \* the topic play-events
    played,       \* how many play events the counting task has processed ...
    playedSaved,  \* ... and how many it has committed
    cache,        \* the counts, cached updates included ...
    counts,       \* ... and the counts of the song-play-count store ...
    countsSaved,  \* ... and those that the changelog held at the last commit
    outbox,       \* the records of an update not yet published, per song
    records,      \* the repartition topic of each chart
    read,         \* how many of them the charting task has processed ...
    readSaved,    \* ... and how many it has committed
    chart,        \* the stores top-five-songs and top-five-songs-by-genre ...
    chartSaved,   \* ... and what the changelog held at the last commit
    crashes

counting == <<played, playedSaved, cache, counts, countsSaved, outbox>>
charting == <<read, readSaved, chart, chartSaved>>
vars     == <<allSongs, plays, counting, records, charting, crashes>>

Zero == [s \in SongIds |-> 0]

\* `known' records for the properties whether the song was in the store when
\* it was played.
PlayEvent(s, long) == [song |-> s, long |-> long, known |-> s \in allSongs]

\* The application starts with what song-feed holds in its store and reads
\* play-events from the earliest offset.
Init ==
    /\ allSongs = FirstSongs
    /\ \E first \in FirstPlays :
        plays = [i \in 1..Len(first) |-> PlayEvent(first[i], TRUE)]
    /\ played = 0 /\ playedSaved = 0
    /\ cache = Zero /\ counts = Zero /\ countsSaved = Zero
    /\ outbox = [s \in SongIds |-> <<>>]
    /\ records = [c \in Charts |-> <<>>]
    /\ read = [c \in Charts |-> 0] /\ readSaved = read
    /\ chart = [c \in Charts |-> {}] /\ chartSaved = chart
    /\ crashes = 0

\* A song of song-feed reaches the all-songs store.  The driver loads every song
\* once: none is changed or deleted, so that an id stands for the Song by which
\* line 361 groups.
LoadSong(s) ==
    /\ s \notin allSongs
    /\ allSongs' = allSongs \cup {s}
    /\ UNCHANGED <<plays, counting, records, charting, crashes>>

\* The driver, or a player, publishes a play event.
Play(s, long) ==
    /\ Len(plays) < MaxPlays
    /\ plays' = Append(plays, PlayEvent(s, long))
    /\ UNCHANGED <<allSongs, counting, records, charting, crashes>>

\* The filter on MIN_CHARTABLE_DURATION, and the join: a song that is not
\* known yet joins to null, which groupBy drops.
Chartable(p) == p.long /\ p.song \in allSongs

CountPlay ==
    LET p == plays[played + 1] IN
    /\ played < Len(plays)
    /\ outbox[p.song] = <<>>
    /\ played' = played + 1
    /\ cache' = IF Chartable(p) THEN [cache EXCEPT ![p.song] = @ + 1] ELSE cache
    /\ UNCHANGED <<allSongs, plays, playedSaved, counts, countsSaved, outbox, records,
                   charting, crashes>>

\* Only a count that changed since the last flush is forwarded.
NeedsFlush(s) == cache[s] # counts[s]

\* A cached count is flushed to its store, which produces the two records.
FlushCount(s) ==
    LET old == [op |-> "remove", entry |-> SongPlayCount(s, counts[s])]
        new == [op |-> "add", entry |-> SongPlayCount(s, cache[s])]
    IN  /\ NeedsFlush(s)
        /\ outbox[s] = <<>>
        /\ counts' = [counts EXCEPT ![s] = cache[s]]
        /\ \E adderFirst \in AdderFirst :
              outbox' = [outbox EXCEPT ![s] =
                            IF counts[s] = 0 THEN <<new>>
                            ELSE IF adderFirst THEN <<new, old>> ELSE <<old, new>>]
        /\ UNCHANGED <<allSongs, plays, played, playedSaved, cache, countsSaved, records,
                       charting, crashes>>

\* A record is published to every chart the song belongs to.
PublishRecord(s) ==
    /\ outbox[s] # <<>>
    /\ records' = [c \in Charts |-> IF c \in ChartsOf(s)
                                    THEN Append(records[c], Head(outbox[s]))
                                    ELSE records[c]]
    /\ outbox' = [outbox EXCEPT ![s] = Tail(@)]
    /\ UNCHANGED <<allSongs, plays, played, playedSaved, cache, counts, countsSaved,
                   charting, crashes>>

\* The counting task commits, every 500 ms: first all its caches are flushed.
CommitUnflushed ==  \* mutant: the offsets are committed ahead of the counts
    /\ playedSaved # played
    /\ playedSaved' = played
    /\ countsSaved' = counts
    /\ UNCHANGED <<allSongs, plays, played, cache, counts, outbox, records, charting,
                   crashes>>

CommitCounts ==
    /\ playedSaved # played
    /\ cache = counts
    /\ \A s \in SongIds : outbox[s] = <<>>
    /\ playedSaved' = played
    /\ countsSaved' = counts
    /\ UNCHANGED <<allSongs, plays, played, cache, counts, outbox, records, charting,
                   crashes>>

\* The counting task crashes.  Of each count flushed since the last commit the
\* changelog may hold the new or the old value, and records still in the outbox
\* are never published.
CrashCounting ==
    /\ crashes < MaxCrashes
    /\ crashes' = crashes + 1
    /\ \E lost \in SUBSET SongIds :
        counts' = [s \in SongIds |-> IF s \in lost THEN countsSaved[s] ELSE counts[s]]
    /\ cache' = counts'
    /\ countsSaved' = counts'
    /\ played' = playedSaved
    /\ outbox' = [s \in SongIds |-> <<>>]
    /\ UNCHANGED <<allSongs, plays, playedSaved, records, charting>>

\* The charting task applies the next record to its store.
Chart(c) ==
    LET r == records[c][read[c] + 1] IN
    /\ read[c] < Len(records[c])
    /\ read' = [read EXCEPT ![c] = @ + 1]
    /\ chart' = [chart EXCEPT ![c] = IF r.op = "remove" THEN Subtract(@, r.entry)
                                                      ELSE AddToStore(@, r.entry)]
    /\ UNCHANGED <<allSongs, plays, counting, records, readSaved, chartSaved, crashes>>

CommitChart(c) ==
    /\ readSaved[c] # read[c]
    /\ readSaved' = [readSaved EXCEPT ![c] = read[c]]
    /\ chartSaved' = [chartSaved EXCEPT ![c] = chart[c]]
    /\ UNCHANGED <<allSongs, plays, counting, records, read, chart, crashes>>

\* The charting task crashes: it reads again from the committed offset, into
\* the store as of then or as of now.
CrashCharting(c) ==
    /\ crashes < MaxCrashes
    /\ crashes' = crashes + 1
    /\ read' = [read EXCEPT ![c] = readSaved[c]]
    /\ \E store \in {chart[c], chartSaved[c]} :
        /\ chart' = [chart EXCEPT ![c] = store]
        /\ chartSaved' = [chartSaved EXCEPT ![c] = store]
    /\ UNCHANGED <<allSongs, plays, counting, records, readSaved>>

Next ==
    \/ \E s \in SongIds : LoadSong(s)
    \/ \E s \in SongIds, long \in BOOLEAN : Play(s, long)
    \/ CountPlay
    \/ \E s \in SongIds : FlushCount(s) \/ PublishRecord(s)
    \/ CommitCounts
    \/ CrashCounting
    \/ \E c \in Charts : Chart(c) \/ CommitChart(c) \/ CrashCharting(c)

Spec == Init /\ [][Next]_vars

\* The tasks go on processing and flushing; nobody has to play a song.
Fairness ==
    /\ WF_vars(CountPlay)
    /\ \A s \in SongIds : WF_vars(FlushCount(s)) /\ WF_vars(PublishRecord(s))
    /\ \A c \in Charts : WF_vars(Chart(c))

FairSpec == Spec /\ Fairness

-----------------------------------------------------------------------------
(* Properties *)

Entry == [song : SongIds, plays : Nat]

\* Every variable has its type, and a chart never shows a song twice or more
\* than Size songs, although records are replayed into newer stores and the map
\* that guards against it is rebuilt after every record (TopFiveSongs.add, lines
\* 542-553).
TypeOK ==
    /\ allSongs \subseteq SongIds
    /\ plays \in Seq([song : SongIds, long : BOOLEAN, known : BOOLEAN])
    /\ played \in 0..Len(plays) /\ playedSaved \in 0..played
    /\ {cache, counts, countsSaved} \subseteq [SongIds -> Nat]
    /\ outbox \in [SongIds -> Seq([op : {"add", "remove"}, entry : Entry])]
    /\ records \in [Charts -> Seq([op : {"add", "remove"}, entry : Entry])]
    /\ \A c \in Charts : read[c] \in 0..Len(records[c]) /\ readSaved[c] \in 0..read[c]
    /\ {chart, chartSaved} \subseteq [Charts -> SUBSET Entry]
    /\ \A c \in Charts :
          /\ Cardinality(chart[c]) <= Size
          /\ \A e, f \in chart[c] : e.song = f.song => e = f
    /\ crashes \in 0..MaxCrashes

Counted == {s \in SongIds : counts[s] > 0}
Played(s) == {i \in 1..Len(plays) : plays[i].song = s /\ plays[i].long /\ plays[i].known}

\* Nothing is left to do: all plays counted, all counts published and charted.
Settled ==
    /\ played = Len(plays)
    /\ cache = counts
    /\ \A s \in SongIds : outbox[s] = <<>>
    /\ \A c \in Charts : read[c] = Len(records[c])

OnTop(c) ==
    chart[c] = TopOf({SongPlayCount(s, counts[s]) : s \in {x \in Counted : c \in ChartsOf(x)}})

\* Line 64: the application "computes the latest Top 5 music charts".  When
\* nothing is left to do, every chart is the top of its songs' counts, whatever
\* was interleaved, lost in a crash and replayed before.
ChartsAreTop ==
    Settled => \A c \in Charts : OnTop(c)

\* A crash may count a play twice but never loses one: the offsets are
\* committed after the counts (streamsConfig, at-least-once).
NoPlayIsLost ==
    Settled => \A s \in SongIds : counts[s] >= Cardinality(Played(s))

\* The charts catch up with the plays, and stay the top of the counts:
\* "continuously computes" (line 64).
ChartsSettle == <>[](Settled /\ \A c \in Charts : OnTop(c))
=============================================================================
