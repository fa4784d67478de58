--------------------------- MODULE TopFiveSongs ---------------------------
(***************************************************************************)
(* kafka-streams, KafkaMusicExample.java: the aggregate TopFiveSongs and   *)
(* its serde, and the definition of the chart it stands for.               *)
(*                                                                         *)
(* An aggregate is a TreeSet of SongPlayCounts, ordered by plays and then  *)
(* by song id, and a map from the id of a song to its entry.  Only the     *)
(* TreeSet is serialized; the map is rebuilt from it.                      *)
(***************************************************************************)
EXTENDS Naturals, FiniteSets

CONSTANT Size  \* the length of a chart: 5

ASSUME SizeAssumption == Size \in Nat \ {0}

SongPlayCount(song, plays) == [song |-> song, plays |-> plays]

\* The comparator: more plays first, then the smaller id.
Before(e, f) ==
    \/ e.plays > f.plays
    \/ e.plays = f.plays /\ e.song < f.song

First(topFive) ==  \* mutant
    CHOOSE e \in topFive : \A f \in topFive \ {e} : Before(e, f)

Last(topFive) == CHOOSE e \in topFive : \A f \in topFive \ {e} : Before(f, e)

Songs(map) == DOMAIN map
Without(map, song) == [s \in Songs(map) \ {song} |-> map[s]]
With(map, e) == [s \in Songs(map) \cup {e.song} |-> IF s = e.song THEN e ELSE map[s]]

TrimmedLate(t) ==  \* mutant: one entry too many is let in
    IF Cardinality(t.topFive) > Size + 1 THEN [t EXCEPT !.topFive = @ \ {Last(@)}] ELSE t

\* TopFiveSongs.add: an older entry of the song is replaced, and the last
\* entry goes when there are too many.
Trimmed(t) ==
    IF Cardinality(t.topFive) > Size
    THEN LET last == Last(t.topFive)
         IN  [currentSongs |-> Without(t.currentSongs, last.song),
              topFive      |-> t.topFive \ {last}]
    ELSE t

Add(t, e) ==
    LET older == IF e.song \in Songs(t.currentSongs)
                 THEN {t.currentSongs[e.song]} ELSE {}
    IN  Trimmed([currentSongs |-> With(t.currentSongs, e),
                 topFive      |-> (t.topFive \ older) \cup {e}])

\* TopFiveSongs.remove: the map forgets the song, the TreeSet only an entry
\* with the very same number of plays.
RemoveSong(t, e) ==  \* mutant: whatever the number of plays
    [currentSongs |-> Without(t.currentSongs, e.song),
     topFive      |-> {f \in t.topFive : f.song # e.song}]

Remove(t, e) ==
    [currentSongs |-> Without(t.currentSongs, e.song),
     topFive      |-> t.topFive \ {e}]

\* The serializer writes the TreeSet; the deserializer adds the entries one by
\* one, in order, to a new aggregate: of two entries of a song the later one,
\* with fewer plays, stays.
Serialize(t) == t.topFive

Deserialize(bytes) ==
    LET kept == {e \in bytes : \A f \in bytes : f.song = e.song => e.plays <= f.plays}
    IN  [currentSongs |-> [s \in {e.song : e \in kept} |->
                              CHOOSE e \in kept : e.song = s],
         topFive      |-> kept]

\* The subtractor and the adder of the aggregation, from store to store.
Subtract(bytes, e)  == Serialize(Remove(Deserialize(bytes), e))
AddToStore(bytes, e) == Serialize(Add(Deserialize(bytes), e))

-----------------------------------------------------------------------------
\* The chart of some entries: those that fewer than Size others precede.
TopOf(entries) ==
    {e \in entries : Cardinality({f \in entries : Before(f, e)}) < Size}
=============================================================================
