------------------------- MODULE MusicChartsProofs -------------------------
(***************************************************************************)
(* Theorems about MusicCharts, for every finite set of songs, every set of *)
(* charts, every length of a chart and every number of plays and crashes:  *)
(* the type invariant with the bounds of a chart, that no play is lost,    *)
(* and that the charts are the top of the counts when nothing is left to   *)
(* do.                                                                     *)
(*                                                                         *)
(* The charts are right although a record may be lost in a crash, applied  *)
(* twice, and applied to a chart from which another song is missing.  The  *)
(* reason is in three parts: a song whose count is not on the way to the   *)
(* charts has a play that will be counted again (Busy); a song leaves a    *)
(* chart for good only when Size others have published more (Beaten); and  *)
(* what was published once is reached again (Reach).                       *)
(***************************************************************************)
EXTENDS MusicCharts, FiniteSetTheorems, TLAPS

\* A store of a chart: finite, not too long, one entry per song.
IsChart(b) ==
    /\ b \subseteq Entry /\ IsFiniteSet(b) /\ Cardinality(b) <= Size
    /\ \A e, f \in b : e.song = f.song => e = f

StoresOK ==
    /\ read \in [Charts -> Nat] /\ readSaved \in [Charts -> Nat]
    /\ chart \in [Charts -> SUBSET Entry] /\ chartSaved \in [Charts -> SUBSET Entry]
    /\ \A c \in Charts : IsChart(chart[c]) /\ IsChart(chartSaved[c])

\* Counts grow from the changelog to the store and to the cache.
CountsGrow ==
    \A s \in SongIds : countsSaved[s] <= counts[s] /\ counts[s] <= cache[s]

\* Of the plays q, those of s among the first n that no one may lose, ...
PlayedIn(q, s, n) == {i \in 1..n : q[i].song = s /\ q[i].long /\ q[i].known}

\* ... and those of s that are still to be counted, once n ones are processed
\* and the songs `loaded' are in the store.
AheadIn(q, loaded, s, n) ==
    {i \in (n + 1)..Len(q) : q[i].song = s /\ q[i].long /\ s \in loaded}

KnownIsLoaded ==
    \A i \in 1..Len(plays) : plays[i].known => plays[i].song \in allSongs

PlaysAreCounted ==
    \A s \in SongIds :
        /\ cache[s] >= Cardinality(PlayedIn(plays, s, played))
        /\ countsSaved[s] >= Cardinality(PlayedIn(plays, s, playedSaved))

\* What the count of s will reach, and what it would reach after a crash.
Ahead(s)      == AheadIn(plays, allSongs, s, played)
SavedAhead(s) == AheadIn(plays, allSongs, s, playedSaved)
Reach(s)      == cache[s] + Cardinality(Ahead(s))
SavedReach(s) == countsSaved[s] + Cardinality(SavedAhead(s))

ReachIsSaved == \A s \in SongIds : Reach(s) <= SavedReach(s)

AddOf(s, n) == [op |-> "add", entry |-> SongPlayCount(s, n)]
RemoveOf(s, n) == [op |-> "remove", entry |-> SongPlayCount(s, n)]

\* What is left of an update to n plays: the new count is to come, or not.
AddToCome(box, s, n) ==
    \/ box = <<AddOf(s, n)>>
    \/ \E old \in 0..n : /\ old < n
                         /\ box \in {<<RemoveOf(s, old), AddOf(s, n)>>,
                                     <<AddOf(s, n), RemoveOf(s, old)>>}
NoAddToCome(box, s, n) ==
    \/ box = <<>>
    \/ \E old \in 0..n : old < n /\ box = <<RemoveOf(s, old)>>

OutboxOK ==
    \A s \in SongIds :
        \/ NoAddToCome(outbox[s], s, counts[s])
        \/ AddToCome(outbox[s], s, counts[s]) /\ counts[s] > 0

\* Of the records q of a chart: an added entry is among them, ...
PublishedIn(q, e) == \E i \in 1..Len(q) : q[i].op = "add" /\ q[i].entry = e

\* ... the i-th one adds an entry that no later one disturbs, ...
Stands(q, i) ==
    /\ q[i].op = "add"
    /\ \A j \in (i + 1)..Len(q) :
          q[j].entry.song = q[i].entry.song
             => q[j].op = "remove" /\ q[j].entry # q[i].entry
CurrentIn(q, e) == \E i \in 1..Len(q) : Stands(q, i) /\ q[i].entry = e

\* ... and the songs other than e's that have published a count before e.
Beaters(q, e) ==
    {b \in SongIds \ {e.song} :
        \E i \in 1..Len(q) : q[i].op = "add" /\ q[i].entry.song = b /\ Before(q[i].entry, e)}
Beaten(q, e) == Cardinality(Beaters(q, e)) >= Size

PublishedOK ==
    \A c \in Charts, s \in SongIds : \A i \in 1..Len(records[c]) :
        records[c][i].entry.song = s =>
            /\ c \in ChartsOf(s)
            /\ records[c][i].op = "add" => /\ records[c][i].entry.plays > 0
                                           /\ records[c][i].entry.plays <= Reach(s)

EntriesArePublished ==
    \A c \in Charts : \A e \in chart[c] \cup chartSaved[c] : PublishedIn(records[c], e)

InEveryChart(rs, s, n) == \A c \in ChartsOf(s) : CurrentIn(rs[c], SongPlayCount(s, n))

\* A song without plays to be counted again after a crash is as it was saved.
SavedIsShown ==
    \A s \in SongIds :
        \/ SavedAhead(s) # {}
        \/ /\ outbox[s] = <<>>
           /\ cache[s] = counts[s] /\ counts[s] = countsSaved[s]
           /\ counts[s] > 0 => InEveryChart(records, s, counts[s])

\* There is something to do for s now.
Busy(s) ==
    \/ Ahead(s) # {}
    \/ cache[s] # counts[s]
    \/ AddToCome(outbox[s], s, counts[s])

IdleIsShown ==
    \A s \in SongIds : counts[s] > 0 => Busy(s) \/ InEveryChart(records, s, counts[s])

\* What was read and still stands is in the chart, or Size others have beaten it.
Shows(q, n, store) ==
    \A i \in 1..n : Stands(q, i) => q[i].entry \in store \/ Beaten(q, q[i].entry)

StandingIsShown ==
    \A c \in Charts : /\ Shows(records[c], read[c], chart[c])
                      /\ Shows(records[c], readSaved[c], chartSaved[c])

CountInv == KnownIsLoaded /\ CountsGrow /\ PlaysAreCounted
ChartInv ==
    /\ ReachIsSaved /\ OutboxOK /\ PublishedOK /\ EntriesArePublished
    /\ SavedIsShown /\ IdleIsShown /\ StandingIsShown
IInv == TypeOK /\ StoresOK /\ CountInv /\ ChartInv

-----------------------------------------------------------------------------
(* The order of entries *)

LEMMA SizeFact == Size \in Nat /\ Size > 0
BY SizeAssumption

LEMMA SongFact == SongIds \subseteq Nat /\ IsFiniteSet(SongIds)
BY ConstantsAssumption

LEMMA BoundFact == MaxPlays \in Nat /\ MaxCrashes \in Nat
BY ConstantsAssumption

LEMMA EntryFact ==
    /\ \A e \in Entry : e.song \in SongIds /\ e.song \in Nat /\ e.plays \in Nat
    /\ \A e \in Entry : e = SongPlayCount(e.song, e.plays)
    /\ \A s \in SongIds, n \in Nat :
          /\ SongPlayCount(s, n) \in Entry
          /\ SongPlayCount(s, n).song = s /\ SongPlayCount(s, n).plays = n
<1>1. \A e \in Entry : e.song \in SongIds /\ e.song \in Nat /\ e.plays \in Nat
  BY SongFact DEF Entry
<1>2. \A e \in Entry : e = SongPlayCount(e.song, e.plays)
  BY DEF Entry, SongPlayCount
<1>3. ASSUME NEW s \in SongIds, NEW n \in Nat
      PROVE  /\ SongPlayCount(s, n) \in Entry
             /\ SongPlayCount(s, n).song = s /\ SongPlayCount(s, n).plays = n
  BY DEF Entry, SongPlayCount
<1> QED BY <1>1, <1>2, <1>3

\* The comparator (lines 524-535) is a strict total order.
LEMMA BeforeIsOrder ==
    /\ \A e \in Entry : ~Before(e, e)
    /\ \A e, f \in Entry : e # f => Before(e, f) \/ Before(f, e)
    /\ \A e, f, g \in Entry : Before(e, f) /\ Before(f, g) => Before(e, g)
<1>1. \A e \in Entry : ~Before(e, e)
  BY EntryFact DEF Before
<1>2. ASSUME NEW e \in Entry, NEW f \in Entry, e # f
      PROVE  Before(e, f) \/ Before(f, e)
  BY <1>2, EntryFact DEF Before
<1>3. ASSUME NEW e \in Entry, NEW f \in Entry, NEW g \in Entry, Before(e, f), Before(f, g)
      PROVE  Before(e, g)
  BY <1>3, EntryFact DEF Before
<1> QED BY <1>1, <1>2, <1>3

\* Among the successors of each element of a finite set, given by a transitive
\* and irreflexive relation, some are empty.
LEMMA SomeHasNone ==
    ASSUME NEW t, IsFiniteSet(t), t # {}, NEW F, F \in [t -> SUBSET t],
           \A e \in t : \A f \in F[e] : F[f] \subseteq F[e] /\ f \notin F[f]
    PROVE  \E e \in t : F[e] = {}
<1> DEFINE T == {F[e] : e \in t}
           R == StrictSubsetOrdering(t)
<1>1. T \subseteq SUBSET t /\ T # {}
  OBVIOUS
<1>2. IsWellFoundedOn(R, SUBSET t)
  BY FS_StrictSubsetOrderingWellFounded, FS_FiniteSubsetsOfFinite
<1>3. PICK x \in T : \A y \in T : ~(<<y, x>> \in R)
  <2> HIDE DEF T, R
  <2> QED BY <1>1, <1>2, WFMin
<1>4. PICK e \in t : x = F[e]
  OBVIOUS
<1>5. F[e] = {}
  <2> SUFFICES ASSUME NEW f \in F[e] PROVE FALSE
    OBVIOUS
  <2>1. F[f] \in T /\ F[f] \subseteq F[e] /\ F[f] # F[e]
    OBVIOUS
  <2>2. <<F[f], F[e]>> \in R
    BY <2>1, <1>1 DEF StrictSubsetOrdering
  <2> QED BY <2>1, <2>2, <1>3, <1>4
<1> QED BY <1>5

\* TreeSet.last() is in the set and comes after all the others.
LEMMA LastIsLast ==
    ASSUME NEW t \in SUBSET Entry, IsFiniteSet(t), t # {}
    PROVE  Last(t) \in t /\ \A f \in t \ {Last(t)} : Before(f, Last(t))
<1> DEFINE F == [e \in t |-> {f \in t : Before(e, f)}]
<1>1. F \in [t -> SUBSET t]
  OBVIOUS
<1>2. ASSUME NEW e \in t, NEW f \in F[e]
      PROVE  F[f] \subseteq F[e] /\ f \notin F[f]
  BY BeforeIsOrder
<1>3. PICK e \in t : F[e] = {}
  <2> HIDE DEF F
  <2> QED BY <1>1, <1>2, SomeHasNone
<1>4. \A f \in t \ {e} : Before(f, e)
  BY <1>3, BeforeIsOrder
<1> QED BY <1>4 DEF Last

\* A nonempty finite set of entries has a first one.
LEMMA SomeIsFirst ==
    ASSUME NEW t \in SUBSET Entry, IsFiniteSet(t), t # {}
    PROVE  \E e \in t : \A f \in t : ~Before(f, e)
<1> DEFINE F == [e \in t |-> {f \in t : Before(f, e)}]
<1>1. F \in [t -> SUBSET t]
  OBVIOUS
<1>2. ASSUME NEW e \in t, NEW f \in F[e]
      PROVE  F[f] \subseteq F[e] /\ f \notin F[f]
  BY BeforeIsOrder
<1>3. PICK e \in t : F[e] = {}
  <2> HIDE DEF F
  <2> QED BY <1>1, <1>2, SomeHasNone
<1> QED BY <1>3

-----------------------------------------------------------------------------
(* The aggregate TopFiveSongs *)

\* Of a store with one entry per song the serde restores everything.
LEMMA DeserializeIsExact ==
    ASSUME NEW b, IsChart(b)
    PROVE  /\ Deserialize(b).topFive = b
           /\ DOMAIN Deserialize(b).currentSongs = {e.song : e \in b}
           /\ \A e \in b : Deserialize(b).currentSongs[e.song] = e
<1> DEFINE kept == {e \in b : \A f \in b : f.song = e.song => e.plays <= f.plays}
<1>1. kept = b
  BY EntryFact DEF IsChart
<1>2. \A e \in b : (CHOOSE f \in b : f.song = e.song) = e
  BY DEF IsChart
<1> QED BY <1>1, <1>2 DEF Deserialize

\* The subtractor removes an entry with the very same number of plays.
LEMMA SubtractResult ==
    ASSUME NEW b, IsChart(b), NEW e \in Entry
    PROVE  Subtract(b, e) = b \ {e} /\ IsChart(Subtract(b, e))
<1>1. Subtract(b, e) = b \ {e}
  BY DeserializeIsExact DEF Subtract, Serialize, Remove
<1>2. IsFiniteSet(b \ {e}) /\ Cardinality(b \ {e}) <= Size
  <2> DEFINE r == b \ {e}
  <2>1. r \in SUBSET b /\ IsFiniteSet(b) /\ Cardinality(b) <= Size
    BY DEF IsChart
  <2> HIDE DEF r
  <2>2. IsFiniteSet(r) /\ Cardinality(r) <= Cardinality(b)
    BY <2>1, FS_Subset
  <2>3. Cardinality(r) \in Nat /\ Cardinality(b) \in Nat
    BY <2>1, <2>2, FS_CardinalityType
  <2>4. IsFiniteSet(r) /\ Cardinality(r) <= Size
    BY <2>1, <2>2, <2>3, SizeFact
  <2> QED BY <2>4 DEF r
<1> QED BY <1>1, <1>2 DEF IsChart

\* The adder replaces the entry of the song and lets the last entry go if
\* there are too many.
LEMMA AddResult ==
    ASSUME NEW b, IsChart(b), NEW e \in Entry
    PROVE  LET t == {f \in b : f.song # e.song} \cup {e}
               r == AddToStore(b, e)
           IN  /\ IsChart(r)
               /\ r = t \/ (\E last \in t : /\ r = t \ {last}
                                            /\ Cardinality(r) = Size
                                            /\ \A f \in r : Before(f, last))
<1> DEFINE d == Deserialize(b)
           older == IF e.song \in Songs(d.currentSongs)
                    THEN {d.currentSongs[e.song]} ELSE {}
           t == {f \in b : f.song # e.song} \cup {e}
           n == [currentSongs |-> With(d.currentSongs, e),
                 topFive      |-> (d.topFive \ older) \cup {e}]
           r == AddToStore(b, e)
<1>1. d.topFive = b /\ Songs(d.currentSongs) = {f.song : f \in b}
      /\ \A f \in b : d.currentSongs[f.song] = f
  BY DeserializeIsExact DEF Songs
<1>2. d.topFive \ older = {f \in b : f.song # e.song}
  <2> HIDE DEF d
  <2>1. CASE e.song \in Songs(d.currentSongs)
    <3>1. PICK g \in b : g.song = e.song
      BY <2>1, <1>1
    <3>2. older = {g}
      BY <2>1, <3>1, <1>1
    <3> QED BY <3>1, <3>2, <1>1 DEF IsChart
  <2>2. CASE e.song \notin Songs(d.currentSongs)
    BY <2>2, <1>1
  <2> QED BY <2>1, <2>2
<1>3. n.topFive = t
  BY <1>2
<1>4. r = IF Cardinality(t) > Size THEN t \ {Last(t)} ELSE t
  <2>1. r = Trimmed(n).topFive
    BY DEF AddToStore, Serialize, Add
  <2> HIDE DEF n
  <2> QED BY <1>3, <2>1 DEF Trimmed
<1>5. /\ t \in SUBSET Entry /\ t # {} /\ IsFiniteSet(t)
      /\ \A f, g \in t : f.song = g.song => f = g
      /\ Cardinality(t) \in Nat /\ Cardinality(t) <= Size + 1
  <2>1. {f \in b : f.song # e.song} \in SUBSET b
    OBVIOUS
  <2>2. IsFiniteSet({f \in b : f.song # e.song})
        /\ Cardinality({f \in b : f.song # e.song}) <= Cardinality(b)
    BY <2>1, FS_Subset DEF IsChart
  <2>3. IsFiniteSet(t) /\ Cardinality(t) <= Cardinality({f \in b : f.song # e.song}) + 1
    <3> DEFINE q == {f \in b : f.song # e.song}
    <3> HIDE DEF q
    <3>1. IsFiniteSet(q)
      BY <2>2 DEF q
    <3>2. /\ IsFiniteSet(q \cup {e}) /\ Cardinality(q) \in Nat
          /\ Cardinality(q \cup {e}) = IF e \in q THEN Cardinality(q) ELSE Cardinality(q) + 1
      BY <3>1, FS_AddElement, FS_CardinalityType
    <3>3. IsFiniteSet(q \cup {e}) /\ Cardinality(q \cup {e}) <= Cardinality(q) + 1
      BY <3>2
    <3> QED BY <3>3 DEF q
  <2>4. Cardinality(t) \in Nat /\ Cardinality(b) \in Nat
        /\ Cardinality({f \in b : f.song # e.song}) \in Nat
    BY <2>2, <2>3, FS_CardinalityType DEF IsChart
  <2>5. Cardinality(t) <= Size + 1
    <3> HIDE DEF t
    <3> QED BY <2>2, <2>3, <2>4, SizeFact DEF IsChart
  <2> QED BY <2>3, <2>4, <2>5 DEF IsChart
<1>6. CASE Cardinality(t) > Size
  <2> DEFINE last == Last(t)
  <2>1. r = t \ {last}
    BY <1>4, <1>6
  <2>2. last \in t /\ \A f \in t \ {last} : Before(f, last)
    <3> HIDE DEF t
    <3> QED BY <1>5, LastIsLast
  <2> HIDE DEF t, last, r
  <2>3. IsFiniteSet(r) /\ Cardinality(r) = Cardinality(t) - 1
    BY <2>1, <2>2, <1>5, FS_RemoveElement
  <2>4. Cardinality(r) = Size
    BY <2>3, <1>5, <1>6, SizeFact
  <2>5. IsChart(r)
    BY <2>1, <2>3, <2>4, <1>5, SizeFact DEF IsChart
  <2> QED BY <2>1, <2>2, <2>4, <2>5 DEF t, r
<1>7. CASE ~(Cardinality(t) > Size)
  <2>1. r = t
    BY <1>4, <1>7
  <2> HIDE DEF t, r
  <2>2. IsChart(r)
    BY <2>1, <1>5, <1>7, SizeFact DEF IsChart
  <2> QED BY <2>1, <2>2 DEF t, r
<1> QED BY <1>6, <1>7

-----------------------------------------------------------------------------
(* Type correctness *)

LEMMA SeqFact ==
    ASSUME NEW S, NEW q \in Seq(S)
    PROVE  /\ \A i \in 1..Len(q) : q[i] \in S
           /\ q # <<>> => Head(q) \in S /\ Tail(q) \in Seq(S)
OBVIOUS

Event  == [song : SongIds, long : BOOLEAN, known : BOOLEAN]
Record == [op : {"add", "remove"}, entry : Entry]

LEMMA PlayEventType ==
    ASSUME NEW s \in SongIds, NEW long \in BOOLEAN
    PROVE  PlayEvent(s, long) \in Event
BY DEF PlayEvent, Event

LEMMA InitType == Init => TypeOK /\ StoresOK
<1> SUFFICES ASSUME Init PROVE TypeOK /\ StoresOK
  OBVIOUS
<1>1. plays \in Seq(Event) /\ allSongs \subseteq SongIds
  <2>1. PICK first \in FirstPlays :
           plays = [i \in 1..Len(first) |-> PlayEvent(first[i], TRUE)]
    BY DEF Init
  <2>2. first \in Seq(SongIds)
    BY ConstantsAssumption
  <2>3. \A i \in 1..Len(first) : PlayEvent(first[i], TRUE) \in Event
    <3> SUFFICES ASSUME NEW i \in 1..Len(first) PROVE PlayEvent(first[i], TRUE) \in Event
      OBVIOUS
    <3>1. first[i] \in SongIds
      BY <2>2, SeqFact
    <3> QED BY <3>1, PlayEventType
  <2>4. plays \in [1..Len(first) -> Event]
    BY <2>1, <2>3, Zenon
  <2>5. plays \in Seq(Event)
    BY <2>2, <2>4
  <2>6. allSongs \subseteq SongIds
    BY ConstantsAssumption DEF Init
  <2> QED BY <2>5, <2>6
<1>2. played \in 0..Len(plays) /\ playedSaved \in 0..played
  BY <1>1 DEF Init
<1>3. {cache, counts, countsSaved} \subseteq [SongIds -> Nat]
  BY DEF Init, Zero
<1>4. outbox \in [SongIds -> Seq(Record)] /\ records \in [Charts -> Seq(Record)]
  BY DEF Init
<1>5. /\ read \in [Charts -> Nat] /\ readSaved \in [Charts -> Nat]
      /\ \A c \in Charts : read[c] \in 0..Len(records[c]) /\ readSaved[c] \in 0..read[c]
  BY DEF Init
<1>6. /\ chart \in [Charts -> SUBSET Entry] /\ chartSaved \in [Charts -> SUBSET Entry]
      /\ \A c \in Charts : IsChart(chart[c]) /\ IsChart(chartSaved[c])
  BY FS_EmptySet, SizeFact DEF Init, IsChart
<1>7. crashes \in 0..MaxCrashes
  BY ConstantsAssumption DEF Init
<1> QED
  BY <1>1, <1>2, <1>3, <1>4, <1>5, <1>6, <1>7 DEF TypeOK, StoresOK, IsChart, Event, Record

\* The parts of TypeOK /\ StoresOK that several steps use.
CountTypes ==
    /\ allSongs \subseteq SongIds /\ plays \in Seq(Event)
    /\ played \in 0..Len(plays) /\ playedSaved \in 0..played
    /\ cache \in [SongIds -> Nat] /\ counts \in [SongIds -> Nat]
    /\ countsSaved \in [SongIds -> Nat]
    /\ crashes \in 0..MaxCrashes
RecordTypes ==
    /\ outbox \in [SongIds -> Seq(Record)] /\ records \in [Charts -> Seq(Record)]
    /\ \A c \in Charts : read[c] \in 0..Len(records[c]) /\ readSaved[c] \in 0..read[c]

LEMMA TypesInParts == TypeOK /\ StoresOK <=> CountTypes /\ RecordTypes /\ StoresOK
BY DEF TypeOK, CountTypes, RecordTypes, StoresOK, IsChart, Event, Record

\* The type invariant with the bounds of the stores is inductive.
LEMMA NextType == TypeOK /\ StoresOK /\ [Next]_vars => TypeOK' /\ StoresOK'
<1> SUFFICES ASSUME CountTypes, RecordTypes, StoresOK, [Next]_vars
             PROVE  CountTypes' /\ RecordTypes' /\ StoresOK'
  <2>1. (TypeOK /\ StoresOK)' <=> (CountTypes /\ RecordTypes /\ StoresOK)'
    BY DEF TypeOK, CountTypes, RecordTypes, StoresOK, IsChart, Event, Record
  <2> QED BY <2>1, TypesInParts
<1> USE DEF counting, charting
<1>1. ASSUME NEW s \in SongIds, LoadSong(s)
      PROVE  CountTypes' /\ RecordTypes' /\ StoresOK'
  BY <1>1 DEF LoadSong, CountTypes, RecordTypes, StoresOK
<1>2. ASSUME NEW s \in SongIds, NEW long \in BOOLEAN, Play(s, long)
      PROVE  CountTypes' /\ RecordTypes' /\ StoresOK'
  <2>1. plays' \in Seq(Event) /\ Len(plays') = Len(plays) + 1
    BY <1>2, PlayEventType DEF Play, CountTypes
  <2> QED BY <1>2, <2>1 DEF Play, CountTypes, RecordTypes, StoresOK
<1>3. ASSUME CountPlay PROVE CountTypes' /\ RecordTypes' /\ StoresOK'
  <2>1. plays[played + 1].song \in SongIds /\ played' = played + 1 /\ played' \in 0..Len(plays)
    <3>1. played < Len(plays) /\ played' = played + 1 /\ played \in Nat /\ Len(plays) \in Nat
      BY <1>3 DEF CountPlay, CountTypes
    <3>2. played + 1 \in 1..Len(plays)
      BY <3>1
    <3>3. plays[played + 1] \in Event
      BY <3>2, SeqFact DEF CountTypes
    <3> QED BY <3>1, <3>3 DEF Event
  <2>2. cache' \in [SongIds -> Nat]
    <3> DEFINE p == plays[played + 1]
    <3>1. cache' = cache \/ cache' = [cache EXCEPT ![p.song] = @ + 1]
      BY <1>3 DEF CountPlay
    <3> HIDE DEF p
    <3>2. p.song \in SongIds /\ cache \in [SongIds -> Nat]
      BY <2>1 DEF p, CountTypes
    <3> QED BY <3>1, <3>2
  <2> QED BY <1>3, <2>1, <2>2 DEF CountPlay, CountTypes, RecordTypes, StoresOK
<1>4. ASSUME NEW s \in SongIds, FlushCount(s)
      PROVE  CountTypes' /\ RecordTypes' /\ StoresOK'
  <2>1. counts' \in [SongIds -> Nat]
    BY <1>4 DEF FlushCount, CountTypes
  <2>2. AddOf(s, cache[s]) \in Record /\ RemoveOf(s, counts[s]) \in Record
    BY EntryFact DEF AddOf, RemoveOf, Record, CountTypes
  <2>3. outbox' \in [SongIds -> Seq(Record)]
    BY <1>4, <2>2 DEF FlushCount, RecordTypes, AddOf, RemoveOf
  <2> QED BY <1>4, <2>1, <2>3 DEF FlushCount, CountTypes, RecordTypes, StoresOK
<1>5. ASSUME NEW s \in SongIds, PublishRecord(s)
      PROVE  CountTypes' /\ RecordTypes' /\ StoresOK'
  <2>1. Head(outbox[s]) \in Record /\ Tail(outbox[s]) \in Seq(Record)
    BY <1>5, SeqFact DEF PublishRecord, RecordTypes
  <2>2. outbox' \in [SongIds -> Seq(Record)]
    BY <1>5, <2>1 DEF PublishRecord, RecordTypes
  <2>3. records' \in [Charts -> Seq(Record)]
        /\ \A c \in Charts : Len(records'[c]) >= Len(records[c])
    BY <1>5, <2>1 DEF PublishRecord, RecordTypes
  <2>4. UNCHANGED <<read, readSaved>> /\ \A c \in Charts : Len(records'[c]) \in Nat
    BY <1>5, <2>3 DEF PublishRecord
  <2>5. \A c \in Charts : read'[c] \in 0..Len(records'[c]) /\ readSaved'[c] \in 0..read'[c]
    BY <2>3, <2>4 DEF RecordTypes
  <2> QED BY <1>5, <2>2, <2>3, <2>5 DEF PublishRecord, CountTypes, RecordTypes, StoresOK
<1>6. ASSUME CommitCounts PROVE CountTypes' /\ RecordTypes' /\ StoresOK'
  BY <1>6 DEF CommitCounts, CountTypes, RecordTypes, StoresOK
<1>7. ASSUME CrashCounting PROVE CountTypes' /\ RecordTypes' /\ StoresOK'
  <2>1. counts' \in [SongIds -> Nat]
    BY <1>7 DEF CrashCounting, CountTypes
  <2> QED BY <1>7, <2>1, BoundFact DEF CrashCounting, CountTypes, RecordTypes, StoresOK
<1>8. ASSUME NEW c \in Charts, Chart(c)
      PROVE  CountTypes' /\ RecordTypes' /\ StoresOK'
  <2> DEFINE r == records[c][read[c] + 1]
  <2>1. r \in Record /\ r.entry \in Entry
    <3>1. read[c] \in Nat /\ Len(records[c]) \in Nat /\ read[c] < Len(records[c])
      BY <1>8 DEF Chart, RecordTypes
    <3>2. read[c] + 1 \in 1..Len(records[c])
      BY <3>1
    <3>3. r \in Record
      BY <3>2, SeqFact DEF RecordTypes
    <3> QED BY <3>3 DEF Record
  <2>2. IsChart(Subtract(chart[c], r.entry)) /\ IsChart(AddToStore(chart[c], r.entry))
    BY <2>1, SubtractResult, AddResult DEF StoresOK
  <2> DEFINE b == IF r.op = "remove" THEN Subtract(chart[c], r.entry)
                                     ELSE AddToStore(chart[c], r.entry)
  <2>3. chart' = [chart EXCEPT ![c] = b] /\ IsChart(b)
    BY <1>8, <2>2 DEF Chart
  <2> HIDE DEF b, r
  <2>4. StoresOK'
    BY <1>8, <2>3 DEF Chart, StoresOK, IsChart
  <2>5. RecordTypes'
    BY <1>8 DEF Chart, RecordTypes, StoresOK
  <2> QED BY <1>8, <2>4, <2>5 DEF Chart, CountTypes
<1>9. ASSUME NEW c \in Charts, CommitChart(c)
      PROVE  CountTypes' /\ RecordTypes' /\ StoresOK'
  BY <1>9 DEF CommitChart, CountTypes, RecordTypes, StoresOK
<1>10. ASSUME NEW c \in Charts, CrashCharting(c)
       PROVE  CountTypes' /\ RecordTypes' /\ StoresOK'
  <2>1. PICK b \in {chart[c], chartSaved[c]} :
           /\ chart' = [chart EXCEPT ![c] = b]
           /\ chartSaved' = [chartSaved EXCEPT ![c] = b]
    BY <1>10 DEF CrashCharting
  <2>2. IsChart(b)
    BY DEF StoresOK
  <2>3. StoresOK'
    BY <1>10, <2>1, <2>2 DEF CrashCharting, StoresOK, IsChart
  <2>4. RecordTypes'
    BY <1>10 DEF CrashCharting, RecordTypes, StoresOK
  <2> QED BY <1>10, <2>3, <2>4, BoundFact DEF CrashCharting, CountTypes
<1>11. CASE UNCHANGED vars
  BY <1>11 DEF vars, CountTypes, RecordTypes, StoresOK
<1> QED
  BY <1>1, <1>2, <1>3, <1>4, <1>5, <1>6, <1>7, <1>8, <1>9, <1>10, <1>11 DEF Next

-----------------------------------------------------------------------------
(* No play is lost *)

LEMMA PlayedFact ==
    ASSUME NEW q \in Seq(Event), NEW s \in SongIds, NEW n \in 0..Len(q)
    PROVE  /\ IsFiniteSet(PlayedIn(q, s, n))
           /\ Cardinality(PlayedIn(q, s, n)) \in Nat
           /\ n = 0 => Cardinality(PlayedIn(q, s, n)) = 0
<1>1. PlayedIn(q, s, n) \in SUBSET (1..n) /\ IsFiniteSet(1..n)
  BY FS_Interval DEF PlayedIn
<1>2. IsFiniteSet(PlayedIn(q, s, n))
  BY <1>1, FS_Subset
<1>3. n = 0 => PlayedIn(q, s, n) = {}
  BY <1>1
<1> QED BY <1>2, <1>3, FS_CardinalityType, FS_EmptySet

\* One more play.
LEMMA PlayedOneMore ==
    ASSUME NEW q \in Seq(Event), NEW s \in SongIds, NEW n \in Nat, n < Len(q)
    PROVE  /\ Cardinality(PlayedIn(q, s, n + 1)) <= Cardinality(PlayedIn(q, s, n)) + 1
           /\ ~(q[n + 1].song = s /\ q[n + 1].long /\ q[n + 1].known)
                 => Cardinality(PlayedIn(q, s, n + 1)) = Cardinality(PlayedIn(q, s, n))
<1> DEFINE P == PlayedIn(q, s, n)
           R == PlayedIn(q, s, n + 1)
<1>1. n \in 0..Len(q) /\ 1..(n + 1) = (1..n) \cup {n + 1}
  OBVIOUS
<1>2. /\ q[n + 1].song = s /\ q[n + 1].long /\ q[n + 1].known => R = P \cup {n + 1}
      /\ ~(q[n + 1].song = s /\ q[n + 1].long /\ q[n + 1].known) => R = P
  BY <1>1 DEF PlayedIn
<1>3. IsFiniteSet(P) /\ Cardinality(P) \in Nat
  BY <1>1, PlayedFact
<1> HIDE DEF P, R
<1>4. Cardinality(P \cup {n + 1}) = IF n + 1 \in P THEN Cardinality(P) ELSE Cardinality(P) + 1
  BY <1>3, FS_AddElement
<1>5. Cardinality(P \cup {n + 1}) <= Cardinality(P) + 1
  BY <1>3, <1>4
<1>6. R = P \/ R = P \cup {n + 1}
  BY <1>2
<1>7. Cardinality(R) <= Cardinality(P) + 1
  <2>1. CASE R = P
    BY <1>3, <2>1
  <2>2. CASE R = P \cup {n + 1}
    BY <1>5, <2>2
  <2> QED BY <1>6, <2>1, <2>2
<1>8. ~(q[n + 1].song = s /\ q[n + 1].long /\ q[n + 1].known)
         => Cardinality(R) = Cardinality(P)
  BY <1>2
<1> QED BY <1>7, <1>8 DEF P, R

LEMMA PlayedAppend ==
    ASSUME NEW q \in Seq(Event), NEW p \in Event, NEW s \in SongIds, NEW n \in 0..Len(q)
    PROVE  PlayedIn(Append(q, p), s, n) = PlayedIn(q, s, n)
<1>1. \A i \in 1..n : Append(q, p)[i] = q[i]
  OBVIOUS
<1> QED BY <1>1 DEF PlayedIn

LEMMA InitCount == Init => CountInv
<1> SUFFICES ASSUME Init PROVE CountInv
  OBVIOUS
<1>1. CountTypes
  BY InitType, TypesInParts
<1>2. KnownIsLoaded
  <2>1. PICK first \in FirstPlays :
           plays = [i \in 1..Len(first) |-> PlayEvent(first[i], TRUE)]
    BY DEF Init
  <2>2. first \in Seq(SongIds)
    BY ConstantsAssumption
  <2> SUFFICES ASSUME NEW i \in 1..Len(plays), plays[i].known PROVE plays[i].song \in allSongs
    BY DEF KnownIsLoaded
  <2>3. Len(plays) = Len(first) /\ i \in 1..Len(first)
    BY <2>1, <2>2
  <2>4. plays[i] = PlayEvent(first[i], TRUE)
    BY <2>1, <2>3
  <2>5. PlayEvent(first[i], TRUE).known => PlayEvent(first[i], TRUE).song \in allSongs
    BY DEF PlayEvent
  <2> QED BY <2>4, <2>5
<1>3. CountsGrow
  BY DEF CountsGrow, Init, Zero
<1>4. PlaysAreCounted
  <2>1. plays \in Seq(Event) /\ 0 \in 0..Len(plays)
    BY <1>1 DEF CountTypes
  <2>2. \A s \in SongIds : Cardinality(PlayedIn(plays, s, 0)) = 0
    BY <2>1, PlayedFact
  <2>3. \A s \in SongIds : cache[s] = 0 /\ countsSaved[s] = 0
    BY DEF Init, Zero
  <2>4. played = 0 /\ playedSaved = 0
    BY DEF Init
  <2> QED BY <2>2, <2>3, <2>4 DEF PlaysAreCounted
<1> QED BY <1>2, <1>3, <1>4 DEF CountInv

\* Counts are never behind the plays that were processed, nor the counts saved
\* behind those that were committed.
LEMMA NextCount == CountTypes /\ CountInv /\ [Next]_vars => CountInv'
<1> SUFFICES ASSUME CountTypes, CountInv, [Next]_vars PROVE CountInv'
  OBVIOUS
<1> USE DEF counting, charting
<1>0. KnownIsLoaded /\ CountsGrow /\ PlaysAreCounted
  BY DEF CountInv
<1>1. ASSUME NEW s \in SongIds, LoadSong(s) PROVE CountInv'
  BY <1>0, <1>1 DEF LoadSong, CountInv, KnownIsLoaded, CountsGrow, PlaysAreCounted
<1>2. ASSUME NEW s \in SongIds, NEW long \in BOOLEAN, Play(s, long) PROVE CountInv'
  <2> DEFINE p == PlayEvent(s, long)
  <2>1. plays' = Append(plays, p) /\ p \in Event
    BY <1>2, PlayEventType DEF Play
  <2>2. p.known => p.song \in allSongs
    BY DEF PlayEvent
  <2> HIDE DEF p
  <2>3. UNCHANGED <<allSongs, played, playedSaved, cache, counts, countsSaved>>
    BY <1>2 DEF Play
  <2>4. Len(plays') = Len(plays) + 1 /\ plays'[Len(plays) + 1] = p
        /\ \A i \in 1..Len(plays) : plays'[i] = plays[i]
    BY <2>1 DEF CountTypes
  <2>5. KnownIsLoaded'
    <3> SUFFICES ASSUME NEW i \in 1..Len(plays'), plays'[i].known
                 PROVE  plays'[i].song \in allSongs
      BY <2>3 DEF KnownIsLoaded
    <3>1. i \in 1..Len(plays) \/ i = Len(plays) + 1
      BY <2>4 DEF CountTypes
    <3> QED BY <1>0, <2>2, <2>4, <3>1 DEF KnownIsLoaded
  <2>6. played \in 0..Len(plays) /\ playedSaved \in 0..Len(plays)
    BY DEF CountTypes
  <2>7. \A t \in SongIds : /\ PlayedIn(plays', t, played) = PlayedIn(plays, t, played)
                           /\ PlayedIn(plays', t, playedSaved) = PlayedIn(plays, t, playedSaved)
    BY <2>1, <2>6, PlayedAppend DEF CountTypes
  <2>8. CountsGrow' /\ PlaysAreCounted'
    BY <1>0, <2>3, <2>7 DEF CountsGrow, PlaysAreCounted
  <2> QED BY <2>5, <2>8 DEF CountInv
<1>3. ASSUME CountPlay PROVE CountInv'
  <2> DEFINE p == plays[played + 1]
  <2>1. played \in Nat /\ played < Len(plays) /\ played + 1 \in 1..Len(plays)
    BY <1>3 DEF CountPlay, CountTypes
  <2>2. p \in Event /\ (p.known => p.song \in allSongs)
    BY <1>0, <2>1, SeqFact DEF CountTypes, KnownIsLoaded
  <2>3. /\ played' = played + 1
        /\ cache' = IF Chartable(p) THEN [cache EXCEPT ![p.song] = @ + 1] ELSE cache
        /\ UNCHANGED <<allSongs, plays, playedSaved, counts, countsSaved>>
    BY <1>3 DEF CountPlay
  <2>4. Chartable(p) <=> p.long /\ p.song \in allSongs
    BY DEF Chartable
  <2>5. \A t \in SongIds :
           /\ Cardinality(PlayedIn(plays, t, played)) \in Nat
           /\ Cardinality(PlayedIn(plays, t, played + 1))
                 <= Cardinality(PlayedIn(plays, t, played)) + 1
           /\ ~(p.song = t /\ p.long /\ p.known)
                 => Cardinality(PlayedIn(plays, t, played + 1))
                       = Cardinality(PlayedIn(plays, t, played))
    BY <2>1, PlayedFact, PlayedOneMore DEF CountTypes
  <2>6. \A t \in SongIds : Cardinality(PlayedIn(plays, t, played + 1)) \in Nat
    BY <2>1, PlayedFact DEF CountTypes
  <2> HIDE DEF p
  <2>7. p.song \in SongIds
    BY <2>2 DEF Event
  <2>8. \A t \in SongIds : /\ cache'[t] >= cache[t]
                           /\ p.song = t /\ Chartable(p) => cache'[t] = cache[t] + 1
    BY <2>3, <2>7 DEF CountTypes
  <2>9. \A t \in SongIds : cache[t] \in Nat /\ cache'[t] \in Nat /\ counts[t] \in Nat
    BY <2>3, <2>7 DEF CountTypes
  <2>10. ASSUME NEW t \in SongIds
         PROVE  cache'[t] >= Cardinality(PlayedIn(plays, t, played + 1))
    <3> DEFINE x == Cardinality(PlayedIn(plays, t, played))
               y == Cardinality(PlayedIn(plays, t, played + 1))
    <3>1. x \in Nat /\ y \in Nat /\ cache[t] >= x /\ y <= x + 1
      BY <1>0, <2>5, <2>6 DEF PlaysAreCounted
    <3>2. (p.song = t /\ Chartable(p)) \/ y = x
      BY <2>2, <2>4, <2>5
    <3> HIDE DEF x, y
    <3>3. cache'[t] >= y
      BY <3>1, <3>2, <2>8, <2>9
    <3> QED BY <3>3 DEF y
  <2>11. CountsGrow'
    <3> SUFFICES ASSUME NEW t \in SongIds PROVE countsSaved[t] <= counts[t] /\ counts[t] <= cache'[t]
      BY <2>3 DEF CountsGrow
    <3>1. countsSaved[t] <= counts[t] /\ counts[t] <= cache[t]
      BY <1>0 DEF CountsGrow
    <3> QED BY <3>1, <2>8, <2>9
  <2> QED BY <1>0, <2>3, <2>10, <2>11 DEF CountInv, PlaysAreCounted, KnownIsLoaded
<1>4. ASSUME NEW s \in SongIds, FlushCount(s) PROVE CountInv'
  <2>1. UNCHANGED <<allSongs, plays, played, playedSaved, cache, countsSaved>>
        /\ counts' = [counts EXCEPT ![s] = cache[s]]
    BY <1>4 DEF FlushCount
  <2>2. CountsGrow'
    BY <1>0, <2>1 DEF CountsGrow, CountTypes
  <2> QED BY <1>0, <2>1, <2>2 DEF CountInv, PlaysAreCounted, KnownIsLoaded
<1>5. ASSUME NEW s \in SongIds, PublishRecord(s) PROVE CountInv'
  BY <1>0, <1>5 DEF PublishRecord, CountInv, KnownIsLoaded, CountsGrow, PlaysAreCounted
<1>6. ASSUME CommitCounts PROVE CountInv'
  <2>1. /\ playedSaved' = played /\ countsSaved' = counts /\ cache = counts
        /\ UNCHANGED <<allSongs, plays, played, cache, counts>>
    BY <1>6 DEF CommitCounts
  <2>2. CountsGrow'
    BY <2>1 DEF CountsGrow, CountTypes
  <2>3. PlaysAreCounted'
    BY <1>0, <2>1 DEF PlaysAreCounted
  <2> QED BY <1>0, <2>1, <2>2, <2>3 DEF CountInv, KnownIsLoaded
<1>7. ASSUME CrashCounting PROVE CountInv'
  <2>1. /\ played' = playedSaved /\ countsSaved' = counts' /\ cache' = counts'
        /\ UNCHANGED <<allSongs, plays, playedSaved>>
    BY <1>7 DEF CrashCounting
  <2>2. \A t \in SongIds : counts'[t] \in {countsSaved[t], counts[t]}
    BY <1>7 DEF CrashCounting
  <2>3. \A t \in SongIds : counts'[t] \in Nat /\ counts'[t] >= countsSaved[t]
    BY <1>0, <2>2 DEF CountsGrow, CountTypes
  <2>4. \A t \in SongIds : Cardinality(PlayedIn(plays, t, playedSaved)) \in Nat
    BY PlayedFact DEF CountTypes
  <2>5. \A t \in SongIds : counts'[t] >= Cardinality(PlayedIn(plays, t, playedSaved))
    <3> SUFFICES ASSUME NEW t \in SongIds
                 PROVE  counts'[t] >= Cardinality(PlayedIn(plays, t, playedSaved))
      OBVIOUS
    <3> DEFINE x == Cardinality(PlayedIn(plays, t, playedSaved))
    <3>1. x \in Nat /\ countsSaved[t] >= x /\ countsSaved[t] \in Nat
      BY <1>0, <2>4 DEF PlaysAreCounted, CountTypes
    <3> HIDE DEF x
    <3>2. counts'[t] >= x
      BY <3>1, <2>3
    <3> QED BY <3>2 DEF x
  <2> QED BY <1>0, <2>1, <2>3, <2>5 DEF CountInv, PlaysAreCounted, KnownIsLoaded, CountsGrow
<1>8. ASSUME NEW c \in Charts, Chart(c) PROVE CountInv'
  BY <1>0, <1>8 DEF Chart, CountInv, KnownIsLoaded, CountsGrow, PlaysAreCounted
<1>9. ASSUME NEW c \in Charts, CommitChart(c) PROVE CountInv'
  BY <1>0, <1>9 DEF CommitChart, CountInv, KnownIsLoaded, CountsGrow, PlaysAreCounted
<1>10. ASSUME NEW c \in Charts, CrashCharting(c) PROVE CountInv'
  BY <1>0, <1>10 DEF CrashCharting, CountInv, KnownIsLoaded, CountsGrow, PlaysAreCounted
<1>11. CASE UNCHANGED vars
  BY <1>0, <1>11 DEF vars, CountInv, KnownIsLoaded, CountsGrow, PlaysAreCounted
<1> QED
  BY <1>1, <1>2, <1>3, <1>4, <1>5, <1>6, <1>7, <1>8, <1>9, <1>10, <1>11 DEF Next

-----------------------------------------------------------------------------
(* What a count will reach *)

LEMMA AheadFact ==
    ASSUME NEW q \in Seq(Event), NEW loaded, NEW s \in SongIds, NEW n \in 0..Len(q)
    PROVE  /\ IsFiniteSet(AheadIn(q, loaded, s, n))
           /\ Cardinality(AheadIn(q, loaded, s, n)) \in Nat
           /\ n = Len(q) => AheadIn(q, loaded, s, n) = {}
<1>1. AheadIn(q, loaded, s, n) \in SUBSET ((n + 1)..Len(q)) /\ IsFiniteSet((n + 1)..Len(q))
  BY FS_Interval DEF AheadIn
<1>2. IsFiniteSet(AheadIn(q, loaded, s, n))
  BY <1>1, FS_Subset
<1>3. n = Len(q) => AheadIn(q, loaded, s, n) = {}
  BY <1>1
<1> QED BY <1>2, <1>3, FS_CardinalityType

\* An earlier position and more songs leave more plays to be counted.
LEMMA AheadGrows ==
    ASSUME NEW q \in Seq(Event), NEW l1, NEW l2, l1 \subseteq l2, NEW s \in SongIds,
           NEW n \in 0..Len(q), NEW m \in 0..n
    PROVE  /\ AheadIn(q, l1, s, n) \subseteq AheadIn(q, l2, s, m)
           /\ Cardinality(AheadIn(q, l1, s, n)) <= Cardinality(AheadIn(q, l2, s, m))
<1>1. AheadIn(q, l1, s, n) \in SUBSET AheadIn(q, l2, s, m)
  BY DEF AheadIn
<1>2. m \in 0..Len(q)
  OBVIOUS
<1>3. IsFiniteSet(AheadIn(q, l2, s, m))
  BY <1>2, AheadFact
<1> QED BY <1>1, <1>3, FS_Subset

\* The play that is counted next is one of those ahead.
LEMMA AheadOneLess ==
    ASSUME NEW q \in Seq(Event), NEW loaded, NEW s \in SongIds,
           NEW n \in Nat, n < Len(q)
    PROVE  LET here == q[n + 1].song = s /\ q[n + 1].long /\ s \in loaded
           IN  /\ here => /\ n + 1 \in AheadIn(q, loaded, s, n)
                          /\ Cardinality(AheadIn(q, loaded, s, n))
                                = Cardinality(AheadIn(q, loaded, s, n + 1)) + 1
               /\ ~here => AheadIn(q, loaded, s, n) = AheadIn(q, loaded, s, n + 1)
<1> DEFINE A == AheadIn(q, loaded, s, n)
           B == AheadIn(q, loaded, s, n + 1)
           here == q[n + 1].song = s /\ q[n + 1].long /\ s \in loaded
<1>1. n + 1 \in 0..Len(q) /\ (n + 1)..Len(q) = ((n + 1 + 1)..Len(q)) \cup {n + 1}
      /\ n + 1 \notin (n + 1 + 1)..Len(q)
  OBVIOUS
<1>2. /\ here => A = B \cup {n + 1}
      /\ ~here => A = B
      /\ n + 1 \notin B
  BY <1>1 DEF AheadIn
<1>3. IsFiniteSet(B) /\ Cardinality(B) \in Nat
  BY <1>1, AheadFact
<1> HIDE DEF A, B, here
<1>4. Cardinality(B \cup {n + 1}) = Cardinality(B) + 1
  BY <1>2, <1>3, FS_AddElement
<1>5. here => n + 1 \in A /\ Cardinality(A) = Cardinality(B) + 1
  BY <1>2, <1>4
<1> QED BY <1>2, <1>5 DEF A, B, here

\* A new play is ahead of every position, or of none.
LEMMA AheadAppend ==
    ASSUME NEW q \in Seq(Event), NEW p \in Event, NEW loaded, NEW s \in SongIds,
           NEW n \in 0..Len(q)
    PROVE  LET here == p.song = s /\ p.long /\ s \in loaded
           IN  /\ AheadIn(q, loaded, s, n) \subseteq AheadIn(Append(q, p), loaded, s, n)
               /\ Cardinality(AheadIn(Append(q, p), loaded, s, n))
                     = Cardinality(AheadIn(q, loaded, s, n)) + (IF here THEN 1 ELSE 0)
<1> DEFINE A == AheadIn(q, loaded, s, n)
           B == AheadIn(Append(q, p), loaded, s, n)
           here == p.song = s /\ p.long /\ s \in loaded
           k == Len(q) + 1
<1>1. /\ Len(Append(q, p)) = k /\ Append(q, p)[k] = p
      /\ (n + 1)..k = ((n + 1)..Len(q)) \cup {k} /\ k \notin (n + 1)..Len(q)
      /\ \A i \in (n + 1)..Len(q) : Append(q, p)[i] = q[i]
  OBVIOUS
<1>2. /\ here => B = A \cup {k}
      /\ ~here => B = A
      /\ k \notin A
  BY <1>1 DEF AheadIn
<1>3. IsFiniteSet(A) /\ Cardinality(A) \in Nat
  BY AheadFact
<1> HIDE DEF A, B, here, k
<1>4. Cardinality(A \cup {k}) = Cardinality(A) + 1
  BY <1>2, <1>3, FS_AddElement
<1>5. A \subseteq B
  BY <1>2
<1>6. CASE here
  BY <1>2, <1>4, <1>5, <1>6 DEF A, B, here
<1>7. CASE ~here
  <2>1. Cardinality(B) = Cardinality(A) + 0
    BY <1>2, <1>3, <1>7
  <2> QED BY <1>5, <1>7, <2>1 DEF A, B, here
<1> QED BY <1>6, <1>7

LEMMA AheadTypes ==
    ASSUME CountTypes, NEW s \in SongIds
    PROVE  /\ Cardinality(Ahead(s)) \in Nat /\ Cardinality(SavedAhead(s)) \in Nat
           /\ Reach(s) \in Nat /\ SavedReach(s) \in Nat
           /\ cache[s] \in Nat /\ cache[s] <= Reach(s)
           /\ played = Len(plays) => Ahead(s) = {} /\ Reach(s) = cache[s]
<1>1. /\ plays \in Seq(Event) /\ played \in 0..Len(plays) /\ playedSaved \in 0..Len(plays)
      /\ cache[s] \in Nat /\ countsSaved[s] \in Nat
  BY DEF CountTypes
<1>2. /\ Cardinality(Ahead(s)) \in Nat /\ Cardinality(SavedAhead(s)) \in Nat
      /\ played = Len(plays) => Ahead(s) = {}
  BY <1>1, AheadFact DEF Ahead, SavedAhead
<1>3. played = Len(plays) => Cardinality(Ahead(s)) = 0
  BY <1>2, FS_EmptySet
<1> HIDE DEF Ahead, SavedAhead
<1> QED BY <1>1, <1>2, <1>3 DEF Reach, SavedReach

\* What a count will reach never shrinks: a crash takes back counts, and the
\* position with them.
LEMMA NextReach ==
    CountTypes /\ CountTypes' /\ CountInv /\ ReachIsSaved /\ [Next]_vars
        => ReachIsSaved' /\ \A s \in SongIds : Reach(s)' >= Reach(s)
<1> SUFFICES ASSUME CountTypes, CountTypes', CountInv, ReachIsSaved, [Next]_vars
             PROVE  ReachIsSaved' /\ \A s \in SongIds : Reach(s)' >= Reach(s)
  OBVIOUS
<1> DEFINE Goal(t) == Reach(t)' <= SavedReach(t)' /\ Reach(t)' >= Reach(t)
<1> SUFFICES ASSUME NEW t \in SongIds PROVE Goal(t)
  BY DEF ReachIsSaved
<1> USE DEF counting, charting
<1> DEFINE a == Cardinality(AheadIn(plays, allSongs, t, played))
           b == Cardinality(AheadIn(plays, allSongs, t, playedSaved))
           a2 == Cardinality(AheadIn(plays', allSongs', t, played'))
           b2 == Cardinality(AheadIn(plays', allSongs', t, playedSaved'))
<1>a. /\ a \in Nat /\ b \in Nat /\ a2 \in Nat /\ b2 \in Nat
      /\ cache[t] \in Nat /\ cache'[t] \in Nat /\ countsSaved[t] \in Nat
      /\ countsSaved'[t] \in Nat /\ counts[t] \in Nat
  <2>1. a \in Nat /\ b \in Nat
    BY AheadTypes DEF Ahead, SavedAhead
  <2>2. plays' \in Seq(Event) /\ played' \in 0..Len(plays') /\ playedSaved' \in 0..Len(plays')
    BY DEF CountTypes
  <2>3. a2 \in Nat /\ b2 \in Nat
    BY <2>2, AheadFact
  <2> QED BY <2>1, <2>3 DEF CountTypes
<1>b. /\ Reach(t) = cache[t] + a /\ SavedReach(t) = countsSaved[t] + b
      /\ Reach(t)' = cache'[t] + a2 /\ SavedReach(t)' = countsSaved'[t] + b2
  BY DEF Reach, SavedReach, Ahead, SavedAhead
<1>c. cache[t] + a <= countsSaved[t] + b
  BY <1>b DEF ReachIsSaved
<1>d. countsSaved[t] <= counts[t] /\ counts[t] <= cache[t]
  BY DEF CountInv, CountsGrow
<1>f. plays \in Seq(Event) /\ played \in 0..Len(plays) /\ playedSaved \in 0..played
      /\ playedSaved \in 0..Len(plays)
  BY DEF CountTypes
<1>0. ASSUME UNCHANGED <<allSongs, plays, played, playedSaved, cache, countsSaved>>
      PROVE  Goal(t)
  BY <1>0, <1>b, <1>a, <1>c
<1>1. ASSUME NEW s \in SongIds, LoadSong(s) PROVE Goal(t)
  <2>1. /\ allSongs' = allSongs \cup {s} /\ s \notin allSongs
        /\ UNCHANGED <<plays, played, playedSaved, cache, countsSaved>>
    BY <1>1 DEF LoadSong
  <2>2. a <= a2 /\ a2 <= b2
    <3>1. allSongs \subseteq allSongs' /\ allSongs' \subseteq allSongs' /\ played \in 0..played
      BY <2>1, <1>f
    <3>2. a <= Cardinality(AheadIn(plays, allSongs', t, played))
      BY <3>1, <1>f, AheadGrows
    <3>3. Cardinality(AheadIn(plays, allSongs', t, played))
             <= Cardinality(AheadIn(plays, allSongs', t, playedSaved))
      BY <3>1, <1>f, AheadGrows
    <3> QED BY <3>2, <3>3, <2>1
  <2>3. CASE s = t
    <3>1. a = 0 /\ b = 0
      BY <2>1, <2>3, FS_EmptySet DEF AheadIn
    <3> HIDE DEF a, b, a2, b2
    <3> QED BY <1>a, <1>b, <1>c, <2>1, <2>2, <3>1
  <2>4. CASE s # t
    <3>1. a2 = a /\ b2 = b
      BY <2>1, <2>4 DEF AheadIn
    <3> HIDE DEF a, b, a2, b2
    <3> QED BY <1>a, <1>b, <1>c, <2>1, <3>1
  <2> QED BY <2>3, <2>4
<1>2. ASSUME NEW s \in SongIds, NEW long \in BOOLEAN, Play(s, long) PROVE Goal(t)
  <2> DEFINE p == PlayEvent(s, long)
             d == IF p.song = t /\ p.long /\ t \in allSongs THEN 1 ELSE 0
  <2>1. /\ plays' = Append(plays, p) /\ p \in Event
        /\ UNCHANGED <<allSongs, played, playedSaved, cache, countsSaved>>
    BY <1>2, PlayEventType DEF Play
  <2>2. d \in Nat
    OBVIOUS
  <2> HIDE DEF p
  <2>3. a2 = a + d /\ b2 = b + d
    BY <2>1, <1>f, AheadAppend
  <2> HIDE DEF a, b, a2, b2, d
  <2> QED BY <1>a, <1>b, <1>c, <2>1, <2>2, <2>3
<1>3. ASSUME CountPlay PROVE Goal(t)
  <2> DEFINE p == plays[played + 1]
             here == p.song = t /\ p.long /\ t \in allSongs
  <2>1. /\ played < Len(plays) /\ played' = played + 1
        /\ cache' = IF Chartable(p) THEN [cache EXCEPT ![p.song] = @ + 1] ELSE cache
        /\ UNCHANGED <<allSongs, plays, playedSaved, countsSaved>>
    BY <1>3 DEF CountPlay
  <2>2. (here => a = a2 + 1) /\ (~here => a = a2) /\ b2 = b
    BY <2>1, <1>f, AheadOneLess
  <2>3. (here => cache'[t] = cache[t] + 1) /\ (~here => cache'[t] = cache[t])
    BY <2>1 DEF Chartable, CountTypes
  <2> HIDE DEF a, b, a2, b2, here, p
  <2> QED BY <1>a, <1>b, <1>c, <2>1, <2>2, <2>3
<1>4. ASSUME CommitCounts PROVE Goal(t)
  <2>1. /\ playedSaved' = played /\ countsSaved' = counts /\ cache = counts
        /\ UNCHANGED <<allSongs, plays, played, cache>>
    BY <1>4 DEF CommitCounts
  <2>2. a2 = a /\ b2 = a
    BY <2>1
  <2> HIDE DEF a, b, a2, b2
  <2> QED BY <1>a, <1>b, <2>1, <2>2
<1>5. ASSUME CrashCounting PROVE Goal(t)
  <2>1. /\ played' = playedSaved /\ countsSaved' = counts' /\ cache' = counts'
        /\ UNCHANGED <<allSongs, plays, playedSaved>>
    BY <1>5 DEF CrashCounting
  <2>2. counts'[t] \in {countsSaved[t], counts[t]}
    BY <1>5 DEF CrashCounting
  <2>3. a2 = b /\ b2 = b
    BY <2>1
  <2> HIDE DEF a, b, a2, b2
  <2>4. cache'[t] >= countsSaved[t] /\ cache'[t] = countsSaved'[t]
    BY <1>a, <1>d, <2>1, <2>2
  <2> QED BY <1>a, <1>b, <1>c, <2>3, <2>4
<1>6. ASSUME NEW s \in SongIds, FlushCount(s) \/ PublishRecord(s) PROVE Goal(t)
  BY <1>0, <1>6 DEF FlushCount, PublishRecord
<1>7. ASSUME NEW c \in Charts, Chart(c) \/ CommitChart(c) \/ CrashCharting(c)
      PROVE  Goal(t)
  BY <1>0, <1>7 DEF Chart, CommitChart, CrashCharting
<1>8. CASE UNCHANGED vars
  BY <1>0, <1>8 DEF vars
<1> HIDE DEF Goal
<1> QED
  BY <1>1, <1>2, <1>3, <1>4, <1>5, <1>6, <1>7, <1>8 DEF Next

-----------------------------------------------------------------------------
(* The records of an update *)

LEMMA RecordFact ==
    ASSUME NEW s \in SongIds, NEW n \in Nat
    PROVE  /\ AddOf(s, n) \in Record /\ AddOf(s, n).op = "add"
           /\ AddOf(s, n).entry = SongPlayCount(s, n)
           /\ RemoveOf(s, n) \in Record /\ RemoveOf(s, n).op = "remove"
           /\ RemoveOf(s, n).entry = SongPlayCount(s, n)
BY EntryFact DEF AddOf, RemoveOf, Record

\* The record that is published next, and what is left then.
LEMMA PublishCases ==
    ASSUME CountTypes, RecordTypes, OutboxOK, NEW s \in SongIds, outbox[s] # <<>>
    PROVE  LET r == Head(outbox[s])
               t == Tail(outbox[s])
               n == counts[s]
           IN  \/ r = AddOf(s, n) /\ n > 0 /\ NoAddToCome(t, s, n)
                  /\ AddToCome(outbox[s], s, n)
               \/ /\ \E old \in 0..n : old < n /\ r = RemoveOf(s, old)
                  /\ \/ t = <<>> /\ NoAddToCome(t, s, n) /\ ~AddToCome(outbox[s], s, n)
                     \/ t = <<AddOf(s, n)>> /\ n > 0 /\ AddToCome(t, s, n)
<1> DEFINE n == counts[s]
           box == outbox[s]
<1>0. n \in Nat
  BY DEF CountTypes
<1>1. \A old \in 0..n : RemoveOf(s, old) # AddOf(s, n)
  BY <1>0, RecordFact DEF AddOf, RemoveOf
<1>2. ASSUME NEW x, NEW y
      PROVE  Head(<<x, y>>) = x /\ Tail(<<x, y>>) = <<y>> /\ Head(<<x>>) = x
             /\ Tail(<<x>>) = <<>> /\ <<x>> # <<>>
  OBVIOUS
<1>3. CASE box = <<AddOf(s, n)>> /\ n > 0
  BY <1>2, <1>3 DEF NoAddToCome, AddToCome
<1>4. ASSUME NEW old \in 0..n, old < n, n > 0, box = <<AddOf(s, n), RemoveOf(s, old)>>
      PROVE  Head(box) = AddOf(s, n) /\ NoAddToCome(Tail(box), s, n) /\ AddToCome(box, s, n)
  BY <1>2, <1>4 DEF NoAddToCome, AddToCome
<1>5. ASSUME NEW old \in 0..n, old < n, n > 0, box = <<RemoveOf(s, old), AddOf(s, n)>>
      PROVE  Head(box) = RemoveOf(s, old) /\ Tail(box) = <<AddOf(s, n)>>
             /\ AddToCome(Tail(box), s, n)
  BY <1>2, <1>5 DEF AddToCome
<1>6. ASSUME NEW old \in 0..n, old < n, box = <<RemoveOf(s, old)>>
      PROVE  Head(box) = RemoveOf(s, old) /\ Tail(box) = <<>>
             /\ NoAddToCome(Tail(box), s, n) /\ ~AddToCome(box, s, n)
  <2>1. Head(box) = RemoveOf(s, old) /\ Tail(box) = <<>>
    BY <1>2, <1>6
  <2>2. Len(box) = 1 /\ box[1] = RemoveOf(s, old)
    BY <1>6
  <2>3. box # <<AddOf(s, n)>>
    BY <2>2, <1>1
  <2>4. ASSUME NEW x, NEW y PROVE box # <<x, y>>
    <3>1. Len(<<x, y>>) = 2
      OBVIOUS
    <3>2. Len(box) # 2
      BY <2>2
    <3> HIDE DEF box
    <3> QED BY <3>1, <3>2
  <2> QED BY <2>1, <2>3, <2>4 DEF AddToCome, NoAddToCome
<1>7. \/ NoAddToCome(box, s, n)
      \/ AddToCome(box, s, n) /\ n > 0
  BY DEF OutboxOK
<1>8. CASE NoAddToCome(box, s, n)
  <2>1. PICK old \in 0..n : old < n /\ box = <<RemoveOf(s, old)>>
    BY <1>8 DEF NoAddToCome
  <2> QED BY <2>1, <1>6
<1>9. CASE AddToCome(box, s, n) /\ n > 0
  <2>1. CASE box = <<AddOf(s, n)>>
    BY <1>3, <1>9, <2>1
  <2>2. CASE box # <<AddOf(s, n)>>
    <3>1. PICK old \in 0..n : /\ old < n
                              /\ box \in {<<RemoveOf(s, old), AddOf(s, n)>>,
                                          <<AddOf(s, n), RemoveOf(s, old)>>}
      BY <1>9, <2>2 DEF AddToCome
    <3>2. CASE box = <<RemoveOf(s, old), AddOf(s, n)>>
      BY <1>5, <1>9, <3>1, <3>2
    <3>3. CASE box = <<AddOf(s, n), RemoveOf(s, old)>>
      BY <1>4, <1>9, <3>1, <3>3
    <3> QED BY <3>1, <3>2, <3>3
  <2> QED BY <2>1, <2>2
<1> QED BY <1>7, <1>8, <1>9

\* A flush leaves an update to come.
LEMMA FlushCase ==
    ASSUME CountTypes, RecordTypes, CountInv, NEW s \in SongIds, FlushCount(s)
    PROVE  /\ AddToCome(outbox'[s], s, counts'[s]) /\ counts'[s] > 0
           /\ \A t \in SongIds \ {s} : outbox'[t] = outbox[t] /\ counts'[t] = counts[t]
<1> DEFINE old == counts[s]
           n == cache[s]
<1>1. n \in Nat /\ old \in Nat /\ old < n
  BY DEF CountTypes, CountInv, CountsGrow, FlushCount, NeedsFlush
<1>2. counts' = [counts EXCEPT ![s] = n]
  BY DEF FlushCount
<1>3. PICK b \in {<<AddOf(s, n)>>, <<AddOf(s, n), RemoveOf(s, old)>>,
                  <<RemoveOf(s, old), AddOf(s, n)>>} :
         outbox' = [outbox EXCEPT ![s] = b]
  BY DEF FlushCount, AddOf, RemoveOf
<1>4. counts'[s] = n /\ \A t \in SongIds \ {s} : counts'[t] = counts[t]
  BY <1>2 DEF CountTypes
<1>5. outbox'[s] = b /\ \A t \in SongIds \ {s} : outbox'[t] = outbox[t]
  BY <1>3 DEF RecordTypes
<1>6. AddToCome(b, s, n)
  BY <1>1 DEF AddToCome
<1> QED BY <1>1, <1>4, <1>5, <1>6

LEMMA NextOutbox ==
    CountTypes /\ RecordTypes /\ CountInv /\ OutboxOK /\ [Next]_vars => OutboxOK'
<1> SUFFICES ASSUME CountTypes, RecordTypes, CountInv, OutboxOK, [Next]_vars
             PROVE  OutboxOK'
  OBVIOUS
<1> USE DEF counting, charting
<1>0. ASSUME UNCHANGED <<outbox, counts>> PROVE OutboxOK'
  BY <1>0 DEF OutboxOK
<1>1. ASSUME NEW s \in SongIds, FlushCount(s) PROVE OutboxOK'
  BY <1>1, FlushCase DEF OutboxOK
<1>2. ASSUME NEW s \in SongIds, PublishRecord(s) PROVE OutboxOK'
  <2>1. /\ outbox[s] # <<>> /\ counts' = counts
        /\ outbox' = [outbox EXCEPT ![s] = Tail(outbox[s])]
    BY <1>2 DEF PublishRecord
  <2>2. outbox'[s] = Tail(outbox[s]) /\ \A t \in SongIds \ {s} : outbox'[t] = outbox[t]
    BY <2>1 DEF RecordTypes
  <2>3. \/ NoAddToCome(Tail(outbox[s]), s, counts[s])
        \/ AddToCome(Tail(outbox[s]), s, counts[s]) /\ counts[s] > 0
    BY <2>1, PublishCases
  <2> QED BY <2>1, <2>2, <2>3 DEF OutboxOK
<1>3. ASSUME CrashCounting PROVE OutboxOK'
  BY <1>3 DEF CrashCounting, OutboxOK, NoAddToCome
<1>4. ASSUME NEW s \in SongIds, LoadSong(s) PROVE OutboxOK'
  BY <1>0, <1>4 DEF LoadSong
<1>5. ASSUME NEW s \in SongIds, NEW long \in BOOLEAN, Play(s, long) PROVE OutboxOK'
  BY <1>0, <1>5 DEF Play
<1>6. ASSUME CountPlay \/ CommitCounts PROVE OutboxOK'
  BY <1>0, <1>6 DEF CountPlay, CommitCounts
<1>7. ASSUME NEW c \in Charts, Chart(c) \/ CommitChart(c) \/ CrashCharting(c)
      PROVE  OutboxOK'
  BY <1>0, <1>7 DEF Chart, CommitChart, CrashCharting
<1>8. CASE UNCHANGED vars
  BY <1>0, <1>8 DEF vars
<1> QED
  BY <1>1, <1>2, <1>3, <1>4, <1>5, <1>6, <1>7, <1>8 DEF Next

LEMMA AppendFact ==
    ASSUME NEW q \in Seq(Record), NEW r \in Record
    PROVE  /\ Append(q, r) \in Seq(Record) /\ Len(q) \in Nat
           /\ Len(Append(q, r)) = Len(q) + 1
           /\ \A i \in 1..Len(q) : Append(q, r)[i] = q[i]
           /\ Append(q, r)[Len(q) + 1] = r
OBVIOUS

\* An entry that is added last stands.
LEMMA CurrentNew ==
    ASSUME NEW q \in Seq(Record), NEW r \in Record, r.op = "add"
    PROVE  CurrentIn(Append(q, r), r.entry)
<1> DEFINE a == Append(q, r)
           k == Len(q) + 1
<1>1. Len(a) = k /\ a[k] = r /\ k \in 1..Len(a) /\ (k + 1)..Len(a) = {}
  BY AppendFact
<1> HIDE DEF a, k
<1>2. Stands(a, k) /\ a[k].entry = r.entry
  BY <1>1 DEF Stands
<1>3. CurrentIn(a, r.entry)
  BY <1>1, <1>2 DEF CurrentIn
<1> QED BY <1>3 DEF a

\* An entry stands until its song is added again or the entry is removed.
LEMMA CurrentAppend ==
    ASSUME NEW q \in Seq(Record), NEW r \in Record, NEW e, CurrentIn(q, e),
           r.entry.song = e.song => r.op = "remove" /\ r.entry # e
    PROVE  CurrentIn(Append(q, r), e)
<1> DEFINE a == Append(q, r)
<1>1. /\ Len(q) \in Nat /\ Len(a) = Len(q) + 1 /\ a[Len(q) + 1] = r
      /\ \A i \in 1..Len(q) : a[i] = q[i]
  BY AppendFact
<1> HIDE DEF a
<1>2. PICK i \in 1..Len(q) : Stands(q, i) /\ q[i].entry = e
  BY DEF CurrentIn
<1>3. i \in 1..Len(a) /\ a[i] = q[i]
  BY <1>1
<1>4. Stands(a, i)
  <2>1. a[i].op = "add"
    BY <1>2, <1>3 DEF Stands
  <2>2. ASSUME NEW j \in (i + 1)..Len(a), a[j].entry.song = a[i].entry.song
        PROVE  a[j].op = "remove" /\ a[j].entry # a[i].entry
    <3>1. CASE j = Len(q) + 1
      BY <1>1, <1>2, <1>3, <2>2, <3>1
    <3>2. CASE j # Len(q) + 1
      <4>1. j \in (i + 1)..Len(q) /\ j \in 1..Len(q)
        BY <1>1, <3>2
      <4> QED BY <4>1, <1>1, <1>2, <1>3, <2>2 DEF Stands
    <3> QED BY <3>1, <3>2
  <2> QED BY <2>1, <2>2 DEF Stands
<1>5. CurrentIn(a, e)
  BY <1>2, <1>3, <1>4 DEF CurrentIn
<1> QED BY <1>5 DEF a

\* What is published: the next record goes to the charts of its song.
LEMMA PublishResult ==
    ASSUME CountTypes, RecordTypes, OutboxOK, NEW s \in SongIds, PublishRecord(s)
    PROVE  /\ Head(outbox[s]) \in Record /\ Head(outbox[s]).entry.song = s
           /\ \A c \in Charts : records[c] \in Seq(Record)
           /\ \A c \in Charts :
                 records'[c] = IF c \in ChartsOf(s) THEN Append(records[c], Head(outbox[s]))
                                                    ELSE records[c]
           /\ outbox'[s] = Tail(outbox[s])
           /\ \A t \in SongIds \ {s} : outbox'[t] = outbox[t]
           /\ UNCHANGED <<allSongs, plays, played, playedSaved, cache, counts, countsSaved,
                          charting, crashes>>
<1>1. outbox[s] # <<>> /\ outbox[s] \in Seq(Record)
  BY DEF PublishRecord, RecordTypes
<1>2. Head(outbox[s]) \in Record
  BY <1>1, SeqFact
<1>3. Head(outbox[s]).entry.song = s
  <2>1. counts[s] \in Nat /\ \A old \in 0..counts[s] : old \in Nat
    BY DEF CountTypes
  <2>2. \/ Head(outbox[s]) = AddOf(s, counts[s])
        \/ \E old \in 0..counts[s] : Head(outbox[s]) = RemoveOf(s, old)
    BY <1>1, PublishCases
  <2> QED BY <2>1, <2>2, RecordFact, EntryFact
<1>4. records' = [c \in Charts |-> IF c \in ChartsOf(s)
                                   THEN Append(records[c], Head(outbox[s]))
                                   ELSE records[c]]
      /\ outbox' = [outbox EXCEPT ![s] = Tail(outbox[s])]
  BY DEF PublishRecord
<1>5. \A c \in Charts : records[c] \in Seq(Record)
  BY DEF RecordTypes
<1>6. outbox'[s] = Tail(outbox[s]) /\ \A t \in SongIds \ {s} : outbox'[t] = outbox[t]
  BY <1>4 DEF RecordTypes
<1>7. UNCHANGED <<allSongs, plays, played, playedSaved, cache, counts, countsSaved,
                  charting, crashes>>
  BY DEF PublishRecord
<1> QED BY <1>2, <1>3, <1>4, <1>5, <1>6, <1>7

\* Every published count is one that its song will reach again.
LEMMA NextPublished ==
    CountTypes /\ CountTypes' /\ RecordTypes /\ CountInv /\ OutboxOK /\ ReachIsSaved
        /\ PublishedOK /\ [Next]_vars => PublishedOK'
<1> SUFFICES ASSUME CountTypes, CountTypes', RecordTypes, CountInv, OutboxOK, ReachIsSaved,
                    PublishedOK, [Next]_vars
             PROVE  PublishedOK'
  OBVIOUS
<1> USE DEF counting, charting
<1>1. \A t \in SongIds : Reach(t)' >= Reach(t)
  BY NextReach
<1>2. \A t \in SongIds : Reach(t) \in Nat /\ Reach(t)' \in Nat
  <2>1. \A t \in SongIds : Reach(t) \in Nat
    BY AheadTypes
  <2>2. ASSUME NEW t \in SongIds PROVE Reach(t)' \in Nat
    <3>1. plays' \in Seq(Event) /\ played' \in 0..Len(plays') /\ cache'[t] \in Nat
      BY DEF CountTypes
    <3>2. Cardinality(AheadIn(plays', allSongs', t, played')) \in Nat
      BY <3>1, AheadFact
    <3> QED BY <3>1, <3>2 DEF Reach, Ahead
  <2> QED BY <2>1, <2>2
<1> DEFINE Fine(c, r, n) == r.op = "add" => r.entry.plays > 0 /\ r.entry.plays <= n
<1>3. SUFFICES ASSUME NEW c \in Charts, NEW t \in SongIds, NEW i \in 1..Len(records'[c]),
                      records'[c][i].entry.song = t
               PROVE  c \in ChartsOf(t) /\ Fine(c, records'[c][i], Reach(t)')
  BY DEF PublishedOK
<1>4. ASSUME NEW j \in 1..Len(records[c]), records[c][j].entry.song = t
      PROVE  c \in ChartsOf(t) /\ Fine(c, records[c][j], Reach(t)')
  <2>1. c \in ChartsOf(t) /\ Fine(c, records[c][j], Reach(t))
    BY <1>4 DEF PublishedOK
  <2>2. records[c][j] \in Record
    BY SeqFact DEF RecordTypes
  <2>3. records[c][j].entry.plays \in Nat
    BY <2>2, EntryFact DEF Record
  <2> QED BY <2>1, <2>3, <1>1, <1>2
<1> HIDE DEF Fine
<1>6. CASE records' = records
  BY <1>3, <1>4, <1>6
<1>7. ASSUME NEW s \in SongIds, PublishRecord(s)
      PROVE  c \in ChartsOf(t) /\ Fine(c, records'[c][i], Reach(t)')
  <2> DEFINE r == Head(outbox[s])
  <2>1. /\ r \in Record /\ r.entry.song = s /\ records[c] \in Seq(Record)
        /\ c \notin ChartsOf(s) => records'[c] = records[c]
        /\ c \in ChartsOf(s) => records'[c] = Append(records[c], r)
    BY <1>7, PublishResult
  <2>2. Fine(c, r, Reach(s)')
    <3>1. r.op = "add" => r = AddOf(s, counts[s]) /\ counts[s] > 0
      <4>1. outbox[s] # <<>>
        BY <1>7 DEF PublishRecord
      <4>2. counts[s] \in Nat /\ \A old \in 0..counts[s] : old \in Nat
        BY DEF CountTypes
      <4> QED BY <4>1, <4>2, PublishCases, RecordFact
    <3>2. counts[s] \in Nat /\ counts[s] <= cache[s] /\ cache[s] <= Reach(s)
          /\ cache[s] \in Nat /\ Reach(s) \in Nat
      BY AheadTypes DEF CountInv, CountsGrow, CountTypes
    <3>3. r.op = "add" => r.entry.plays = counts[s]
      BY <3>1, <3>2, RecordFact, EntryFact
    <3>4. counts[s] <= Reach(s)'
      BY <3>2, <1>1, <1>2
    <3> QED BY <3>1, <3>3, <3>4 DEF Fine
  <2> HIDE DEF r
  <2>3. CASE c \notin ChartsOf(s)
    BY <2>1, <2>3, <1>3, <1>4
  <2>4. CASE c \in ChartsOf(s)
    <3>1. i \in 1..Len(records[c]) \/ i = Len(records[c]) + 1
      BY <2>1, <2>4, AppendFact
    <3>2. \/ i \in 1..Len(records[c]) /\ records'[c][i] = records[c][i]
          \/ records'[c][i] = r
      BY <2>1, <2>4, <3>1, AppendFact
    <3>3. CASE i \in 1..Len(records[c]) /\ records'[c][i] = records[c][i]
      BY <3>3, <1>3, <1>4
    <3>4. CASE records'[c][i] = r
      BY <2>1, <2>2, <2>4, <3>4, <1>3
    <3> QED BY <3>2, <3>3, <3>4
  <2> QED BY <2>3, <2>4
<1>8. ASSUME NEW s \in SongIds, LoadSong(s) PROVE records' = records
  BY <1>8 DEF LoadSong
<1>9. ASSUME NEW s \in SongIds, NEW long \in BOOLEAN, Play(s, long) PROVE records' = records
  BY <1>9 DEF Play
<1>10. ASSUME CountPlay \/ CommitCounts \/ CrashCounting PROVE records' = records
  BY <1>10 DEF CountPlay, CommitCounts, CrashCounting
<1>11. ASSUME NEW s \in SongIds, FlushCount(s) PROVE records' = records
  BY <1>11 DEF FlushCount
<1>12. ASSUME NEW d \in Charts, Chart(d) \/ CommitChart(d) \/ CrashCharting(d)
       PROVE  records' = records
  BY <1>12 DEF Chart, CommitChart, CrashCharting
<1>13. CASE UNCHANGED vars
  BY <1>6, <1>13 DEF vars
<1> QED
  BY <1>6, <1>7, <1>8, <1>9, <1>10, <1>11, <1>12, <1>13 DEF Next

-----------------------------------------------------------------------------
(* A count that nothing is left to do for is in the records of its charts *)

\* The conjuncts of SavedIsShown and IdleIsShown for one song, of the values
\* they depend on.
SavedShown(ahead, box, new, n, saved, rs, t) ==
    \/ ahead # {}
    \/ box = <<>> /\ new = n /\ n = saved /\ (n > 0 => InEveryChart(rs, t, n))
IdleShown(ahead, box, new, n, rs, t) ==
    n > 0 => ahead # {} \/ new # n \/ AddToCome(box, t, n) \/ InEveryChart(rs, t, n)

LEMMA NextShown ==
    CountTypes /\ RecordTypes /\ CountInv /\ OutboxOK /\ SavedIsShown /\ IdleIsShown
        /\ [Next]_vars => SavedIsShown' /\ IdleIsShown'
<1> SUFFICES ASSUME CountTypes, RecordTypes, CountInv, OutboxOK, SavedIsShown, IdleIsShown,
                    [Next]_vars, NEW t \in SongIds
             PROVE  /\ SavedShown(AheadIn(plays', allSongs', t, playedSaved'), outbox'[t],
                                  cache'[t], counts'[t], countsSaved'[t], records', t)
                    /\ IdleShown(AheadIn(plays', allSongs', t, played'), outbox'[t],
                                 cache'[t], counts'[t], records', t)
  BY DEF SavedIsShown, IdleIsShown, SavedShown, IdleShown, Busy, Ahead, SavedAhead
<1> USE DEF counting, charting
<1> DEFINE a == AheadIn(plays, allSongs, t, played)
           b == AheadIn(plays, allSongs, t, playedSaved)
           a2 == AheadIn(plays', allSongs', t, played')
           b2 == AheadIn(plays', allSongs', t, playedSaved')
           Goal == /\ SavedShown(b2, outbox'[t], cache'[t], counts'[t], countsSaved'[t],
                                 records', t)
                   /\ IdleShown(a2, outbox'[t], cache'[t], counts'[t], records', t)
<1>a. SavedShown(b, outbox[t], cache[t], counts[t], countsSaved[t], records, t)
  BY DEF SavedIsShown, SavedShown, SavedAhead
<1>b. IdleShown(a, outbox[t], cache[t], counts[t], records, t)
  BY DEF IdleIsShown, IdleShown, Busy, Ahead
<1>c. /\ plays \in Seq(Event) /\ played \in 0..Len(plays) /\ playedSaved \in 0..played
      /\ playedSaved \in 0..Len(plays)
      /\ cache[t] \in Nat /\ counts[t] \in Nat /\ countsSaved[t] \in Nat
      /\ countsSaved[t] <= counts[t] /\ counts[t] <= cache[t]
  BY DEF CountTypes, CountInv, CountsGrow
<1>d. ~AddToCome(<<>>, t, counts[t])
  <2>1. ASSUME NEW x, NEW y PROVE <<>> # <<x>> /\ <<>> # <<x, y>>
    OBVIOUS
  <2> QED BY <2>1 DEF AddToCome
<1> HIDE DEF a, b, a2, b2
\* The values of t stay as they are, and no play goes from what is ahead.
<1>0. ASSUME a \subseteq a2, b \subseteq b2,
             outbox'[t] = outbox[t], cache'[t] = cache[t], counts'[t] = counts[t],
             countsSaved'[t] = countsSaved[t], records' = records
      PROVE  Goal
  BY <1>0, <1>a, <1>b DEF SavedShown, IdleShown
<1>1. ASSUME NEW s \in SongIds, LoadSong(s) PROVE Goal
  <2>1. /\ allSongs \subseteq allSongs' /\ played \in 0..played
        /\ playedSaved \in 0..playedSaved
        /\ UNCHANGED <<plays, counting, records>>
    BY <1>1, <1>c DEF LoadSong
  <2>2. a \subseteq a2 /\ b \subseteq b2
    BY <2>1, <1>c, AheadGrows DEF a, b, a2, b2
  <2> QED BY <1>0, <2>1, <2>2
<1>2. ASSUME NEW s \in SongIds, NEW long \in BOOLEAN, Play(s, long) PROVE Goal
  <2> DEFINE p == PlayEvent(s, long)
  <2>1. /\ plays' = Append(plays, p) /\ p \in Event
        /\ UNCHANGED <<allSongs, counting, records>>
    BY <1>2, PlayEventType DEF Play
  <2> HIDE DEF p
  <2>2. a \subseteq a2 /\ b \subseteq b2
    BY <2>1, <1>c, AheadAppend DEF a, b, a2, b2
  <2> QED BY <1>0, <2>1, <2>2
<1>3. ASSUME CountPlay PROVE Goal
  <2> DEFINE p == plays[played + 1]
             here == p.song = t /\ p.long /\ t \in allSongs
  <2>1. /\ played \in Nat /\ played < Len(plays) /\ played' = played + 1
        /\ cache' = IF Chartable(p) THEN [cache EXCEPT ![p.song] = @ + 1] ELSE cache
        /\ UNCHANGED <<allSongs, plays, playedSaved, counts, countsSaved, outbox, records>>
    BY <1>3, <1>c DEF CountPlay
  <2>2. b2 = b
    BY <2>1 DEF b, b2
  <2>3. CASE here
    <3>1. cache'[t] = cache[t] + 1
      BY <2>1, <2>3 DEF Chartable, CountTypes
    <3>2. cache'[t] # counts'[t]
      BY <2>1, <3>1, <1>c
    <3>3. played + 1 \in b
      <4>1. played + 1 \in a
        BY <2>1, <2>3, <1>c, AheadOneLess DEF a
      <4> QED BY <4>1, <1>c, AheadGrows DEF a, b
    <3> QED BY <2>2, <3>2, <3>3 DEF SavedShown, IdleShown
  <2>4. CASE ~here
    <3>1. a = a2
      BY <2>1, <2>4, <1>c, AheadOneLess DEF a, a2
    <3>2. cache'[t] = cache[t]
      BY <2>1, <2>4 DEF Chartable, CountTypes
    <3> QED BY <1>0, <2>1, <2>2, <3>1, <3>2
  <2> QED BY <2>3, <2>4
<1>4. ASSUME NEW s \in SongIds, FlushCount(s) PROVE Goal
  <2>1. UNCHANGED <<allSongs, plays, played, playedSaved, cache, countsSaved, records>>
    BY <1>4 DEF FlushCount
  <2>2. a2 = a /\ b2 = b
    BY <2>1 DEF a, b, a2, b2
  <2>3. /\ AddToCome(outbox'[s], s, counts'[s])
        /\ t # s => outbox'[t] = outbox[t] /\ counts'[t] = counts[t]
    BY <1>4, FlushCase
  <2>4. CASE t = s
    <3>1. cache[t] # counts[t]
      BY <1>4, <2>4 DEF FlushCount, NeedsFlush
    <3>2. b # {}
      BY <3>1, <1>a DEF SavedShown
    <3> QED BY <2>2, <2>3, <2>4, <3>2 DEF SavedShown, IdleShown
  <2>5. CASE t # s
    BY <1>0, <2>1, <2>2, <2>3, <2>5
  <2> QED BY <2>4, <2>5
<1>5. ASSUME NEW s \in SongIds, PublishRecord(s) PROVE Goal
  <2> DEFINE r == Head(outbox[s])
             e == SongPlayCount(t, counts[t])
  <2>1. UNCHANGED <<allSongs, plays, played, playedSaved, cache, counts, countsSaved>>
        /\ outbox[s] # <<>>
    BY <1>5 DEF PublishRecord
  <2>2. a2 = a /\ b2 = b
    BY <2>1 DEF a, b, a2, b2
  <2>3. /\ r \in Record /\ r.entry.song = s
        /\ \A c \in Charts : records[c] \in Seq(Record)
        /\ \A c \in Charts : records'[c] = IF c \in ChartsOf(s) THEN Append(records[c], r)
                                                                ELSE records[c]
        /\ outbox'[s] = Tail(outbox[s])
        /\ t # s => outbox'[t] = outbox[t]
    BY <1>5, PublishResult
  <2>4. ChartsOf(t) \subseteq Charts
    BY ConstantsAssumption
  <2>5. e.song = t
    BY <1>c, EntryFact
  <2> HIDE DEF r
  <2>6. ASSUME InEveryChart(records, t, counts[t]),
               s = t => r.op = "remove" /\ r.entry # e
        PROVE  InEveryChart(records', t, counts[t])
    <3> SUFFICES ASSUME NEW c \in ChartsOf(t) PROVE CurrentIn(records'[c], e)
      BY DEF InEveryChart
    <3>1. c \in Charts /\ CurrentIn(records[c], e) /\ records[c] \in Seq(Record)
      BY <2>3, <2>4, <2>6 DEF InEveryChart
    <3> HIDE DEF e
    <3>2. r.entry.song = e.song => r.op = "remove" /\ r.entry # e
      BY <2>3, <2>5, <2>6
    <3>3. CurrentIn(Append(records[c], r), e)
      BY <2>3, <3>1, <3>2, CurrentAppend
    <3> QED BY <2>3, <3>1, <3>3
  <2>7. CASE t # s
    <3>1. InEveryChart(records, t, counts[t]) => InEveryChart(records', t, counts[t])
      BY <2>6, <2>7
    <3> QED BY <1>a, <1>b, <2>1, <2>2, <2>3, <2>7, <3>1 DEF SavedShown, IdleShown
  <2>8. CASE t = s
    <3>1. b # {}
      BY <1>a, <2>1, <2>8 DEF SavedShown
    <3>2. ASSUME r = AddOf(t, counts[t]) PROVE InEveryChart(records', t, counts[t])
      <4> SUFFICES ASSUME NEW c \in ChartsOf(t) PROVE CurrentIn(records'[c], e)
        BY DEF InEveryChart
      <4>1. r.op = "add" /\ r.entry = e
        BY <3>2, <1>c, RecordFact
      <4>2. records'[c] = Append(records[c], r) /\ records[c] \in Seq(Record)
        BY <2>3, <2>4, <2>8
      <4> QED BY <2>3, <4>1, <4>2, CurrentNew
    <3>3. ASSUME NEW old \in 0..counts[t], old < counts[t], r = RemoveOf(t, old)
          PROVE  r.op = "remove" /\ r.entry # e
      <4>1. old \in Nat
        BY <1>c
      <4>2. r.op = "remove" /\ r.entry = SongPlayCount(t, old)
        BY <3>3, <4>1, RecordFact
      <4>3. r.entry.plays = old /\ e.plays = counts[t]
        BY <4>1, <4>2, <1>c, EntryFact
      <4>4. r.entry.plays # e.plays
        BY <4>3, <3>3, <4>1, <1>c
      <4> QED BY <4>2, <4>4
    <3>4. \/ r = AddOf(t, counts[t])
          \/ /\ \E old \in 0..counts[t] : old < counts[t] /\ r = RemoveOf(t, old)
             /\ \/ ~AddToCome(outbox[t], t, counts[t])
                \/ AddToCome(Tail(outbox[t]), t, counts[t])
      BY <2>1, <2>8, PublishCases DEF r
    <3>5. IdleShown(a2, outbox'[t], cache'[t], counts'[t], records', t)
      <4>1. CASE r = AddOf(t, counts[t])
        BY <3>2, <4>1, <2>1 DEF IdleShown
      <4>2. CASE r # AddOf(t, counts[t])
        <5>1. r.op = "remove" /\ r.entry # e
          BY <3>3, <3>4, <4>2
        <5>2. InEveryChart(records, t, counts[t]) => InEveryChart(records', t, counts[t])
          BY <5>1, <2>6
        <5>3. AddToCome(outbox[t], t, counts[t]) => AddToCome(outbox'[t], t, counts[t])
          BY <3>4, <4>2, <2>3, <2>8
        <5> QED BY <1>b, <2>1, <2>2, <5>2, <5>3 DEF IdleShown
      <4> QED BY <4>1, <4>2
    <3> QED BY <2>2, <3>1, <3>5 DEF SavedShown
  <2> QED BY <2>7, <2>8
<1>6. ASSUME CommitCounts PROVE Goal
  <2>1. /\ playedSaved' = played /\ countsSaved' = counts /\ cache = counts
        /\ outbox[t] = <<>>
        /\ UNCHANGED <<allSongs, plays, played, cache, counts, outbox, records>>
    BY <1>6 DEF CommitCounts
  <2>2. a2 = a /\ b2 = a
    BY <2>1 DEF a, a2, b2
  <2> QED BY <1>b, <1>d, <2>1, <2>2 DEF SavedShown, IdleShown
<1>7. ASSUME CrashCounting PROVE Goal
  <2>1. /\ played' = playedSaved /\ countsSaved' = counts' /\ cache' = counts'
        /\ UNCHANGED <<allSongs, plays, playedSaved, records>>
    BY <1>7 DEF CrashCounting
  <2>2. counts'[t] \in {countsSaved[t], counts[t]} /\ outbox'[t] = <<>>
    BY <1>7 DEF CrashCounting
  <2>3. a2 = b /\ b2 = b
    BY <2>1 DEF b, a2, b2
  <2> QED BY <1>a, <2>1, <2>2, <2>3 DEF SavedShown, IdleShown
<1>8. ASSUME UNCHANGED <<allSongs, plays, counting, records>> PROVE Goal
  <2>1. a2 = a /\ b2 = b
    BY <1>8 DEF a, b, a2, b2
  <2> QED BY <1>0, <1>8, <2>1
<1>9. ASSUME NEW c \in Charts, Chart(c) \/ CommitChart(c) \/ CrashCharting(c) PROVE Goal
  <2>1. UNCHANGED <<allSongs, plays, counting, records>>
    BY <1>9 DEF Chart, CommitChart, CrashCharting
  <2> QED BY <1>8, <2>1
<1>10. ASSUME UNCHANGED vars PROVE Goal
  <2>1. UNCHANGED <<allSongs, plays, counting, records>>
    BY <1>10 DEF vars
  <2> QED BY <1>8, <2>1
<1> HIDE DEF Goal
<1>11. Goal
  BY <1>1, <1>2, <1>3, <1>4, <1>5, <1>6, <1>7, <1>9, <1>10 DEF Next
<1> QED BY <1>11 DEF Goal, a2, b2

-----------------------------------------------------------------------------
(* What the charts show *)

LEMMA BeatersFinite ==
    ASSUME NEW q, NEW e
    PROVE  IsFiniteSet(Beaters(q, e)) /\ Cardinality(Beaters(q, e)) \in Nat
<1>1. Beaters(q, e) \in SUBSET SongIds
  BY DEF Beaters
<1> QED BY <1>1, SongFact, FS_Subset, FS_CardinalityType

\* A full chart of other songs before e beats it.
LEMMA FullChartBeats ==
    ASSUME NEW q \in Seq(Record), NEW e \in Entry, NEW b \in SUBSET Entry, IsFiniteSet(b),
           Cardinality(b) = Size, \A f, g \in b : f.song = g.song => f = g,
           \A f \in b : Before(f, e) /\ f.song # e.song /\ PublishedIn(q, f)
    PROVE  Beaten(q, e)
<1> DEFINE B == Beaters(q, e)
           F == [f \in b |-> f.song]
<1>1. ASSUME NEW f \in b PROVE f.song \in B
  BY EntryFact DEF Beaters, PublishedIn
<1>2. F \in [b -> B]
  <2> HIDE DEF B
  <2> QED BY <1>1
<1>3. \A f, g \in b : F[f] = F[g] => f = g
  OBVIOUS
<1> HIDE DEF F
<1>4. F \in Injection(b, B)
  BY <1>2, <1>3 DEF Injection, IsInjective
<1>5. IsFiniteSet(B)
  BY BeatersFinite
<1>6. Cardinality(b) <= Cardinality(B)
  <2> HIDE DEF B
  <2> QED BY <1>4, <1>5, FS_Injection
<1>7. Cardinality(B) \in Nat
  BY BeatersFinite
<1> HIDE DEF B
<1>8. Cardinality(B) >= Size
  BY <1>6, <1>7, SizeFact
<1> QED BY <1>8 DEF B, Beaten

\* More records: what is beaten, published or not standing stays so.
LEMMA RecordsGrow ==
    ASSUME NEW q \in Seq(Record), NEW r \in Record
    PROVE  /\ \A e : PublishedIn(q, e) => PublishedIn(Append(q, r), e)
           /\ \A e : Beaten(q, e) => Beaten(Append(q, r), e)
           /\ \A i \in 1..Len(q) : Stands(Append(q, r), i) => Stands(q, i)
<1> DEFINE a == Append(q, r)
<1>1. Len(q) \in Nat /\ Len(a) = Len(q) + 1 /\ \A i \in 1..Len(q) : a[i] = q[i]
  BY AppendFact
<1>2. \A i \in 1..Len(q) : i \in 1..Len(a)
  BY <1>1
<1> HIDE DEF a
<1>3. \A e : PublishedIn(q, e) => PublishedIn(a, e)
  BY <1>1, <1>2 DEF PublishedIn
<1>4. ASSUME NEW e, Beaten(q, e) PROVE Beaten(a, e)
  <2>1. Beaters(q, e) \in SUBSET Beaters(a, e)
    BY <1>1, <1>2 DEF Beaters
  <2>2. Cardinality(Beaters(q, e)) <= Cardinality(Beaters(a, e))
    BY <2>1, BeatersFinite, FS_Subset
  <2>3. Cardinality(Beaters(q, e)) \in Nat /\ Cardinality(Beaters(a, e)) \in Nat
    BY BeatersFinite
  <2>4. Cardinality(Beaters(q, e)) >= Size
    BY <1>4 DEF Beaten
  <2> HIDE DEF Beaters
  <2>5. Cardinality(Beaters(a, e)) >= Size
    BY <2>2, <2>3, <2>4, SizeFact
  <2> QED BY <2>5 DEF Beaten
<1>5. ASSUME NEW i \in 1..Len(q), Stands(a, i) PROVE Stands(q, i)
  <2>1. \A j \in (i + 1)..Len(q) : j \in (i + 1)..Len(a) /\ a[j] = q[j]
    BY <1>1
  <2>2. a[i] = q[i]
    BY <1>1
  <2> QED BY <1>5, <2>1, <2>2 DEF Stands
<1> QED BY <1>3, <1>4, <1>5 DEF a

LEMMA ShowsAppend ==
    ASSUME NEW q \in Seq(Record), NEW r \in Record, NEW n \in 0..Len(q), NEW b,
           Shows(q, n, b)
    PROVE  Shows(Append(q, r), n, b)
<1> DEFINE a == Append(q, r)
<1> SUFFICES ASSUME NEW i \in 1..n, Stands(a, i)
             PROVE  a[i].entry \in b \/ Beaten(a, a[i].entry)
  BY DEF Shows
<1>1. i \in 1..Len(q)
  OBVIOUS
<1>2. a[i] = q[i]
  BY <1>1, AppendFact
<1> HIDE DEF a
<1>3. Stands(q, i) /\ (Beaten(q, q[i].entry) => Beaten(a, q[i].entry))
  BY <1>1, RecordsGrow DEF a
<1> QED BY <1>2, <1>3 DEF Shows

\* The charting task reads a record: a standing entry leaves the store only if
\* it is beaten, and every entry of the store was published.
LEMMA ShowsNext ==
    ASSUME NEW q \in Seq(Record), NEW n \in Nat, n < Len(q), NEW b, IsChart(b),
           Shows(q, n, b), \A f \in b : PublishedIn(q, f)
    PROVE  LET r == q[n + 1]
               b2 == IF r.op = "remove" THEN Subtract(b, r.entry) ELSE AddToStore(b, r.entry)
           IN  Shows(q, n + 1, b2) /\ \A f \in b2 : PublishedIn(q, f)
<1> DEFINE r == q[n + 1]
           e == r.entry
           b2 == IF r.op = "remove" THEN Subtract(b, e) ELSE AddToStore(b, e)
<1>1. n + 1 \in 1..Len(q)
  OBVIOUS
<1>2. r \in Record
  BY <1>1, SeqFact
<1>3. e \in Entry /\ r.op \in {"add", "remove"}
  BY <1>2 DEF Record
<1>4. \A i \in 1..(n + 1) : i \in 1..n \/ i = n + 1
  OBVIOUS
<1>5. ASSUME NEW i \in 1..n, Stands(q, i), e.song = q[i].entry.song
      PROVE  r.op = "remove" /\ e # q[i].entry
  <2>1. n + 1 \in (i + 1)..Len(q)
    OBVIOUS
  <2> QED BY <1>5, <2>1 DEF Stands
<1>6. CASE r.op = "remove"
  <2>1. b2 = b \ {e}
    BY <1>3, <1>6, SubtractResult
  <2>2. ASSUME NEW i \in 1..(n + 1), Stands(q, i)
        PROVE  q[i].entry \in b \ {e} \/ Beaten(q, q[i].entry)
    <3>1. i # n + 1
      BY <1>6, <2>2 DEF Stands
    <3>2. i \in 1..n
      BY <1>4, <3>1
    <3>3. q[i].entry \in b \/ Beaten(q, q[i].entry)
      BY <2>2, <3>2 DEF Shows
    <3>4. q[i].entry # e
      BY <1>5, <2>2, <3>2
    <3> QED BY <3>3, <3>4
  <2>3. Shows(q, n + 1, b \ {e})
    BY <2>2 DEF Shows
  <2> HIDE DEF b2
  <2>4. Shows(q, n + 1, b2) /\ \A f \in b2 : PublishedIn(q, f)
    BY <2>1, <2>3
  <2> QED BY <2>4 DEF b2
<1>7. CASE r.op = "add"
  <2> DEFINE t == {f \in b : f.song # e.song} \cup {e}
             c == AddToStore(b, e)
  <2>1. b2 = c
    BY <1>7
  <2>2. /\ IsChart(c)
        /\ c = t \/ (\E last \in t : /\ c = t \ {last}
                                     /\ Cardinality(c) = Size
                                     /\ \A f \in c : Before(f, last))
    BY <1>3, AddResult
  <2>3. PublishedIn(q, e)
    BY <1>1, <1>7 DEF PublishedIn
  <2>4. \A f \in t : PublishedIn(q, f) /\ f \in Entry
    BY <2>3, <1>3 DEF IsChart
  <2>5. \A f, g \in t : f.song = g.song => f = g
    BY DEF IsChart
  <2>6. c \subseteq t
    <3> HIDE DEF t, c
    <3> QED BY <2>2
  <2>7. ASSUME NEW i \in 1..(n + 1), Stands(q, i)
        PROVE  q[i].entry \in t \/ Beaten(q, q[i].entry)
    <3>1. CASE i = n + 1
      BY <3>1
    <3>2. CASE i # n + 1
      <4>1. i \in 1..n
        BY <1>4, <3>2
      <4>2. q[i].entry \in b \/ Beaten(q, q[i].entry)
        BY <2>7, <4>1 DEF Shows
      <4>3. e.song # q[i].entry.song
        BY <1>5, <1>7, <2>7, <4>1
      <4> QED BY <4>2, <4>3
    <3> QED BY <3>1, <3>2
  <2> HIDE DEF t, c
  <2>8. ASSUME NEW i \in 1..(n + 1), Stands(q, i)
        PROVE  q[i].entry \in c \/ Beaten(q, q[i].entry)
    <3>1. CASE q[i].entry \in t /\ q[i].entry \notin c
      <4> DEFINE last == q[i].entry
      <4>1. c = t \ {last} /\ Cardinality(c) = Size /\ \A f \in c : Before(f, last)
        BY <2>2, <3>1
      <4> HIDE DEF last
      <4>2. last \in t /\ last \in Entry
        BY <2>4, <3>1 DEF last
      <4>3. c \in SUBSET Entry /\ IsFiniteSet(c) /\ \A f, g \in c : f.song = g.song => f = g
        BY <2>2 DEF IsChart
      <4>4. \A f \in c : Before(f, last) /\ f.song # last.song /\ PublishedIn(q, f)
        BY <4>1, <4>2, <2>4, <2>5
      <4>5. Beaten(q, last)
        BY <4>1, <4>2, <4>3, <4>4, FullChartBeats
      <4> QED BY <4>5 DEF last
    <3> QED BY <2>7, <2>8, <3>1
  <2>9. Shows(q, n + 1, c)
    BY <2>8 DEF Shows
  <2> HIDE DEF b2
  <2>10. Shows(q, n + 1, b2) /\ \A f \in b2 : PublishedIn(q, f)
    BY <2>1, <2>9, <2>6, <2>4
  <2> QED BY <2>10 DEF b2
<1> QED BY <1>3, <1>6, <1>7

LEMMA NextCharts ==
    CountTypes /\ RecordTypes /\ StoresOK /\ OutboxOK /\ EntriesArePublished
        /\ StandingIsShown /\ [Next]_vars => EntriesArePublished' /\ StandingIsShown'
<1> SUFFICES ASSUME CountTypes, RecordTypes, StoresOK, OutboxOK, EntriesArePublished,
                    StandingIsShown, [Next]_vars
             PROVE  EntriesArePublished' /\ StandingIsShown'
  OBVIOUS
<1> USE DEF counting, charting
<1> DEFINE Good(q, n, m, b, bs) ==
             /\ Shows(q, n, b) /\ Shows(q, m, bs)
             /\ \A e \in b \cup bs : PublishedIn(q, e)
<1>a. \A c \in Charts : Good(records[c], read[c], readSaved[c], chart[c], chartSaved[c])
  BY DEF EntriesArePublished, StandingIsShown
<1>b. SUFFICES \A c \in Charts : Good(records'[c], read'[c], readSaved'[c], chart'[c],
                                      chartSaved'[c])
  BY DEF EntriesArePublished, StandingIsShown
<1> DEFINE Goal == \A c \in Charts : Good(records'[c], read'[c], readSaved'[c], chart'[c],
                                          chartSaved'[c])
<1>c. \A c \in Charts : /\ records[c] \in Seq(Record) /\ Len(records[c]) \in Nat
                        /\ read[c] \in 0..Len(records[c]) /\ readSaved[c] \in 0..read[c]
                        /\ readSaved[c] \in 0..Len(records[c])
  BY DEF RecordTypes
<1>1. ASSUME UNCHANGED <<records, charting>> PROVE Goal
  <2> HIDE DEF Good
  <2> QED BY <1>1, <1>a
<1>2. ASSUME NEW s \in SongIds, PublishRecord(s) PROVE Goal
  <2> DEFINE r == Head(outbox[s])
  <2>1. /\ r \in Record
        /\ \A c \in Charts : records'[c] = records[c] \/ records'[c] = Append(records[c], r)
        /\ UNCHANGED charting
    BY <1>2, PublishResult
  <2> HIDE DEF r
  <2> SUFFICES ASSUME NEW c \in Charts
               PROVE  Good(records'[c], read[c], readSaved[c], chart[c], chartSaved[c])
    BY <2>1
  <2>2. Good(Append(records[c], r), read[c], readSaved[c], chart[c], chartSaved[c])
    <3>1. /\ Shows(Append(records[c], r), read[c], chart[c])
          /\ Shows(Append(records[c], r), readSaved[c], chartSaved[c])
      BY <1>a, <1>c, <2>1, ShowsAppend
    <3>2. \A e \in chart[c] \cup chartSaved[c] : PublishedIn(Append(records[c], r), e)
      BY <1>a, <1>c, <2>1, RecordsGrow
    <3> QED BY <3>1, <3>2
  <2> HIDE DEF Good
  <2> QED BY <2>1, <2>2, <1>a
<1>3. ASSUME NEW d \in Charts, Chart(d) PROVE Goal
  <2> DEFINE q == records[d]
             n == read[d]
             r == q[n + 1]
             b2 == IF r.op = "remove" THEN Subtract(chart[d], r.entry)
                                      ELSE AddToStore(chart[d], r.entry)
  <2>1. /\ n < Len(q) /\ read' = [read EXCEPT ![d] = n + 1]
        /\ chart' = [chart EXCEPT ![d] = b2]
        /\ UNCHANGED <<records, readSaved, chartSaved>>
    BY <1>3 DEF Chart
  <2>2. n \in Nat /\ q \in Seq(Record) /\ IsChart(chart[d]) /\ Shows(q, n, chart[d])
        /\ (\A f \in chart[d] : PublishedIn(q, f))
    BY <1>a, <1>c DEF StoresOK
  <2>3. Shows(q, n + 1, b2) /\ \A f \in b2 : PublishedIn(q, f)
    <3> HIDE DEF q, n
    <3> QED BY <2>1, <2>2, ShowsNext
  <2> HIDE DEF b2, r, n, q
  <2>4. Good(q, n + 1, readSaved[d], b2, chartSaved[d])
    BY <1>a, <2>3 DEF q
  <2>5. read'[d] = n + 1 /\ chart'[d] = b2
        /\ \A c \in Charts \ {d} : read'[c] = read[c] /\ chart'[c] = chart[c]
    BY <2>1 DEF StoresOK
  <2> HIDE DEF Good
  <2> QED BY <1>a, <2>1, <2>4, <2>5 DEF q
<1>4. ASSUME NEW d \in Charts, CommitChart(d) PROVE Goal
  <2>1. /\ readSaved' = [readSaved EXCEPT ![d] = read[d]]
        /\ chartSaved' = [chartSaved EXCEPT ![d] = chart[d]]
        /\ UNCHANGED <<records, read, chart>>
    BY <1>4 DEF CommitChart
  <2>2. readSaved'[d] = read[d] /\ chartSaved'[d] = chart[d]
        /\ \A c \in Charts \ {d} : readSaved'[c] = readSaved[c] /\ chartSaved'[c] = chartSaved[c]
    BY <2>1 DEF StoresOK
  <2>3. Good(records[d], read[d], read[d], chart[d], chart[d])
    BY <1>a
  <2> HIDE DEF Good
  <2> QED BY <1>a, <2>1, <2>2, <2>3
<1>5. ASSUME NEW d \in Charts, CrashCharting(d) PROVE Goal
  <2>1. PICK b \in {chart[d], chartSaved[d]} :
           /\ chart' = [chart EXCEPT ![d] = b]
           /\ chartSaved' = [chartSaved EXCEPT ![d] = b]
    BY <1>5 DEF CrashCharting
  <2>2. read' = [read EXCEPT ![d] = readSaved[d]] /\ UNCHANGED <<records, readSaved>>
    BY <1>5 DEF CrashCharting
  <2>3. Shows(records[d], readSaved[d], chart[d])
    BY <1>a, <1>c DEF Shows
  <2>4. Good(records[d], readSaved[d], readSaved[d], b, b)
    BY <1>a, <2>3
  <2>5. /\ read'[d] = readSaved[d] /\ chart'[d] = b /\ chartSaved'[d] = b
        /\ \A c \in Charts \ {d} : /\ read'[c] = read[c] /\ chart'[c] = chart[c]
                                   /\ chartSaved'[c] = chartSaved[c]
    BY <2>1, <2>2 DEF StoresOK
  <2> HIDE DEF Good
  <2> QED BY <1>a, <2>2, <2>4, <2>5
<1>6. ASSUME NEW s \in SongIds, LoadSong(s) PROVE Goal
  BY <1>1, <1>6 DEF LoadSong
<1>7. ASSUME NEW s \in SongIds, NEW long \in BOOLEAN, Play(s, long) PROVE Goal
  BY <1>1, <1>7 DEF Play
<1>8. ASSUME CountPlay \/ CommitCounts \/ CrashCounting PROVE Goal
  BY <1>1, <1>8 DEF CountPlay, CommitCounts, CrashCounting
<1>9. ASSUME NEW s \in SongIds, FlushCount(s) PROVE Goal
  BY <1>1, <1>9 DEF FlushCount
<1>10. ASSUME UNCHANGED vars PROVE Goal
  BY <1>1, <1>10 DEF vars
<1> HIDE DEF Goal
<1>11. Goal
  BY <1>2, <1>3, <1>4, <1>5, <1>6, <1>7, <1>8, <1>9, <1>10 DEF Next
<1> QED BY <1>11 DEF Goal

-----------------------------------------------------------------------------
(* The theorems *)

LEMMA InitCharts == Init => ChartInv
<1> SUFFICES ASSUME Init PROVE ChartInv
  OBVIOUS
<1>1. CountTypes /\ RecordTypes /\ StoresOK
  BY InitType, TypesInParts
<1>2. ReachIsSaved
  <2>1. played = playedSaved /\ cache = countsSaved
    BY DEF Init
  <2> SUFFICES ASSUME NEW s \in SongIds PROVE Reach(s) <= SavedReach(s)
    BY DEF ReachIsSaved
  <2>2. Reach(s) = SavedReach(s) /\ Reach(s) \in Nat
    BY <1>1, <2>1, AheadTypes DEF Reach, SavedReach, Ahead, SavedAhead
  <2> QED BY <2>2
<1>3. OutboxOK
  BY DEF Init, OutboxOK, NoAddToCome
<1>4. \A c \in Charts : Len(records[c]) = 0 /\ read[c] = 0 /\ readSaved[c] = 0
                        /\ chart[c] = {} /\ chartSaved[c] = {}
  BY DEF Init
<1>5. PublishedOK /\ EntriesArePublished /\ StandingIsShown
  BY <1>4 DEF PublishedOK, EntriesArePublished, StandingIsShown, Shows
<1>6. SavedIsShown /\ IdleIsShown
  BY DEF Init, Zero, SavedIsShown, IdleIsShown
<1> QED BY <1>2, <1>3, <1>5, <1>6 DEF ChartInv

LEMMA NextIInv == IInv /\ [Next]_vars => IInv'
<1> SUFFICES ASSUME IInv, [Next]_vars PROVE IInv'
  OBVIOUS
<1>1. /\ TypeOK /\ StoresOK /\ CountTypes /\ RecordTypes /\ CountInv
      /\ ReachIsSaved /\ OutboxOK /\ PublishedOK /\ EntriesArePublished
      /\ SavedIsShown /\ IdleIsShown /\ StandingIsShown
  BY TypesInParts DEF IInv, ChartInv
<1>2. TypeOK' /\ StoresOK'
  BY <1>1, NextType
<1>3. CountTypes'
  BY <1>2 DEF TypeOK, CountTypes, Event
<1>4. CountInv'
  BY <1>1, NextCount
<1>5. ReachIsSaved'
  BY <1>1, <1>3, NextReach
<1>6. OutboxOK'
  BY <1>1, NextOutbox
<1>7. PublishedOK'
  BY <1>1, <1>3, NextPublished
<1>8. SavedIsShown' /\ IdleIsShown'
  BY <1>1, NextShown
<1>9. EntriesArePublished' /\ StandingIsShown'
  BY <1>1, NextCharts
<1> QED BY <1>2, <1>4, <1>5, <1>6, <1>7, <1>8, <1>9 DEF IInv, ChartInv

LEMMA Invariance == Spec => []IInv
<1>1. Init => IInv
  BY InitType, InitCount, InitCharts DEF IInv
<1> QED BY <1>1, NextIInv, PTL DEF Spec

\* The type invariant of MusicCharts: a chart never shows a song twice or more
\* than Size songs, whatever is replayed into it (TopFiveSongs.add, lines
\* 542-553, and the deserializer, lines 465-500).
THEOREM TypeCorrect == Spec => []TypeOK
<1>1. IInv => TypeOK
  BY DEF IInv
<1> QED BY <1>1, Invariance, PTL

\* When all plays are processed, every play of a song that was known has been
\* counted, for any number of crashes (streamsConfig, lines 295-300: counts are
\* flushed before offsets are committed).
THEOREM PlaysSurviveCrashes == Spec => []NoPlayIsLost
<1>1. IInv => NoPlayIsLost
  <2> SUFFICES ASSUME IInv, Settled, NEW s \in SongIds
               PROVE  counts[s] >= Cardinality(Played(s))
    BY DEF NoPlayIsLost
  <2>1. played = Len(plays) /\ cache = counts
    BY DEF Settled
  <2>2. Played(s) = PlayedIn(plays, s, played)
    BY <2>1 DEF Played, PlayedIn
  <2>3. cache[s] >= Cardinality(PlayedIn(plays, s, played))
    BY DEF IInv, CountInv, PlaysAreCounted
  <2> QED BY <2>1, <2>2, <2>3
<1> QED BY <1>1, Invariance, PTL

\* The chart of some entries has Size of them, unless it has them all.
LEMMA TopIsFull ==
    ASSUME NEW E \in SUBSET Entry, IsFiniteSet(E), TopOf(E) # E
    PROVE  Cardinality(TopOf(E)) >= Size
<1> DEFINE D == E \ TopOf(E)
           Ahd(g) == {f \in E : Before(f, g)}
<1>1. TopOf(E) \in SUBSET E /\ D \in SUBSET E /\ D # {}
  BY DEF TopOf
<1>2. IsFiniteSet(D) /\ D \in SUBSET Entry /\ IsFiniteSet(TopOf(E))
  BY <1>1, FS_Subset
<1>3. PICK g \in D : \A f \in D : ~Before(f, g)
  <2> HIDE DEF D
  <2> QED BY <1>1, <1>2, SomeIsFirst
<1>4. Ahd(g) \in SUBSET TopOf(E)
  BY <1>3
<1>5. Cardinality(Ahd(g)) <= Cardinality(TopOf(E))
  <2> HIDE DEF Ahd
  <2> QED BY <1>2, <1>4, FS_Subset
<1>6. ~(Cardinality(Ahd(g)) < Size)
  BY DEF TopOf
<1>7. Cardinality(Ahd(g)) \in Nat /\ Cardinality(TopOf(E)) \in Nat
  <2>1. IsFiniteSet(Ahd(g))
    <3> HIDE DEF Ahd
    <3> QED BY <1>2, <1>4, FS_Subset
  <2> HIDE DEF Ahd
  <2> QED BY <1>2, <2>1, FS_CardinalityType
<1> HIDE DEF Ahd
<1> QED BY <1>5, <1>6, <1>7, SizeFact

\* A chart in which every entry of E is shown unless Size others precede it,
\* and which shows the songs of E only, is the top of E.
LEMMA ChartIsTop ==
    ASSUME NEW E \in SUBSET Entry, IsFiniteSet(E), NEW b, IsChart(b),
           \A e \in E : e \in b \/ e \notin TopOf(E),
           \A f \in b : \E e \in E : e.song = f.song
    PROVE  b = TopOf(E)
<1>1. TopOf(E) \in SUBSET b /\ TopOf(E) \subseteq E
  BY DEF TopOf
<1>2. CASE TopOf(E) = E
  BY <1>1, <1>2 DEF IsChart
<1>3. CASE TopOf(E) # E
  <2>1. Cardinality(TopOf(E)) >= Size
    BY <1>3, TopIsFull
  <2>2. IsFiniteSet(b) /\ Cardinality(b) <= Size
    BY DEF IsChart
  <2>3. /\ IsFiniteSet(TopOf(E)) /\ Cardinality(TopOf(E)) <= Cardinality(b)
        /\ Cardinality(b) = Cardinality(TopOf(E)) => b = TopOf(E)
    BY <1>1, <2>2, FS_Subset
  <2>4. Cardinality(b) \in Nat /\ Cardinality(TopOf(E)) \in Nat
    BY <2>2, <2>3, FS_CardinalityType
  <2>5. Cardinality(b) = Cardinality(TopOf(E))
    BY <2>1, <2>2, <2>3, <2>4, SizeFact
  <2> QED BY <2>3, <2>5
<1> QED BY <1>2, <1>3

\* Line 64: the application "computes the latest Top 5 music charts".  When
\* nothing is left to do, every chart is the top of the counts of its songs, for
\* any number of songs, plays and crashes and either order of adder and
\* subtractor.
THEOREM ChartsAreRight == Spec => []ChartsAreTop
<1>1. IInv => ChartsAreTop
  <2> SUFFICES ASSUME IInv, Settled, NEW c \in Charts PROVE OnTop(c)
    BY DEF ChartsAreTop
  <2> DEFINE E == {SongPlayCount(s, counts[s]) : s \in {x \in Counted : c \in ChartsOf(x)}}
             q == records[c]
  <2>1. CountTypes /\ RecordTypes /\ StoresOK /\ PublishedOK /\ EntriesArePublished
        /\ IdleIsShown /\ StandingIsShown
    BY TypesInParts DEF IInv, ChartInv
  <2>2. /\ played = Len(plays) /\ cache = counts /\ read[c] = Len(q)
        /\ \A s \in SongIds : outbox[s] = <<>>
    BY DEF Settled
  <2>3. /\ \A s \in SongIds : counts[s] \in Nat
        /\ q \in Seq(Record) /\ Len(q) \in Nat /\ IsChart(chart[c])
    BY <2>1 DEF CountTypes, RecordTypes, StoresOK
  <2>4. \A s \in SongIds : Reach(s) = counts[s] /\ Ahead(s) = {}
    BY <2>1, <2>2, AheadTypes
  <2>5. \A e \in E : /\ e \in Entry /\ e.plays = counts[e.song] /\ counts[e.song] > 0
                     /\ c \in ChartsOf(e.song)
    BY <2>3, EntryFact DEF Counted
  <2>6. \A s \in SongIds : counts[s] > 0 /\ c \in ChartsOf(s)
                              => SongPlayCount(s, counts[s]) \in E
    BY DEF Counted
  <2>7. E \in SUBSET Entry /\ IsFiniteSet(E)
    <3>1. {x \in Counted : c \in ChartsOf(x)} \in SUBSET SongIds
      BY DEF Counted
    <3>2. IsFiniteSet({x \in Counted : c \in ChartsOf(x)})
      BY <3>1, SongFact, FS_Subset
    <3> DEFINE S == {x \in Counted : c \in ChartsOf(x)}
               F == [s \in S |-> SongPlayCount(s, counts[s])]
    <3>3. F \in [S -> E] /\ \A e \in E : \E s \in S : F[s] = e
      OBVIOUS
    <3>4. IsFiniteSet(S)
      BY <3>2
    <3> HIDE DEF E, S, F
    <3>5. F \in Surjection(S, E)
      BY <3>3 DEF Surjection
    <3>6. IsFiniteSet(E)
      BY <3>4, <3>5, FS_Surjection
    <3> QED BY <2>5, <3>6
  \* Every published entry is of a song of E, and not above its entry.
  <2>8. ASSUME NEW i \in 1..Len(q), q[i].op = "add"
        PROVE  /\ q[i].entry \in Entry
               /\ SongPlayCount(q[i].entry.song, counts[q[i].entry.song]) \in E
               /\ q[i].entry.plays <= counts[q[i].entry.song]
    <3>1. q[i] \in Record
      BY <2>3, SeqFact
    <3>2. q[i].entry \in Entry /\ q[i].entry.song \in SongIds /\ q[i].entry.plays \in Nat
      BY <3>1, EntryFact DEF Record
    <3> DEFINE s == q[i].entry.song
    <3>3. c \in ChartsOf(s) /\ q[i].entry.plays > 0 /\ q[i].entry.plays <= Reach(s)
      BY <2>1, <2>8, <3>2 DEF PublishedOK
    <3>4. q[i].entry.plays <= counts[s] /\ counts[s] > 0
      BY <3>2, <3>3, <2>3, <2>4
    <3> QED BY <3>2, <3>3, <3>4, <2>6
  \* Who beats an entry of E with a published count beats it with its count.
  <2>9. ASSUME NEW e \in E, Beaten(q, e) PROVE e \notin TopOf(E)
    <3> DEFINE B == Beaters(q, e)
               A == {f \in E : Before(f, e)}
               F == [s \in B |-> SongPlayCount(s, counts[s])]
    <3>1. ASSUME NEW s \in B
          PROVE  s \in SongIds /\ F[s] \in A /\ F[s].song = s
      <4>1. PICK i \in 1..Len(q) : q[i].op = "add" /\ q[i].entry.song = s
                                   /\ Before(q[i].entry, e)
        BY DEF Beaters
      <4>2. s \in SongIds /\ F[s] = SongPlayCount(s, counts[s])
        BY DEF Beaters
      <4>3. F[s] \in E /\ q[i].entry \in Entry /\ q[i].entry.plays <= counts[s]
        BY <2>8, <4>1, <4>2
      <4>4. F[s].song = s /\ F[s].plays = counts[s]
        BY <2>3, <4>2, EntryFact
      <4>5. /\ q[i].entry.plays \in Nat /\ q[i].entry.song \in Nat
            /\ e.plays \in Nat /\ e.song \in Nat /\ counts[s] \in Nat
        BY <4>2, <4>3, <2>3, <2>5, EntryFact
      <4>6. Before(F[s], e)
        <5> HIDE DEF F
        <5> QED BY <4>1, <4>3, <4>4, <4>5 DEF Before
      <4> HIDE DEF F
      <4> QED BY <4>2, <4>3, <4>4, <4>6
    <3>2. F \in [B -> A] /\ \A s, t \in B : F[s] = F[t] => s = t
      <4>1. F = [s \in B |-> F[s]]
        OBVIOUS
      <4> HIDE DEF F, B, A
      <4> QED BY <3>1, <4>1
    <3>3. A \in SUBSET E
      OBVIOUS
    <3> HIDE DEF A, B, F
    <3>4. F \in Injection(B, A) /\ IsFiniteSet(A)
      BY <3>2, <3>3, <2>7, FS_Subset DEF Injection, IsInjective
    <3>5. Cardinality(B) <= Cardinality(A) /\ Cardinality(A) \in Nat
      BY <3>4, FS_Injection, FS_CardinalityType
    <3>6. Cardinality(B) >= Size /\ Cardinality(B) \in Nat
      BY <2>9, BeatersFinite DEF Beaten, B
    <3>7. ~(Cardinality(A) < Size)
      BY <3>5, <3>6, SizeFact
    <3> QED BY <3>7 DEF TopOf, A
  \* Every entry of E stands, and was read.
  <2>10. ASSUME NEW e \in E PROVE e \in chart[c] \/ e \notin TopOf(E)
    <3> DEFINE s == e.song
    <3>1. s \in SongIds /\ counts[s] > 0 /\ c \in ChartsOf(s) /\ e = SongPlayCount(s, counts[s])
      BY <2>5, EntryFact
    <3>2. ~AddToCome(outbox[s], s, counts[s])
      <4>1. ASSUME NEW x, NEW y PROVE <<>> # <<x>> /\ <<>> # <<x, y>>
        OBVIOUS
      <4> QED BY <2>2, <3>1, <4>1 DEF AddToCome
    <3>3. InEveryChart(records, s, counts[s])
      BY <2>1, <2>2, <2>4, <3>1, <3>2 DEF IdleIsShown, Busy
    <3>4. CurrentIn(q, e)
      BY <3>1, <3>3 DEF InEveryChart
    <3>5. PICK i \in 1..Len(q) : Stands(q, i) /\ q[i].entry = e
      BY <3>4 DEF CurrentIn
    <3>6. e \in chart[c] \/ Beaten(q, e)
      BY <2>1, <2>2, <3>5 DEF StandingIsShown, Shows
    <3> QED BY <3>6, <2>9
  <2>11. ASSUME NEW f \in chart[c] PROVE \E e \in E : e.song = f.song
    <3>1. PICK i \in 1..Len(q) : q[i].op = "add" /\ q[i].entry = f
      BY <2>1 DEF EntriesArePublished, PublishedIn
    <3>2. SongPlayCount(f.song, counts[f.song]) \in E /\ f \in Entry
      BY <3>1, <2>8
    <3>3. SongPlayCount(f.song, counts[f.song]).song = f.song
      BY <3>2, <2>3, EntryFact
    <3> QED BY <3>2, <3>3
  <2>12. chart[c] = TopOf(E)
    <3> HIDE DEF E
    <3> QED BY <2>3, <2>7, <2>10, <2>11, ChartIsTop
  <2> QED BY <2>12 DEF OnTop
<1> QED BY <1>1, Invariance, PTL
=============================================================================
