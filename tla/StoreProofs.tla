---------------------------- MODULE StoreProofs -----------------------------
(***************************************************************************)
(* The two stores of the server, for any number of scenes, fixtures,       *)
(* crashes and restarts: only a server that ends inside updateSceneFile    *)
(* can lose or damage a scene, and a file of fixtures that can be loaded   *)
(* gives back the whole set that was saved in it last.                     *)
(***************************************************************************)
EXTENDS SceneStore, FixtureSet, FiniteSetTheorems, SequenceTheorems, TLAPS

-----------------------------------------------------------------------------
(* The scene file (SceneStore) *)

Lines == Seq(Scenes \cup {Damaged})

Typed ==
  /\ server \in {"down", "delete", "write", "run", "lost"}
  /\ scenes \in Lines /\ lines \in Lines /\ last \in Lines
  /\ tail \in {"none", "broken", "cut"}
  /\ exists \in BOOLEAN /\ hit \in BOOLEAN

\* A file that no crash has hit holds the images of scenes alone, and after a stop the
\* scenes of the server that was stopped.
Sound ==
  ~hit =>
    /\ scenes \in Seq(Scenes) /\ lines \in Seq(Scenes)
    /\ server # "lost"
    /\ server = "down" =>
         /\ tail = "none"
         /\ IF exists THEN IsPrefix(last, lines) ELSE last = <<>>

StoreInv == Typed /\ Sound /\ NothingUnsaved

-----------------------------------------------------------------------------
\* A prefix, place by place
LEMMA PrefixPlaces ==
  ASSUME NEW S, NEW s \in Seq(S), NEW t \in Seq(S)
  PROVE  IsPrefix(s, t) <=> Len(s) <= Len(t) /\ \A i \in 1 .. Len(s) : s[i] = t[i]
<1>1. SUFFICES ASSUME Len(s) <= Len(t)
               PROVE  SubSeq(s, 1, Len(s)) = SubSeq(t, 1, Len(s))
                        <=> \A i \in 1 .. Len(s) : s[i] = t[i]
  BY DEF IsPrefix
<1> DEFINE u == SubSeq(t, 1, Len(s))
<1>2. SubSeq(s, 1, Len(s)) = s
  BY SubSeqFull
<1>3. Len(s) \in Nat /\ Len(t) \in Nat /\ \A i \in 1 .. Len(s) : t[i] \in S
  BY <1>1
<1>4. u \in Seq(S) /\ Len(u) = Len(s) /\ \A i \in 1 .. Len(s) : u[i] = t[i]
  <2>1. /\ SubSeq(t, 1, Len(s)) \in Seq(S)
        /\ Len(SubSeq(t, 1, Len(s))) = IF 1 <= Len(s) THEN Len(s) - 1 + 1 ELSE 0
        /\ \A i \in 1 .. Len(s) - 1 + 1 : SubSeq(t, 1, Len(s))[i] = t[1 + i - 1]
    BY <1>3, SubSeqProperties, 1 \in Int, Len(s) \in Int
  <2> QED
    BY <2>1, <1>3
<1>5. s = u <=> \A i \in 1 .. Len(s) : s[i] = u[i]
  BY <1>4, SeqEqual
<1> QED
  BY <1>2, <1>4, <1>5

\* A sequence is a prefix of itself, and the front of a prefix is a prefix.
LEMMA PrefixFacts ==
  ASSUME NEW S, NEW s \in Seq(S), NEW t \in Seq(S)
  PROVE  /\ IsPrefix(s, s) /\ IsPrefix(<<>>, t)
         /\ s # <<>> /\ IsPrefix(s, t) => Front(s) \in Seq(S) /\ IsPrefix(Front(s), t)
<1>1. IsPrefix(s, s) /\ IsPrefix(<<>>, t)
  <2>1. Len(s) \in Nat /\ Len(t) \in Nat /\ <<>> \in Seq(S) /\ Len(<<>>) = 0
    OBVIOUS
  <2>2. IsPrefix(s, s) <=> Len(s) <= Len(s) /\ \A i \in 1 .. Len(s) : s[i] = s[i]
    BY PrefixPlaces, Zenon
  <2>3. SubSeq(<<>>, 1, 0) = <<>> /\ SubSeq(t, 1, 0) = <<>>
    BY SubSeqEmpty
  <2> QED
    BY <2>1, <2>2, <2>3 DEF IsPrefix
<1>2. ASSUME s # <<>>, IsPrefix(s, t)
      PROVE  Front(s) \in Seq(S) /\ IsPrefix(Front(s), t)
  <2>1. Len(s) \in Nat /\ Len(s) > 0 /\ Len(t) \in Nat
    BY <1>2, EmptySeq
  <2>2. /\ Front(s) \in Seq(S) /\ Len(Front(s)) = Len(s) - 1
        /\ \A i \in 1 .. Len(s) - 1 : Front(s)[i] = s[i]
    <3>1. PICK m \in Nat : m = Len(s) - 1
      BY <2>1
    <3>2. m \in Int /\ 1 \in Int /\ \A i \in 1 .. m : s[i] \in S
      BY <2>1, <3>1
    <3>3. /\ SubSeq(s, 1, m) \in Seq(S)
          /\ Len(SubSeq(s, 1, m)) = IF 1 <= m THEN m - 1 + 1 ELSE 0
          /\ \A i \in 1 .. m - 1 + 1 : SubSeq(s, 1, m)[i] = s[1 + i - 1]
      BY <3>2, SubSeqProperties
    <3>4. Front(s) = SubSeq(s, 1, m)
      BY <3>1 DEF Front
    <3>5. Len(SubSeq(s, 1, m)) = m /\ \A i \in 1 .. m : SubSeq(s, 1, m)[i] = s[i]
      BY <3>3
    <3> QED
      BY <3>1, <3>3, <3>4, <3>5, Zenon
  <2>3. Len(s) <= Len(t) /\ \A i \in 1 .. Len(s) : s[i] = t[i]
    BY <1>2, PrefixPlaces
  <2> QED
    BY <2>1, <2>2, <2>3, PrefixPlaces
<1> QED
  BY <1>1, <1>2

\* Parts of a sequence are sequences over the same set.
LEMMA Parts ==
  ASSUME NEW S, NEW s \in Seq(S)
  PROVE  /\ \A n \in 0 .. Len(s) : SubSeq(s, 1, n) \in Seq(S)
         /\ \A i \in DOMAIN s : RemoveAt(s, i) \in Seq(S)
         /\ s # <<>> => Front(s) \in Seq(S)
<1>1. ASSUME NEW m \in Nat \ {0}, NEW n \in 0 .. Len(s)
      PROVE  SubSeq(s, m, n) \in Seq(S)
  BY <1>1, SubSeqProperties
<1>2. ASSUME NEW i \in DOMAIN s
      PROVE  RemoveAt(s, i) \in Seq(S)
  <2>1. i \in 1 .. Len(s) /\ Len(s) \in Nat
    BY <1>2
  <2>2. SubSeq(s, 1, i - 1) \in Seq(S) /\ SubSeq(s, i + 1, Len(s)) \in Seq(S)
    BY <2>1, <1>1
  <2> QED
    BY <2>2, ConcatProperties DEF RemoveAt
<1>3. s # <<>> => Front(s) \in Seq(S)
  BY <1>1, Len(s) \in Nat, EmptySeq DEF Front
<1> QED
  BY <1>1, <1>2, <1>3

-----------------------------------------------------------------------------
LEMMA NoLines == <<>> \in Lines /\ <<>> \in Seq(Scenes)
BY DEF Lines

LEMMA InitStore == StoreInit => StoreInv
<1> SUFFICES ASSUME StoreInit
             PROVE  StoreInv
  OBVIOUS
<1>1. Typed
  BY NoLines, Zenon DEF StoreInit, Typed
<1>2. Sound
  BY DEF StoreInit, Sound
<1> QED
  BY <1>1, <1>2 DEF StoreInit, StoreInv, NothingUnsaved

\* Each step of the server keeps the invariant.
LEMMA NextStore == StoreInv /\ [StoreNext]_storeVars => StoreInv'
<1> SUFFICES ASSUME StoreInv, [StoreNext]_storeVars
             PROVE  StoreInv'
  OBVIOUS
<1> USE DEF StoreInv
<1>0. Scenes \subseteq Scenes \cup {Damaged}
  OBVIOUS
<1>1. CASE Load
  <2>1. Parsed \in Lines
    BY AppendProperties DEF Parsed, Typed, Lines
  <2>2. Typed'
    <3>1. scenes' \in Lines /\ server' \in {"lost", "delete"}
      BY <1>1, <2>1, NoLines, Zenon DEF Load
    <3> QED
      BY <1>1, <3>1, Zenon DEF Load, Typed
  <2>3. Sound'
    <3>1. ~hit => server' = "delete" /\ (scenes' = lines \/ scenes' = <<>>)
      BY <1>1 DEF Load, Sound, Parsed
    <3> QED
      BY <1>1, <3>1, NoLines DEF Load, Sound
  <2> QED
    BY <1>1, <2>2, <2>3 DEF Load, NothingUnsaved
<1>2. CASE Delete
  BY <1>2 DEF Delete, Typed, Lines, Sound, NothingUnsaved
<1>3. CASE Flush
  <2>1. PICK n \in Len(lines) .. Len(scenes) :
          /\ lines' = SubSeq(scenes, 1, n)
          /\ tail' \in {"none", "broken", "cut"}
    BY <1>3 DEF Flush
  <2>2. n \in 0 .. Len(scenes)
    BY <2>1 DEF Typed, Lines
  <2>3. lines' \in Lines
    BY <2>1, <2>2, Parts DEF Typed, Lines
  <2>4. scenes \in Seq(Scenes) => lines' \in Seq(Scenes)
    BY <2>1, <2>2, Parts
  <2> QED
    BY <1>3, <2>1, <2>3, <2>4 DEF Flush, Typed, Sound, NothingUnsaved
<1>4. CASE CloseFile
  <2>1. IsPrefix(scenes, scenes)
    BY PrefixFacts DEF Typed, Lines
  <2> QED
    BY <1>4, <2>1 DEF CloseFile, Typed, Sound, NothingUnsaved
<1>5. CASE Fail
  <2>1. Typed'
    BY <1>5, NoLines, Zenon DEF Fail, Typed
  <2> QED
    BY <1>5, <2>1 DEF Fail, Sound, NothingUnsaved
<1>6. CASE Stop
  BY <1>6 DEF Stop, file, Typed, Sound, NothingUnsaved
<1>7. ASSUME NEW s \in Scenes, addScene(s)
      PROVE  StoreInv'
  <2>1. scenes' \in Lines
    BY <1>7, AppendProperties DEF addScene, Typed, Lines
  <2>2. scenes \in Seq(Scenes) => scenes' \in Seq(Scenes)
    BY <1>7, AppendProperties DEF addScene
  <2> QED
    BY <1>7, <2>1, <2>2 DEF addScene, file, Typed, Sound, NothingUnsaved
<1>8. ASSUME NEW i \in DOMAIN scenes, deleteScene(i)
      PROVE  StoreInv'
  <2>1. scenes' \in Lines
    BY <1>8, Parts DEF deleteScene, Typed, Lines
  <2>2. scenes \in Seq(Scenes) => scenes' \in Seq(Scenes)
    BY <1>8, Parts DEF deleteScene
  <2> QED
    BY <1>8, <2>1, <2>2 DEF deleteScene, file, Typed, Sound, NothingUnsaved
<1>9. CASE deleteLastScene
  <2>1. scenes' \in Lines
    BY <1>9, Parts DEF deleteLastScene, Typed, Lines
  <2>2. scenes \in Seq(Scenes) => scenes' \in Seq(Scenes)
    BY <1>9, Parts DEF deleteLastScene
  <2>3. IsPrefix(scenes', lines)
    BY <1>9, PrefixFacts DEF deleteLastScene, Typed, Lines, NothingUnsaved
  <2> QED
    BY <1>9, <2>1, <2>2, <2>3 DEF deleteLastScene, file, Typed, Sound, NothingUnsaved
<1>10. CASE UNCHANGED storeVars
  BY <1>10 DEF storeVars, Typed, Sound, NothingUnsaved
<1> QED
  BY <1>1, <1>2, <1>3, <1>4, <1>5, <1>6, <1>7, <1>8, <1>9, <1>10 DEF StoreNext

\* The invariant of the store holds in every behaviour.
THEOREM StoreInvariant == StoreSpec => []StoreInv
<1>1. StoreInit => StoreInv
  BY InitStore
<1>2. StoreInv /\ [StoreNext]_storeVars => StoreInv'
  BY NextStore
<1> QED
  BY <1>1, <1>2, PTL DEF StoreSpec

\* Between two commands of the server, every scene is in the file.
THEOREM AllSaved == StoreSpec => []NothingUnsaved
<1>1. StoreInv => NothingUnsaved
  BY DEF StoreInv
<1> QED
  BY <1>1, StoreInvariant, PTL

\* The file parses and holds no damaged scene, unless some server ended in the rewrite.
THEOREM NoDamage == StoreSpec => []DamageNeedsCrash
<1>1. StoreInv => DamageNeedsCrash
  <2>1. ASSUME scenes \in Seq(Scenes)
        PROVE  \A i \in DOMAIN scenes : scenes[i] \in Scenes
    BY <2>1, ElementOfSeq
  <2> QED
    BY <2>1 DEF StoreInv, Sound, DamageNeedsCrash
<1> QED
  BY <1>1, StoreInvariant, PTL

\* A new server begins with the scenes of the one before it.
THEOREM ScenesSurvive == StoreSpec => RestartKeeps
<1> DEFINE Keeps == server = "down" /\ ~hit => IsPrefix(last, scenes')
<1>1. StoreInv /\ [StoreNext]_storeVars => [Keeps]_storeVars
  <2> SUFFICES ASSUME StoreInv, StoreNext, server = "down", ~hit
               PROVE  IsPrefix(last, scenes')
    OBVIOUS
  <2>1. Load
    BY DEF StoreNext, Load, Delete, Flush, CloseFile, Fail, Stop, addScene, deleteScene,
           deleteLastScene
  <2>2. scenes' = IF exists THEN lines ELSE <<>>
    BY <2>1 DEF Load, Parsed, StoreInv, Sound
  <2>3. IsPrefix(<<>>, <<>>)
    BY PrefixFacts, <<>> \in Seq(Scenes)
  <2> QED
    BY <2>2, <2>3 DEF StoreInv, Sound
<1> QED
  BY <1>1, StoreInvariant, PTL DEF StoreSpec, RestartKeeps

-----------------------------------------------------------------------------
(* The fixture sets (FixtureSet) *)

Fixture == [address : Int, channels : Int, colour : BOOLEAN]

InOrder(s) == \A i, j \in 1 .. Len(s) : i < j => s[i].address <= s[j].address

\* Of two fixtures exactly one is before the other.
LEMMA BeforeTotal ==
  ASSUME NEW s \in Seq(Fixture)
  PROVE  /\ \A i \in 1 .. Len(s) : ~Before(s, i, i)
         /\ \A i, j \in 1 .. Len(s) : i # j => Before(s, i, j) \/ Before(s, j, i)
         /\ \A i, j, k \in 1 .. Len(s) : Before(s, i, j) /\ Before(s, j, k) => Before(s, i, k)
<1>1. Len(s) \in Nat /\ \A i \in 1 .. Len(s) : s[i].address \in Int
  <2>1. Len(s) \in Nat
    BY LenProperties
  <2>2. \A i \in 1 .. Len(s) : s[i] \in Fixture
    BY ElementOfSeq
  <2> QED
    BY <2>1, <2>2 DEF Fixture
<1> QED
  <2>1. ASSUME NEW i \in 1 .. Len(s) PROVE ~Before(s, i, i)
    BY <1>1 DEF Before
  <2>2. ASSUME NEW i \in 1 .. Len(s), NEW j \in 1 .. Len(s), i # j
        PROVE  Before(s, i, j) \/ Before(s, j, i)
    BY <1>1, <2>2 DEF Before
  <2>3. ASSUME NEW i \in 1 .. Len(s), NEW j \in 1 .. Len(s), NEW k \in 1 .. Len(s),
               Before(s, i, j), Before(s, j, k)
        PROVE  Before(s, i, k)
    BY <1>1, <2>3 DEF Before
  <2> QED
    BY <2>1, <2>2, <2>3

LEMMA RankType ==
  ASSUME NEW s \in Seq(Fixture), NEW i \in 1 .. Len(s)
  PROVE  /\ IsFiniteSet({j \in 1 .. Len(s) : Before(s, j, i)})
         /\ Rank(s, i) = Cardinality({j \in 1 .. Len(s) : Before(s, j, i)})
         /\ Rank(s, i) \in Int /\ Rank(s, i) \in 0 .. Len(s) - 1
<1> DEFINE S == {j \in 1 .. Len(s) : Before(s, j, i)}
           T == (1 .. Len(s)) \ {i}
<1>1. Len(s) \in Nat /\ DOMAIN s = 1 .. Len(s)
  BY LenProperties
<1>2. IsFiniteSet(1 .. Len(s)) /\ Cardinality(1 .. Len(s)) = Len(s)
  BY <1>1, FS_Interval, 1 \in Int, Len(s) \in Int
<1>3. IsFiniteSet(T) /\ Cardinality(T) = Len(s) - 1
  BY <1>2, FS_RemoveElement
<1>4. S \in SUBSET T
  BY BeforeTotal
<1>5. IsFiniteSet(S) /\ Cardinality(S) <= Len(s) - 1 /\ Cardinality(S) \in Nat
  BY <1>3, <1>4, FS_Subset, FS_CardinalityType
<1>6. Rank(s, i) = Cardinality(S)
  BY <1>1 DEF Rank
<1> QED
  BY <1>1, <1>5, <1>6

\* The rank follows the order.
LEMMA RankMonotone ==
  ASSUME NEW s \in Seq(Fixture), NEW i \in 1 .. Len(s), NEW k \in 1 .. Len(s), Before(s, i, k)
  PROVE  Rank(s, i) < Rank(s, k)
<1> DEFINE S == {j \in 1 .. Len(s) : Before(s, j, i)}
           T == {j \in 1 .. Len(s) : Before(s, j, k)}
<1>1. S \in SUBSET T /\ i \in T /\ i \notin S
  BY BeforeTotal
<1>2. IsFiniteSet(T) /\ Rank(s, i) = Cardinality(S) /\ Rank(s, k) = Cardinality(T)
  BY RankType
<1> HIDE DEF S, T
<1>3. Cardinality(S) <= Cardinality(T) /\ Cardinality(S) # Cardinality(T)
  BY <1>1, <1>2, FS_Subset
<1>4. Rank(s, i) \in Int /\ Rank(s, k) \in Int
  BY RankType
<1> QED
  BY <1>2, <1>3, <1>4

\* Every place has exactly one fixture.
LEMMA RankOnto ==
  ASSUME NEW s \in Seq(Fixture), NEW p \in 1 .. Len(s)
  PROVE  \E i \in 1 .. Len(s) : Rank(s, i) = p - 1
<1> DEFINE n == Len(s)
           f == [i \in 1 .. n |-> Rank(s, i)]
<1>1. n \in Nat
  BY LenProperties
<1> HIDE DEF n
<1>2. f \in [1 .. n -> 0 .. n - 1]
  BY RankType DEF n
<1>3. \A i, k \in 1 .. n : f[i] = f[k] => i = k
  <2> SUFFICES ASSUME NEW i \in 1 .. n, NEW k \in 1 .. n, f[i] = f[k], i # k PROVE FALSE
    OBVIOUS
  <2>1. Rank(s, i) < Rank(s, k) \/ Rank(s, k) < Rank(s, i)
    <3>1. Before(s, i, k) \/ Before(s, k, i)
      BY BeforeTotal DEF n
    <3> QED
      BY <3>1, RankMonotone DEF n
  <2>2. Rank(s, i) \in Int /\ Rank(s, k) \in Int
    BY RankType DEF n
  <2> QED
    BY <2>1, <2>2
<1>4. f \in Injection(1 .. n, 0 .. n - 1)
  BY <1>2, <1>3 DEF Injection, IsInjective
<1>5. /\ IsFiniteSet(0 .. n - 1) /\ Cardinality(0 .. n - 1) = n
      /\ IsFiniteSet(1 .. n) /\ Cardinality(1 .. n) = n
  <2>1. 0 \in Int /\ 1 \in Int /\ n - 1 \in Int /\ n \in Int
    BY <1>1
  <2>2. /\ IsFiniteSet(0 .. n - 1) /\ Cardinality(0 .. n - 1) = IF 0 > n - 1 THEN 0 ELSE n - 1 - 0 + 1
        /\ IsFiniteSet(1 .. n) /\ Cardinality(1 .. n) = IF 1 > n THEN 0 ELSE n - 1 + 1
    BY <2>1, FS_Interval
  <2> QED
    BY <1>1, <2>2
<1>6. f \in Surjection(1 .. n, 0 .. n - 1)
  <2> HIDE DEF f
  <2> QED
    BY <1>4, <1>5, FS_Injection
<1>7. p - 1 \in 0 .. n - 1
  BY <1>1 DEF n
<1>8. PICK i \in 1 .. n : f[i] = p - 1
  BY <1>6, <1>7 DEF Surjection
<1> QED
  BY <1>8 DEF n

\* Collections.sort gives a sequence in order, of the fixtures it was given.
LEMMA SortedInOrder ==
  ASSUME NEW s \in Seq(Fixture)
  PROVE  Sorted(s) \in Seq(Fixture) /\ InOrder(Sorted(s))
<1> DEFINE At(p) == CHOOSE i \in 1 .. Len(s) : Rank(s, i) = p - 1
           t == Sorted(s)
<1>1. Len(s) \in Nat /\ DOMAIN s = 1 .. Len(s)
  BY LenProperties
<1>2. \A p \in 1 .. Len(s) : At(p) \in 1 .. Len(s) /\ Rank(s, At(p)) = p - 1
  BY RankOnto
<1>3. t = [p \in 1 .. Len(s) |-> s[At(p)]]
  BY <1>1 DEF Sorted
<1> HIDE DEF At
<1>4. \A p \in 1 .. Len(s) : s[At(p)] \in Fixture
  BY <1>2, ElementOfSeq
<1>5. t \in Seq(Fixture) /\ Len(t) = Len(s)
  <2>1. t \in [1 .. Len(s) -> Fixture]
    BY <1>3, <1>4
  <2> HIDE DEF t
  <2> QED
    BY <1>1, <2>1
<1>6. ASSUME NEW p \in 1 .. Len(s), NEW q \in 1 .. Len(s), p < q
      PROVE  t[p].address <= t[q].address
  <2>1. Rank(s, At(p)) < Rank(s, At(q))
    BY <1>1, <1>2, <1>6
  <2>2. ~Before(s, At(q), At(p))
    <3> SUFFICES ASSUME Before(s, At(q), At(p)) PROVE FALSE
      OBVIOUS
    <3>1. Rank(s, At(q)) < Rank(s, At(p))
      BY <1>2, RankMonotone
    <3> QED
      BY <1>1, <1>2, <2>1, <3>1
  <2>3. s[At(p)].address \in Int /\ s[At(q)].address \in Int
    BY <1>4 DEF Fixture
  <2>4. t[p] = s[At(p)] /\ t[q] = s[At(q)]
    BY <1>3
  <2> QED
    BY <2>2, <2>3, <2>4 DEF Before
<1> QED
  BY <1>5, <1>6 DEF InOrder

\* A sequence that is in order stays as it is: the sort is stable.
LEMMA SortedKeepsOrder ==
  ASSUME NEW s \in Seq(Fixture), InOrder(s)
  PROVE  Sorted(s) = s
<1>1. Len(s) \in Nat /\ DOMAIN s = 1 .. Len(s) /\ \A i \in 1 .. Len(s) : s[i].address \in Int
  <2>1. Len(s) \in Nat /\ DOMAIN s = 1 .. Len(s)
    BY LenProperties
  <2>2. \A i \in 1 .. Len(s) : s[i] \in Fixture
    BY ElementOfSeq
  <2> QED
    BY <2>1, <2>2 DEF Fixture
<1>2. ASSUME NEW i \in 1 .. Len(s) PROVE Rank(s, i) = i - 1
  <2>1. {j \in 1 .. Len(s) : Before(s, j, i)} = 1 .. i - 1
    <3>1. ASSUME NEW j \in 1 .. Len(s) PROVE Before(s, j, i) <=> j < i
      BY <1>1 DEF Before, InOrder
    <3> QED
      BY <1>1, <3>1
  <2>2. Cardinality(1 .. i - 1) = IF 1 > i - 1 THEN 0 ELSE i - 1 - 1 + 1
    <3>1. 1 \in Int /\ i - 1 \in Int
      BY <1>1
    <3> QED
      BY <3>1, FS_Interval
  <2>3. Rank(s, i) = Cardinality(1 .. i - 1)
    BY <1>1, <2>1 DEF Rank
  <2> QED
    BY <1>1, <2>2, <2>3
<1> DEFINE At(p) == CHOOSE i \in 1 .. Len(s) : Rank(s, i) = p - 1
<1>3. ASSUME NEW p \in 1 .. Len(s) PROVE At(p) = p
  <2>1. \A i \in 1 .. Len(s) : Rank(s, i) = p - 1 <=> i = p
    BY <1>1, <1>2
  <2> QED
    BY <2>1
<1>4. Sorted(s) = [p \in 1 .. Len(s) |-> s[At(p)]]
  BY <1>1 DEF Sorted
<1> HIDE DEF At
<1>5. Sorted(s) = [p \in 1 .. Len(s) |-> s[p]]
  BY <1>3, <1>4
<1> QED
  BY <1>5, LenProperties

-----------------------------------------------------------------------------
\* What is known of a set file: it has no number and no fixtures, or it has the number of
\* the set that was saved last and some of the fixtures of that set, from the first on.
FileOf(n) ==
  /\ files[n].count \in Int /\ files[n].objects \in Seq(Fixture)
  /\ IF files[n].count < 0
     THEN files[n].objects = <<>>
     ELSE /\ files[n].count = Len(saved[n])
          /\ Len(files[n].objects) <= Len(saved[n])
          /\ \A i \in 1 .. Len(files[n].objects) : files[n].objects[i] = saved[n][i]

SetTyped ==
  /\ program \in {"down", "menu", "save", "exit"} /\ target \in Files
  /\ set \in Seq(Fixture) /\ saved \in [Files -> Seq(Fixture)]
  /\ files \in [Files -> [count : Int, objects : Seq(Fixture)]]

\* Sets are in order, in memory and when they are saved; the set that is being saved
\* does not change meanwhile.
SetsInOrder ==
  /\ InOrder(set) /\ \A n \in Files : InOrder(saved[n])
  /\ program = "save" => saved[target] = set

SetInv == SetTyped /\ SetsInOrder /\ \A n \in Files : FileOf(n)

\* A file that loads holds all of its set.
LEMMA LoadsWhole ==
  ASSUME SetInv, NEW n \in Files, Loadable(files[n])
  PROVE  Loaded(files[n]) = saved[n]
<1> DEFINE o == files[n].objects
<1>1. /\ files[n].count = Len(saved[n]) /\ Len(o) = Len(saved[n])
      /\ \A i \in 1 .. Len(o) : o[i] = saved[n][i]
      /\ o \in Seq(Fixture) /\ saved[n] \in Seq(Fixture) /\ InOrder(saved[n])
  <2>1. FileOf(n) /\ saved[n] \in Seq(Fixture) /\ InOrder(saved[n])
    BY DEF SetInv, SetTyped, SetsInOrder
  <2>2. Len(saved[n]) \in Nat /\ Len(o) \in Nat
    BY <2>1, LenProperties DEF FileOf
  <2> QED
    BY <2>1, <2>2 DEF FileOf, Loadable
<1>2. o = saved[n]
  BY <1>1, SeqEqual
<1>3. SubSeq(files[n].objects, 1, files[n].count) = saved[n]
  BY <1>1, <1>2, SubSeqFull
<1> QED
  BY <1>1, <1>3, SortedKeepsOrder DEF Loaded

\* A file that is just made, with and without the header of the stream
LEMMA EmptyFiles ==
  ASSUME NEW made \in {NoFile, [NoFile EXCEPT !.count = NoCount]}
  PROVE  /\ made \in [count : Int, objects : Seq(Fixture)]
         /\ made.count \in Int /\ made.count < 0
         /\ made.objects = <<>> /\ made.objects \in Seq(Fixture)
<1>1. <<>> \in Seq(Fixture)
  BY EmptySeq
<1>2. CASE made = NoFile
  BY <1>1, <1>2 DEF NoFile
<1>3. CASE made = [NoFile EXCEPT !.count = NoCount]
  <2>1. made = [count |-> -1, objects |-> <<>>]
    BY <1>3 DEF NoFile, NoCount
  <2> QED
    BY <1>1, <2>1
<1> QED
  BY <1>2, <1>3

LEMMA SetInitHolds == SetInit => SetInv
<1> SUFFICES ASSUME SetInit PROVE SetInv
  OBVIOUS
<1>1. Shipped \in Seq(Fixture) /\ Len(Shipped) = 1 /\ InOrder(Shipped) /\ <<>> \in Seq(Fixture)
      /\ InOrder(<<>>) /\ Len(<<>>) = 0
  BY DEF Shipped, Fixture, InOrder
<1>2. \A n \in Files : saved[n] = IF n = Default THEN Shipped ELSE <<>>
  BY DEF SetInit
<1>3. \A n \in Files : files[n] = IF n = Default THEN [count |-> 1, objects |-> Shipped] ELSE NoFile
  BY <1>2, FixtureSetAssumption DEF SetInit
<1>4. SetTyped
  <2>1. saved \in [Files -> Seq(Fixture)]
    BY <1>1 DEF SetInit
  <2>2. \A n \in Files : files[n] \in [count : Int, objects : Seq(Fixture)]
    BY <1>1, <1>3, EmptyFiles
  <2>3. files \in [Files -> [count : Int, objects : Seq(Fixture)]]
    BY <2>2 DEF SetInit
  <2> QED
    BY <1>1, <2>1, <2>3, FixtureSetAssumption DEF SetInit, SetTyped
<1>5. SetsInOrder
  BY <1>1, <1>2 DEF SetInit, SetsInOrder
<1>6. ASSUME NEW n \in Files PROVE FileOf(n)
  <2>1. CASE n = Default
    <3>1. saved[n] = Shipped /\ files[n] = [count |-> 1, objects |-> Shipped]
      BY <1>2, <1>3, <2>1
    <3>2. files[n].count = 1 /\ files[n].objects = Shipped
      BY <3>1
    <3> QED
      BY <1>1, <3>1, <3>2 DEF FileOf
  <2>2. CASE n # Default
    BY <1>3, <2>2, EmptyFiles DEF FileOf
  <2> QED
    BY <2>1, <2>2
<1> QED
  BY <1>4, <1>5, <1>6 DEF SetInv

\* What leaves the files alone keeps them.
LEMMA MemoryOnly ==
  ASSUME SetInv, UNCHANGED <<files, saved>>, program' \in {"down", "menu", "save", "exit"},
         target' \in Files, set' \in Seq(Fixture), InOrder(set'),
         program' = "save" => saved[target'] = set'
  PROVE  SetInv'
<1>1. \A n \in Files : FileOf(n)'
  BY DEF SetInv, FileOf
<1> QED
  BY <1>1 DEF SetInv, SetTyped, SetsInOrder

\* What changes one file and not its set
LEMMA OneFile ==
  ASSUME SetInv, NEW made \in [count : Int, objects : Seq(Fixture)],
         files' = [files EXCEPT ![target] = made], UNCHANGED <<set, target>>,
         program' \in {"menu", "save"}, program = "save", saved' = saved,
         FileOf(target)'
  PROVE  SetInv'
<1>1. ASSUME NEW n \in Files PROVE FileOf(n)'
  <2>1. CASE n = target
    BY <2>1
  <2>2. CASE n # target
    BY <2>2 DEF SetInv, SetTyped, FileOf
  <2> QED
    BY <2>1, <2>2
<1> QED
  BY <1>1 DEF SetInv, SetTyped, SetsInOrder

LEMMA LoadKeeps ==
  ASSUME SetInv, NEW n \in Files, Loadable(files[n])
  PROVE  Loaded(files[n]) \in Seq(Fixture) /\ InOrder(Loaded(files[n]))
BY LoadsWhole DEF SetInv, SetTyped, SetsInOrder

\* RemoveAt, place by place
LEMMA RemoveKeepsOrder ==
  ASSUME NEW s \in Seq(Fixture), InOrder(s), NEW i \in 1 .. Len(s)
  PROVE  RemoveAt(s, i) \in Seq(Fixture) /\ InOrder(RemoveAt(s, i))
<1> DEFINE a == SubSeq(s, 1, i - 1)
           b == SubSeq(s, i + 1, Len(s))
           t == a \o b
<1>1. Len(s) \in Nat /\ \A j \in 1 .. Len(s) : s[j] \in Fixture
  BY LenProperties, ElementOfSeq
<1>2. a \in Seq(Fixture) /\ Len(a) = i - 1 /\ \A j \in 1 .. i - 1 : a[j] = s[j]
  <2>1. 1 \in Int /\ i - 1 \in Int /\ \A j \in 1 .. i - 1 : s[j] \in Fixture
    BY <1>1
  <2>2. /\ a \in Seq(Fixture) /\ Len(a) = IF 1 <= i - 1 THEN i - 1 - 1 + 1 ELSE 0
        /\ \A j \in 1 .. i - 1 - 1 + 1 : a[j] = s[1 + j - 1]
    BY <2>1, SubSeqProperties
  <2> HIDE DEF a
  <2> QED
    BY <1>1, <2>2
<1>3. b \in Seq(Fixture) /\ Len(b) = Len(s) - i /\ \A j \in 1 .. Len(s) - i : b[j] = s[i + j]
  <2>1. i + 1 \in Int /\ Len(s) \in Int /\ \A j \in i + 1 .. Len(s) : s[j] \in Fixture
    BY <1>1
  <2>2. /\ b \in Seq(Fixture) /\ Len(b) = IF i + 1 <= Len(s) THEN Len(s) - (i + 1) + 1 ELSE 0
        /\ \A j \in 1 .. Len(s) - (i + 1) + 1 : b[j] = s[i + 1 + j - 1]
    BY <2>1, SubSeqProperties
  <2> HIDE DEF b
  <2> QED
    BY <1>1, <2>2
<1> HIDE DEF a, b
<1>4. /\ t \in Seq(Fixture) /\ Len(t) = Len(a) + Len(b)
      /\ \A j \in 1 .. Len(a) + Len(b) : t[j] = IF j <= Len(a) THEN a[j] ELSE b[j - Len(a)]
  BY <1>2, <1>3, ConcatProperties
<1> HIDE DEF t
<1>5. /\ Len(t) = Len(s) - 1
      /\ \A j \in 1 .. Len(t) : t[j] = IF j < i THEN s[j] ELSE s[j + 1]
  <2>1. Len(t) = Len(s) - 1
    BY <1>1, <1>2, <1>3, <1>4
  <2>2. ASSUME NEW j \in 1 .. Len(t), j < i PROVE t[j] = s[j]
    <3>1. j \in 1 .. i - 1 /\ j <= Len(a) /\ j \in 1 .. Len(a) + Len(b)
      BY <1>1, <1>2, <1>3, <2>1, <2>2
    <3> QED
      BY <1>2, <1>4, <3>1
  <2>3. ASSUME NEW j \in 1 .. Len(t), ~(j < i) PROVE t[j] = s[j + 1]
    <3>1. j - Len(a) \in 1 .. Len(s) - i /\ ~(j <= Len(a)) /\ i + (j - Len(a)) = j + 1
      BY <1>1, <1>2, <2>1, <2>3
    <3>2. t[j] = b[j - Len(a)]
      BY <1>1, <1>2, <1>3, <1>4, <2>1, <3>1
    <3> QED
      BY <1>3, <3>1, <3>2
  <2> QED
    BY <2>1, <2>2, <2>3
<1>6. InOrder(t)
  BY <1>1, <1>5 DEF InOrder
<1> QED
  BY <1>4, <1>6 DEF RemoveAt, t, a, b

LEMMA MenuKeeps ==
  ASSUME SetInv,
         \/ StartProgram \/ End \/ SaveFails \/ addFixture \/ removeFixture
         \/ \E n \in Files : loadSet(n)
  PROVE  SetInv'
<1> USE DEF SetInv, SetTyped, SetsInOrder
<1>1. CASE StartProgram
  <2>1. CASE Loadable(files[Default])
    BY <1>1, <2>1, FixtureSetAssumption, LoadKeeps, MemoryOnly DEF StartProgram
  <2>2. CASE ~Loadable(files[Default])
    BY <1>1, <2>2, MemoryOnly DEF StartProgram
  <2> QED
    BY <2>1, <2>2
<1>2. CASE End
  <2>1. <<>> \in Seq(Fixture) /\ InOrder(<<>>)
    BY DEF InOrder
  <2> QED
    BY <1>2, <2>1, MemoryOnly DEF End
<1>3. CASE addFixture
  <2>1. PICK address \in 0 .. SIZE + 1, typed \in 0 .. SIZE, colour \in BOOLEAN :
          set' = Sorted(Append(set, Entered(address, typed, colour)))
    BY <1>3 DEF addFixture
  <2>2. Entered(address, typed, colour) \in Fixture
    BY FixtureSetAssumption DEF Entered, Fixture
  <2>3. set' \in Seq(Fixture) /\ InOrder(set')
    <3>1. Append(set, Entered(address, typed, colour)) \in Seq(Fixture)
      BY <2>2, AppendProperties
    <3> QED
      BY <2>1, <3>1, SortedInOrder
  <2> QED
    BY <1>3, <2>3, MemoryOnly DEF addFixture
<1>4. CASE removeFixture
  <2>1. PICK i \in 1 .. Len(set) : set' = RemoveAt(set, i)
    BY <1>4, LenProperties DEF removeFixture
  <2>2. set' \in Seq(Fixture) /\ InOrder(set')
    BY <2>1, RemoveKeepsOrder
  <2> QED
    BY <1>4, <2>2, MemoryOnly DEF removeFixture
<1>5. ASSUME NEW n \in Files, loadSet(n) PROVE SetInv'
  <2>1. set' \in Seq(Fixture) /\ InOrder(set')
    BY <1>5, LoadKeeps DEF loadSet
  <2> QED
    BY <1>5, <2>1, MemoryOnly DEF loadSet
<1>6. CASE SaveFails
  BY <1>6, MemoryOnly DEF SaveFails
<1> QED
  BY <1>1, <1>2, <1>3, <1>4, <1>5, <1>6

LEMMA SaveBegins ==
  ASSUME SetInv, NEW n \in Files, saveSetFile(n)
  PROVE  SetInv'
<1>1. PICK f \in {NoFile, [NoFile EXCEPT !.count = NoCount]} : files' = [files EXCEPT ![n] = f]
  BY DEF saveSetFile
<1>2. /\ f \in [count : Int, objects : Seq(Fixture)] /\ f.objects \in Seq(Fixture)
      /\ f.count \in Int /\ f.count < 0 /\ f.objects = <<>>
  BY EmptyFiles
<1>3. /\ saved' = [saved EXCEPT ![n] = set] /\ set' = set /\ target' = n
      /\ program' = "save"
  BY DEF saveSetFile
<1>4. ASSUME NEW m \in Files PROVE FileOf(m)'
  <2>1. CASE m = n
    <3>1. files'[m] = f
      BY <1>1, <2>1 DEF SetInv, SetTyped
    <3> QED
      BY <1>2, <3>1 DEF FileOf
  <2>2. CASE m # n
    BY <1>1, <1>3, <2>2 DEF SetInv, SetTyped, FileOf
  <2> QED
    BY <2>1, <2>2
<1>5. SetTyped' /\ SetsInOrder'
  BY <1>1, <1>2, <1>3 DEF SetInv, SetTyped, SetsInOrder
<1> QED
  BY <1>4, <1>5 DEF SetInv

LEMMA WriteKeeps ==
  ASSUME SetInv, WriteObject
  PROVE  SetInv'
<1> DEFINE o == files[target].objects
           w == Append(o, set[Len(o) + 1])
           made == [count |-> Len(set), objects |-> w]
<1>1. /\ program = "save" /\ Len(o) < Len(set) /\ files' = [files EXCEPT ![target] = made]
      /\ UNCHANGED <<program, set, target, saved>>
  BY DEF WriteObject
<1>2. /\ target \in Files /\ saved[target] = set /\ FileOf(target)
      /\ set \in Seq(Fixture) /\ files \in [Files -> [count : Int, objects : Seq(Fixture)]]
  BY <1>1 DEF SetInv, SetTyped, SetsInOrder
<1>3. o \in Seq(Fixture) /\ Len(o) \in Nat /\ Len(set) \in Nat
  BY <1>2, LenProperties DEF FileOf
<1>4. \A i \in 1 .. Len(o) : o[i] = set[i]
  <2>1. CASE files[target].count < 0
    BY <1>2, <2>1 DEF FileOf
  <2>2. CASE ~(files[target].count < 0)
    BY <1>2, <2>2 DEF FileOf
  <2> QED
    BY <2>1, <2>2
<1> HIDE DEF o
<1>5. set[Len(o) + 1] \in Fixture
  <2>1. Len(o) + 1 \in 1 .. Len(set)
    BY <1>1, <1>3
  <2> QED
    BY <1>2, <2>1, ElementOfSeq
<1>6. /\ w \in Seq(Fixture) /\ Len(w) = Len(o) + 1
      /\ \A i \in 1 .. Len(o) : w[i] = o[i]
      /\ w[Len(o) + 1] = set[Len(o) + 1]
  BY <1>3, <1>5, AppendProperties
<1> HIDE DEF w
<1>7. \A i \in 1 .. Len(w) : w[i] = set[i]
  BY <1>3, <1>4, <1>6
<1>8. made \in [count : Int, objects : Seq(Fixture)] /\ made.count = Len(set) /\ made.objects = w
  BY <1>3, <1>6
<1>9. files'[target] = made
  BY <1>1, <1>2
<1> HIDE DEF made
<1>10. FileOf(target)'
  BY <1>1, <1>2, <1>3, <1>6, <1>7, <1>8, <1>9 DEF FileOf
<1> QED
  BY <1>1, <1>8, <1>10, OneFile

LEMMA EndSaveKeeps ==
  ASSUME SetInv, EndSave
  PROVE  SetInv'
<1>1. CASE files[target] = NoFile
  <2> DEFINE made == [NoFile EXCEPT !.count = NoCount]
  <2>1. files' = [files EXCEPT ![target] = made]
    BY <1>1 DEF EndSave
  <2>2. /\ made \in [count : Int, objects : Seq(Fixture)] /\ made.objects \in Seq(Fixture)
        /\ made.count \in Int /\ made.count < 0 /\ made.objects = <<>>
    BY EmptyFiles
  <2>3. files'[target] = made
    BY <2>1 DEF SetInv, SetTyped
  <2> HIDE DEF made
  <2>4. FileOf(target)'
    <3>1. target' = target
      BY DEF EndSave
    <3> QED
      BY <2>2, <2>3, <3>1 DEF FileOf
  <2> QED
    BY <2>1, <2>2, <2>4, OneFile DEF EndSave
<1>2. CASE files[target] # NoFile
  <2>1. UNCHANGED <<files, saved, set, target>> /\ program' = "menu"
    BY <1>2 DEF EndSave
  <2> QED
    BY <2>1, MemoryOnly DEF SetInv, SetTyped, SetsInOrder
<1> QED
  BY <1>1, <1>2

LEMMA SetStepHolds == SetInv /\ [SetNext]_setVars => SetInv'
<1> SUFFICES ASSUME SetInv, [SetNext]_setVars PROVE SetInv'
  OBVIOUS
<1>1. CASE UNCHANGED setVars
  BY <1>1, MemoryOnly DEF setVars, SetInv, SetTyped, SetsInOrder
<1> QED
  BY <1>1, MenuKeeps, SaveBegins, WriteKeeps, EndSaveKeeps DEF SetNext

-----------------------------------------------------------------------------
\* A set file that FixtureManager can read gives back the set that was saved in it last,
\* all of it and in its order, wherever the process ended or a write failed before.
THEOREM SetsNeverPartial == SetSpec => []NeverPartial
<1>1. SetInv => NeverPartial
  BY LoadsWhole DEF NeverPartial
<1> QED
  BY <1>1, SetInitHolds, SetStepHolds, PTL DEF SetSpec

\* A set that was saved to the end, is not empty and has only fixtures that readObject
\* takes can be loaded again.
THEOREM SavedSetsLoad == SetSpec => SavedSetLoads
<1> DEFINE Loads == EndSave /\ set # <<>>
                      /\ (\A i \in DOMAIN set : Readable(set[i])) => Loadable(files'[target])
<1>1. SetInv /\ [SetNext]_setVars => [Loads]_setVars
  <2> SUFFICES ASSUME SetInv, EndSave, set # <<>>,
                      \A i \in DOMAIN set : Readable(set[i])
               PROVE  Loadable(files'[target])
    OBVIOUS
  <2>1. program = "save"
    BY DEF EndSave
  <2>2. FileOf(target) /\ saved[target] = set /\ set \in Seq(Fixture) /\ target \in Files
    BY <2>1 DEF SetInv, SetTyped, SetsInOrder
  <2>3. Len(set) \in Nat \ {0} /\ DOMAIN set = 1 .. Len(set)
    BY <2>2, LenProperties, EmptySeq
  <2>4. Len(files[target].objects) = Len(set)
    BY DEF EndSave
  <2>5. files[target].objects # <<>> /\ files[target].count = Len(set)
    BY <2>2, <2>3, <2>4 DEF FileOf
  <2>6. files' = files
    BY <2>5 DEF EndSave, NoFile
  <2> QED
    BY <2>2, <2>3, <2>4, <2>5, <2>6 DEF FileOf, Loadable
<1> QED
  BY <1>1, SetInitHolds, SetStepHolds, PTL DEF SetSpec, SavedSetLoads

=============================================================================
