---------------------------- MODULE ModSetProofs ----------------------------
(***************************************************************************)
(* What ModSet promises of the mods, for any mods, versions and settings:  *)
(* the overlay lists each name once, the script manifest is what the mods  *)
(* of the overlay ship, and what the menus show of a mod is what is        *)
(* written of it and read again at the next start.                         *)
(***************************************************************************)
EXTENDS ModSet, SequenceLemmas

-----------------------------------------------------------------------------
(* The order of mods.                                                       *)

LEMMA BeforeOrders ==
    /\ \A a \in Mods : ~Before(a, a)
    /\ \A a, b, c \in Mods : Before(a, b) /\ Before(b, c) => Before(a, c)
    /\ \A a, b \in Mods : a = b \/ Before(a, b) \/ Before(b, a)
  <1> USE ModSetAssumption DEF Before
  <1>1. \A a \in Mods : ~Before(a, a)
    OBVIOUS
  <1>2. ASSUME NEW a \in Mods, NEW b \in Mods, NEW c \in Mods, Before(a, b), Before(b, c)
        PROVE  Before(a, c)
    <2>1. a.remote \in BOOLEAN /\ b.remote \in BOOLEAN /\ c.remote \in BOOLEAN
      OBVIOUS
    <2>2. a.priority \in Int /\ b.priority \in Int /\ c.priority \in Int
          /\ a.folder \in Int /\ b.folder \in Int /\ c.folder \in Int
      OBVIOUS
    <2>. QED
      BY <1>2, <2>1, <2>2
  <1>3. ASSUME NEW a \in Mods, NEW b \in Mods PROVE a = b \/ Before(a, b) \/ Before(b, a)
    <2>1. (a.remote = TRUE \/ a.remote = FALSE) /\ (b.remote = TRUE \/ b.remote = FALSE)
      OBVIOUS
    <2>2. a.priority \in Int /\ b.priority \in Int /\ a.folder \in Int /\ b.folder \in Int
      OBVIOUS
    <2>3. a = b \/ a.folder # b.folder \/ a.remote # b.remote
      OBVIOUS
    <2>. QED
      BY <2>1, <2>2, <2>3
  <1>. QED
    BY <1>1, <1>2, <1>3

EarlierIn(S, m) == {o \in S : Before(o, m)}

\* InOrder has every mod of the set once, each at the place the set's mods
\* before it leave for it.
LEMMA InOrderIs ==
    ASSUME NEW S \in SUBSET Mods
    PROVE  /\ IsFiniteSet(S) /\ Cardinality(S) \in Nat /\ Cardinality(S) <= Cardinality(Mods)
           /\ InOrder(S) \in [1..Cardinality(S) -> S]
           /\ \A n \in 1..Cardinality(S) : Cardinality(EarlierIn(S, InOrder(S)[n])) = n - 1
           /\ \A k, n \in 1..Cardinality(S) : InOrder(S)[k] = InOrder(S)[n] => k = n
           /\ \A m \in S : \E n \in 1..Cardinality(S) : InOrder(S)[n] = m
  <1> DEFINE N == Cardinality(S)
             place == [m \in S |-> Cardinality(EarlierIn(S, m)) + 1]
  <1>1. IsFiniteSet(S) /\ N \in Nat /\ N <= Cardinality(Mods)
    BY FS_Subset, FS_CardinalityType, ModSetAssumption
  <1>2. ASSUME NEW m \in S
        PROVE  /\ IsFiniteSet(EarlierIn(S, m)) /\ Cardinality(EarlierIn(S, m)) \in 0..N - 1
    <2>1. EarlierIn(S, m) \in SUBSET S /\ m \notin EarlierIn(S, m) /\ m \in S
      BY BeforeOrders DEF EarlierIn
    <2>2. /\ IsFiniteSet(EarlierIn(S, m)) /\ Cardinality(EarlierIn(S, m)) <= N
          /\ (N = Cardinality(EarlierIn(S, m)) => S = EarlierIn(S, m))
      BY <1>1, <2>1, FS_Subset
    <2>3. Cardinality(EarlierIn(S, m)) \in Nat
      BY <2>2, FS_CardinalityType
    <2>. QED
      BY <1>1, <2>1, <2>2, <2>3
  <1>3. ASSUME NEW a \in S, NEW b \in S, Before(a, b)
        PROVE  Cardinality(EarlierIn(S, a)) < Cardinality(EarlierIn(S, b))
    <2>1. EarlierIn(S, a) \in SUBSET EarlierIn(S, b) /\ a \in EarlierIn(S, b) /\ a \notin EarlierIn(S, a)
      BY <1>3, BeforeOrders DEF EarlierIn
    <2>2. /\ Cardinality(EarlierIn(S, a)) <= Cardinality(EarlierIn(S, b))
          /\ (Cardinality(EarlierIn(S, b)) = Cardinality(EarlierIn(S, a)) => EarlierIn(S, b) = EarlierIn(S, a))
      BY <1>2, <2>1, FS_Subset
    <2>. QED
      BY <1>2, <2>1, <2>2
  <1>4. ASSUME NEW a \in S, NEW b \in S, Cardinality(EarlierIn(S, a)) = Cardinality(EarlierIn(S, b))
        PROVE  a = b
    <2>1. ~Before(a, b) /\ ~Before(b, a)
      BY <1>2, <1>3, <1>4
    <2>. QED
      BY <2>1, BeforeOrders
  <1>5. place \in Injection(S, 1..N)
    <2>1. \A m \in S : place[m] \in 1..N
      BY <1>1, <1>2
    <2>2. \A a, b \in S : place[a] = place[b] => a = b
      BY <1>2, <1>4
    <2>3. place \in [S -> 1..N]
      BY <2>1
    <2> HIDE DEF place
    <2>. QED
      BY <2>2, <2>3 DEF Injection, IsInjective
  <1>6. place \in Surjection(S, 1..N)
    <2>1. IsFiniteSet(1..N) /\ Cardinality(1..N) = N
      BY <1>1, FS_Interval
    <2> HIDE DEF place, N
    <2>. QED
      BY <1>5, <2>1, FS_Injection DEF N
  <1>7. ASSUME NEW n \in 1..N PROVE \E m \in S : Cardinality(EarlierIn(S, m)) = n - 1
    <2>1. PICK m \in S : place[m] = n
      <3> HIDE DEF place, N
      <3>. QED
        BY <1>6 DEF Surjection
    <2>2. Cardinality(EarlierIn(S, m)) + 1 = n
      BY <2>1
    <2>. QED
      BY <1>1, <1>2, <2>2
  <1>8. ASSUME NEW n \in 1..N
        PROVE  InOrder(S)[n] \in S /\ Cardinality(EarlierIn(S, InOrder(S)[n])) = n - 1
    <2>1. InOrder(S)[n] = CHOOSE m \in S : Cardinality(EarlierIn(S, m)) = n - 1
      BY DEF InOrder, EarlierIn
    <2>. QED
      BY <1>7, <2>1
  <1>9. InOrder(S) \in [1..N -> S]
    <2>1. InOrder(S) = [n \in 1..N |-> InOrder(S)[n]]
      BY DEF InOrder
    <2> HIDE DEF N
    <2>. QED
      BY <1>8, <2>1
  <1>10. \A k, n \in 1..N : InOrder(S)[k] = InOrder(S)[n] => k = n
    BY <1>1, <1>8
  <1>11. ASSUME NEW m \in S PROVE \E n \in 1..N : InOrder(S)[n] = m
    <2>1. Cardinality(EarlierIn(S, m)) + 1 \in 1..N /\ (Cardinality(EarlierIn(S, m)) + 1) - 1 = Cardinality(EarlierIn(S, m))
      BY <1>1, <1>2
    <2>. QED
      BY <1>4, <1>8, <2>1
  <1>. QED
    BY <1>1, <1>8, <1>9, <1>10, <1>11

\* A list of mods of which no two have one name.
OneEach(list) ==
    /\ list \in Seq(Mods) /\ Len(list) <= Cardinality(Mods)
    /\ \A m, n \in 1..Len(list) : list[m].name = list[n].name => m = n

LEMMA CopiesAreOneEach == \A E \in SUBSET Mods : OneEach(InOrder(OnlyCopies(E)))
  <1> SUFFICES ASSUME NEW E \in SUBSET Mods PROVE OneEach(InOrder(OnlyCopies(E)))
    OBVIOUS
  <1>1. OnlyCopies(E) \in SUBSET Mods /\ OnlyCopies(E) \subseteq E
        /\ \A a, b \in OnlyCopies(E) : a.name = b.name => a = b
    BY DEF OnlyCopies
  <1>2. PICK S, f : S = OnlyCopies(E) /\ f = InOrder(S)
    OBVIOUS
  <1>3. /\ Cardinality(S) \in Nat /\ Cardinality(S) <= Cardinality(Mods) /\ f \in [1..Cardinality(S) -> S]
        /\ \A k, n \in 1..Cardinality(S) : f[k] = f[n] => k = n
    BY <1>1, <1>2, InOrderIs
  <1>4. f \in Seq(Mods) /\ Len(f) = Cardinality(S)
    BY <1>1, <1>2, <1>3
  <1>5. OneEach(f)
    BY <1>1, <1>2, <1>3, <1>4 DEF OneEach
  <1>. QED
    BY <1>2, <1>5

LEMMA EnabledAreOneEach ==
    /\ OneEach(CollectModNames)
    /\ OneEach(InOrder(OnlyCopies({m \in Mods : ~m.remote /\ IsModEnabled(settings, m)})))
  <1>1. {m \in Mods : ModEnabledNow(m)} \in SUBSET Mods
        /\ {m \in Mods : ~m.remote /\ IsModEnabled(settings, m)} \in SUBSET Mods
    OBVIOUS
  <1>. QED
    BY <1>1, CopiesAreOneEach DEF CollectModNames

LEMMA ArchivesType ==
    ASSUME NEW list, OneEach(list)
    PROVE  Archives(list) \in Seq(Mods) /\ Len(Archives(list)) <= Cardinality(Mods)
  <1>1. list \in Seq(Mods) /\ Len(list) <= Cardinality(Mods) /\ Len(list) \in Nat /\ Cardinality(Mods) \in Nat
    BY ModSetAssumption, FS_CardinalityType DEF OneEach
  <1>2. /\ Only(list, {m \in Mods : m.vpk}) \in Seq(Mods)
        /\ Len(Only(list, {m \in Mods : m.vpk})) <= Len(list)
    BY <1>1, OnlyType
  <1>3. Len(Only(list, {m \in Mods : m.vpk})) \in Nat
    BY <1>2
  <1>. QED
    BY <1>1, <1>2, <1>3 DEF Archives

\* The mod that SetEnabled switches for another of its name and version.
LEMMA FirstIs == \A m \in Mods : FirstOf(m) \in Mods /\ SameMod(m, FirstOf(m))
  <1> SUFFICES ASSUME NEW m \in Mods PROVE FirstOf(m) \in Mods /\ SameMod(m, FirstOf(m))
    OBVIOUS
  <1> DEFINE S == {o \in Mods : SameMod(m, o)}
             f == InOrder(S)
  <1>1. S \in SUBSET Mods /\ m \in S
    BY DEF SameMod
  <1>2. /\ Cardinality(S) \in Nat /\ f \in [1..Cardinality(S) -> S]
        /\ \A n \in 1..Cardinality(S) : Cardinality(EarlierIn(S, f[n])) = n - 1
        /\ \E n \in 1..Cardinality(S) : f[n] = m
    <2> HIDE DEF S
    <2>. QED
      BY <1>1, InOrderIs
  <1>3. 1 \in 1..Cardinality(S)
    BY <1>2
  <1>4. f[1] \in S /\ Cardinality(EarlierIn(S, f[1])) = 0
    <2> HIDE DEF S, f
    <2>. QED
      BY <1>2, <1>3
  <1>5. EarlierIn(S, f[1]) = {}
    <2>1. IsFiniteSet(EarlierIn(S, f[1]))
      <3>1. EarlierIn(S, f[1]) \in SUBSET Mods
        BY DEF EarlierIn
      <3>. QED
        BY <3>1, ModSetAssumption, FS_Subset
    <2>. QED
      BY <1>4, <2>1, FS_EmptySet
  <1>6. \A o \in Mods : SameMod(m, o) => o = f[1] \/ Before(f[1], o)
    <2>1. \A o \in S : ~Before(o, f[1])
      BY <1>5 DEF EarlierIn
    <2>. QED
      BY <1>4, <2>1, BeforeOrders
  <1>7. f[1] \in Mods /\ SameMod(m, f[1])
    BY <1>4
  <1> HIDE DEF f
  <1>. QED
    BY <1>6, <1>7 DEF FirstOf

-----------------------------------------------------------------------------
(* The switches, as a committed reload writes them.                         *)

\* A mod whose name and version no other has: the menus can switch it.
Alone(m) == \A n \in Mods : SameMod(m, n) => m = n

Setting == [legacy : {"none", "on", "off"}, by : PerVersion]
Switch(on) == IF on THEN "on" ELSE "off"

LEMMA SetEnabledIs ==
    ASSUME NEW s \in Settings, NEW m \in Mods, NEW on \in BOOLEAN
    PROVE  /\ SetEnabledSetting(s, m, on) \in Settings
           /\ \A n \in Names : n # m.name => SetEnabledSetting(s, m, on)[n] = s[n]
           /\ SetEnabledSetting(s, m, on)[m.name].legacy = "none"
           /\ SetEnabledSetting(s, m, on)[m.name].by[m.version] = Switch(on)
           /\ \A v \in Versions : v # m.version =>
                SetEnabledSetting(s, m, on)[m.name].by[v] = s[m.name].by[v]
  <1>1. m.name \in Names /\ m.version \in Versions
    BY DEF Names, Versions
  <1>2. s \in [Names -> Setting] /\ Settings = [Names -> Setting]
    BY DEF Settings, Setting
  <1>3. s[m.name] \in Setting
    BY <1>1, <1>2
  <1>4. s[m.name].by \in [Versions -> {"none", "on", "off"}]
    BY <1>3 DEF Setting, PerVersion
  <1>5. PICK by : by = [s[m.name].by EXCEPT ![m.version] = Switch(on)]
    OBVIOUS
  <1>6. Switch(on) \in {"none", "on", "off"}
    BY DEF Switch
  <1>7. /\ by \in [Versions -> {"none", "on", "off"}] /\ by[m.version] = Switch(on)
        /\ \A v \in Versions : v # m.version => by[v] = s[m.name].by[v]
    BY <1>1, <1>4, <1>5, <1>6
  <1>8. PICK e : e = [legacy |-> "none", by |-> by]
    OBVIOUS
  <1>9. e \in Setting /\ e.legacy = "none" /\ e.by = by
    BY <1>7, <1>8 DEF Setting, PerVersion
  <1>10. SetEnabledSetting(s, m, on) = [s EXCEPT ![m.name] = e]
    BY <1>5, <1>8 DEF SetEnabledSetting, Switch
  <1>11. /\ [s EXCEPT ![m.name] = e] \in [Names -> Setting] /\ [s EXCEPT ![m.name] = e][m.name] = e
         /\ \A n \in Names : n # m.name => [s EXCEPT ![m.name] = e][n] = s[n]
    BY <1>1, <1>2, <1>9
  <1>. QED
    BY <1>2, <1>7, <1>9, <1>10, <1>11

\* What SetEnabledSetting leaves of a mod's switch, and of all the others.
Switched(t, s, m, on) ==
    /\ \A n \in Names : n # m.name => t[n] = s[n]
    /\ t[m.name].legacy = "none" /\ t[m.name].by[m.version] = Switch(on)
    /\ \A v \in Versions : v # m.version => t[m.name].by[v] = s[m.name].by[v]
LEMMA OneSwitch ==
    \A s \in Settings, m \in Mods, on \in BOOLEAN :
        SetEnabledSetting(s, m, on) \in Settings /\ Switched(SetEnabledSetting(s, m, on), s, m, on)
  BY SetEnabledIs DEF Switched

LEMMA WrittenThere ==
    ASSUME NEW s \in Settings, NEW shown \in [Mods -> BOOLEAN]
    PROVE  \E f : /\ Written(s, shown) = f[Cardinality(Mods)] /\ f[0] = s
                  /\ \A n \in 1..Cardinality(Mods) :
                       f[n] = SetEnabledSetting(f[n - 1], InOrder(Mods)[n], shown[InOrder(Mods)[n]])
  <1> DEFINE N == Cardinality(Mods)
             m == InOrder(Mods)
             step == [n \in 1..N |-> [c \in Settings |-> SetEnabledSetting(c, m[n], shown[m[n]])]]
             Rec(g) == [n \in 0..N |-> IF n = 0 THEN s
                                       ELSE SetEnabledSetting(g[n - 1], InOrder(Mods)[n], shown[InOrder(Mods)[n]])]
  <1>1. N \in Nat /\ m \in [1..N -> Mods]
    BY InOrderIs
  <1>2. \A n \in 1..N : m[n] \in Mods /\ shown[m[n]] \in BOOLEAN
    <2> HIDE DEF m, N
    <2>. QED
      BY <1>1
  <1>3. step \in [1..N -> [Settings -> Settings]]
    <2>1. \A n \in 1..N, c \in Settings : SetEnabledSetting(c, m[n], shown[m[n]]) \in Settings
      <3> HIDE DEF m, N
      <3>. QED
        BY <1>2, SetEnabledIs
    <2>. QED
      BY <2>1
  <1>4. PICK f : Walked(Settings, f, s, step, N)
    <2> HIDE DEF step, N
    <2>. QED
      BY <1>1, <1>3, WalkThere
  <1>5. f = Rec(f)
    <2>1. ASSUME NEW n \in 0..N
          PROVE  f[n] = Rec(f)[n]
      <3>1. CASE n = 0
        BY <1>1, <1>4, <3>1 DEF Walked
      <3>2. CASE n # 0
        <4>1. n \in 1..N /\ n - 1 \in 0..N
          BY <1>1, <3>2
        <4>2. f[n] = step[n][f[n - 1]] /\ f[n - 1] \in Settings
          BY <1>4, <4>1 DEF Walked
        <4>. QED
          BY <3>2, <4>1, <4>2
      <3>. QED
        BY <3>1, <3>2
    <2>2. f = [n \in 0..N |-> f[n]]
      BY <1>4 DEF Walked
    <2>. QED
      BY <2>1, <2>2
  <1>6. PICK g : g = CHOOSE p : p = Rec(p)
    OBVIOUS
  <1>7. Written(s, shown) = g[N]
    BY <1>6 DEF Written
  <1>8. g = Rec(g)
    <2> HIDE DEF Rec
    <2>. QED
      BY <1>5, <1>6, Zenon
  <1>9. \A n \in 0..N : g[n] = IF n = 0 THEN s
                               ELSE SetEnabledSetting(g[n - 1], InOrder(Mods)[n], shown[InOrder(Mods)[n]])
    <2>1. \A n \in 0..N : g[n] = Rec(g)[n]
      <3> HIDE DEF Rec
      <3>. QED
        BY <1>8, Zenon
    <2>. QED
      BY <2>1
  <1> HIDE DEF Rec
  <1>10. g[0] = s /\ \A n \in 1..N : g[n] = SetEnabledSetting(g[n - 1], InOrder(Mods)[n], shown[InOrder(Mods)[n]])
    BY <1>1, <1>9
  <1>. QED
    BY <1>7, <1>10

\* Each mod's own switch is what the menus showed of it, whatever was written
\* for the other mods of its name.
LEMMA WrittenIs ==
    ASSUME NEW s \in Settings, NEW shown \in [Mods -> BOOLEAN]
    PROVE  /\ Written(s, shown) \in Settings
           /\ \A m \in Mods : Alone(m) => IsModEnabled(Written(s, shown), m) = shown[m]
  <1> DEFINE N == Cardinality(Mods)
             order == InOrder(Mods)
  <1>1. /\ N \in Nat /\ order \in [1..N -> Mods]
        /\ \A m \in Mods : \E n \in 1..N : order[n] = m
        /\ \A k, n \in 1..N : order[k] = order[n] => k = n
    BY InOrderIs
  <1>2. PICK f : /\ Written(s, shown) = f[N] /\ f[0] = s
                 /\ \A n \in 1..N : f[n] = SetEnabledSetting(f[n - 1], order[n], shown[order[n]])
    BY WrittenThere
  <1> HIDE DEF N, order
  <1>3. \A n \in 0..N : f[n] \in Settings
    <2> DEFINE G == {n \in 0..N : f[n] \in Settings}
    <2>1. 0 \in G /\ G \in SUBSET (0..N)
      BY <1>1, <1>2
    <2>2. ASSUME NEW n \in 1..N, n - 1 \in G PROVE n \in G
      <3>1. f[n - 1] \in Settings /\ order[n] \in Mods /\ shown[order[n]] \in BOOLEAN /\ n \in 0..N
        BY <1>1, <2>2
      <3>. QED
        BY <1>2, <3>1, SetEnabledIs
    <2> HIDE DEF G
    <2>3. G = 0..N
      BY <1>1, <2>1, <2>2, FromBelow
    <2>. QED
      BY <2>3 DEF G
  <1>4. ASSUME NEW m \in Mods, Alone(m)
        PROVE  IsModEnabled(f[N], m) = shown[m]
    <2>1. PICK k \in 1..N : order[k] = m
      BY <1>1
    <2>2. m.name \in Names /\ m.version \in Versions
      BY DEF Names, Versions
    <2> DEFINE Done(n) == f[n][m.name].legacy = "none" /\ f[n][m.name].by[m.version] = Switch(shown[m])
               G == {n \in 0..N : n >= k => Done(n)}
    <2>3. 0 \in G /\ G \in SUBSET (0..N)
      BY <1>1
    <2>4. ASSUME NEW n \in 1..N, n - 1 \in G PROVE n \in G
      <3>1. /\ f[n - 1] \in Settings /\ order[n] \in Mods /\ shown[order[n]] \in BOOLEAN
            /\ n \in 0..N /\ n - 1 \in 0..N /\ f[n] = SetEnabledSetting(f[n - 1], order[n], shown[order[n]])
        BY <1>1, <1>2, <1>3
      <3>4. Switched(f[n], f[n - 1], order[n], shown[order[n]])
        BY <3>1, OneSwitch
      <3>2. CASE n = k
        BY <2>1, <3>1, <3>2, <3>4 DEF Switched
      <3>3. CASE n > k
        <4>1. order[n] # m /\ Done(n - 1)
          BY <1>1, <2>1, <2>4, <3>1, <3>3
        <4>2. order[n].name # m.name \/ order[n].version # m.version
          BY <1>4, <3>1, <4>1 DEF Alone, SameMod
        <4>3. CASE order[n].name # m.name
          <5>1. f[n][m.name] = f[n - 1][m.name]
            BY <2>2, <3>4, <4>3 DEF Switched
          <5>. QED
            BY <4>1, <5>1
        <4>4. CASE order[n].name = m.name /\ order[n].version # m.version
          <5>1. f[n][m.name].legacy = "none" /\ f[n][m.name].by[m.version] = f[n - 1][m.name].by[m.version]
            BY <2>2, <3>4, <4>4 DEF Switched
          <5>. QED
            BY <4>1, <5>1
        <4>. QED
          BY <4>2, <4>3, <4>4
      <3>. QED
        BY <1>1, <3>1, <3>2, <3>3
    <2> HIDE DEF G
    <2>5. G = 0..N
      BY <1>1, <2>3, <2>4, FromBelow
    <2>6. N \in 0..N /\ N >= k
      BY <1>1
    <2>7. Done(N)
      BY <2>5, <2>6 DEF G
    <2>8. shown[m] \in BOOLEAN
      OBVIOUS
    <2>. QED
      BY <2>7, <2>8 DEF IsModEnabled, Switch
  <1>5. N \in 0..N
    BY <1>1
  <1>. QED
    BY <1>2, <1>3, <1>4, <1>5

-----------------------------------------------------------------------------
(* The script manifest, as what it lists of each path.                      *)

Of(p) == {o \in ScriptBlocks : o.path = p}

\* A list is what is up to a place and what is behind it.
Splits(list, k, pre, post) ==
    /\ pre = SubSeq(list, 1, k) /\ post = SubSeq(list, k + 1, Len(list)) /\ pre \o post = list
    /\ Len(pre) = k /\ \A i \in 1..k : pre[i] = list[i]
    /\ Len(post) = Len(list) - k /\ \A i \in 1..Len(post) : post[i] = list[k + i]
LEMMA SplitAt ==
    ASSUME NEW T, NEW list \in Seq(T), NEW k \in 0..Len(list)
    PROVE  \E pre, post \in Seq(T) : Splits(list, k, pre, post)
  <1>1. Len(list) \in Nat /\ k \in Nat /\ \A i \in 1..Len(list) : list[i] \in T
    BY ElementOfSeq
  <1>2. PICK pre, post : pre = SubSeq(list, 1, k) /\ post = SubSeq(list, k + 1, Len(list))
    OBVIOUS
  <1>3. pre \in Seq(T) /\ Len(pre) = k /\ \A i \in 1..k : pre[i] = list[i]
    <2>1. 1 \in Int /\ k \in Int /\ \A i \in 1..k : list[i] \in T
      BY <1>1
    <2>2. /\ pre \in Seq(T) /\ Len(pre) = IF 1 <= k THEN k - 1 + 1 ELSE 0
          /\ \A i \in 1..k - 1 + 1 : pre[i] = list[1 + i - 1]
      BY <1>2, <2>1, SubSeqProperties
    <2>. QED
      BY <1>1, <2>2
  <1>4. post \in Seq(T) /\ Len(post) = Len(list) - k /\ \A i \in 1..Len(post) : post[i] = list[k + i]
    <2>1. k + 1 \in Int /\ Len(list) \in Int /\ \A i \in k + 1..Len(list) : list[i] \in T
      BY <1>1
    <2>2. /\ post \in Seq(T) /\ Len(post) = IF k + 1 <= Len(list) THEN Len(list) - (k + 1) + 1 ELSE 0
          /\ \A i \in 1..Len(list) - (k + 1) + 1 : post[i] = list[(k + 1) + i - 1]
      BY <1>2, <2>1, SubSeqProperties
    <2>3. Len(post) = Len(list) - k
      BY <1>1, <2>2
    <2>4. ASSUME NEW i \in 1..Len(post) PROVE post[i] = list[k + i]
      <3>1. i \in 1..Len(list) - (k + 1) + 1 /\ (k + 1) + i - 1 = k + i
        BY <1>1, <2>3
      <3>. QED
        BY <2>2, <3>1
    <2>. QED
      BY <2>2, <2>3, <2>4
  <1>5. pre \o post = list
    <2>1. 1 \in 1..Len(list) + 1 /\ k \in 1 - 1..Len(list) /\ Len(list) \in k..Len(list)
      BY <1>1
    <2>2. SubSeq(list, 1, k) \o SubSeq(list, k + 1, Len(list)) = SubSeq(list, 1, Len(list))
      BY <2>1, ConcatAdjacentSubSeq
    <2>3. SubSeq(list, 1, Len(list)) = list
      BY SubSeqFull
    <2>. QED
      BY <1>2, <2>2, <2>3, Zenon
  <1>. QED
    BY <1>2, <1>3, <1>4, <1>5 DEF Splits

LEMMA OnlyOne ==
    ASSUME NEW T, NEW x \in T, NEW S
    PROVE  <<x>> \in Seq(T) /\ Only(<<x>>, S) = IF x \in S THEN <<x>> ELSE <<>>
  <1>1. <<>> \in Seq(T) /\ <<x>> = Append(<<>>, x) /\ <<x>> \in Seq(T) /\ Only(<<>>, S) = <<>>
    BY OnlyNothing
  <1>2. Only(Append(<<>>, x), S) = Keeps(S, Only(<<>>, S), x)
    BY <1>1, OnlyOneMore
  <1>3. Only(<<x>>, S) = Keeps(S, <<>>, x)
    BY <1>1, <1>2, Zenon
  <1>4. Keeps(S, <<>>, x) = IF x \in S THEN <<x>> ELSE <<>>
    BY <1>1 DEF Keeps
  <1>. QED
    BY <1>1, <1>3, <1>4, Zenon

\* The first and the last place of a path.
LEMMA AtHas ==
    ASSUME NEW list \in Seq(ScriptBlocks), NEW p
    PROVE  /\ At(list, p) \in SUBSET (1..Len(list)) /\ Len(list) \in Nat
           /\ \A n \in 1..Len(list) : list[n] \in ScriptBlocks /\ (list[n] \in Of(p) <=> n \in At(list, p))
           /\ At(list, p) # {} =>
                /\ Min(At(list, p)) \in At(list, p) /\ \A n \in At(list, p) : Min(At(list, p)) <= n
                /\ Max(At(list, p)) \in At(list, p) /\ \A n \in At(list, p) : n <= Max(At(list, p))
  <1> DEFINE N == Len(list)
             S == At(list, p)
             B == ScriptBlocks
  <1>1. N \in Nat /\ DOMAIN list = 1..N /\ \A n \in 1..N : list[n] \in B
    <2>1. list \in Seq(B)
      OBVIOUS
    <2> HIDE DEF B
    <2>. QED
      BY <2>1, LenProperties
  <1>2. S \in SUBSET (1..N) /\ \A n \in 1..N : list[n] \in B /\ (list[n] \in Of(p) <=> n \in S)
    BY <1>1 DEF At, Of
  <1>3. ASSUME S # {}
        PROVE  (Min(S) \in S /\ \A n \in S : Min(S) <= n) /\ (Max(S) \in S /\ \A n \in S : n <= Max(S))
    <2> HIDE DEF S, N
    <2>1. \E x \in S : \A y \in S : x <= y
      <3>1. S \in SUBSET Nat
        BY <1>1, <1>2
      <3>. QED
        BY <1>3, <3>1, LeastOf
    <2>2. \E x \in S : \A y \in S : x >= y
      <3> DEFINE Left == {N - x : x \in S}
      <3>1. Left \in SUBSET Nat /\ Left # {} /\ \A y \in S : N - y \in Left /\ y \in Int /\ N \in Int
        <4>1. \A x \in S : N - x \in Nat /\ x \in Int /\ N \in Int
          BY <1>1, <1>2
        <4>. QED
          BY <1>3, <4>1
      <3>2. PICK l \in Left : \A y \in Left : l <= y
        <4> HIDE DEF Left
        <4>. QED
          BY <3>1, LeastOf
      <3>3. PICK x \in S : l = N - x
        BY <3>2
      <3>4. \A y \in S : x >= y
        <4>1. \A y \in S : l <= N - y
          BY <3>1, <3>2
        <4>. QED
          BY <3>1, <3>3, <4>1
      <3>. QED
        BY <3>4
    <2>3. Min(S) \in S /\ \A n \in S : Min(S) <= n
      BY <2>1 DEF Min
    <2>4. Max(S) \in S /\ \A n \in S : Max(S) >= n
      BY <2>2 DEF Max
    <2>. QED
      BY <1>1, <1>2, <2>3, <2>4
  <1>. QED
    BY <1>1, <1>2, <1>3

\* What a list has of a path.
View(list, p) == Only(list, Of(p))


LEMMA ViewOfBoth ==
    \A s, t \in Seq(ScriptBlocks) : \A p : View(s \o t, p) = View(s, p) \o View(t, p)
  BY OnlyOfBoth DEF View

LEMMA ViewOfOne ==
    \A b \in ScriptBlocks : \A p :
        <<b>> \in Seq(ScriptBlocks) /\ View(<<b>>, p) = IF b.path = p THEN <<b>> ELSE <<>>
  <1>1. \A b \in ScriptBlocks : \A p : b \in Of(p) <=> b.path = p
    BY DEF Of
  <1>2. \A b \in ScriptBlocks : \A p :
            <<b>> \in Seq(ScriptBlocks) /\ Only(<<b>>, Of(p)) = IF b \in Of(p) THEN <<b>> ELSE <<>>
    BY OnlyOne
  <1>. QED
    BY <1>1, <1>2, Zenon DEF View

LEMMA ViewType ==
    \A list \in Seq(ScriptBlocks) : \A p : View(list, p) \in Seq(ScriptBlocks) /\ View(list, p) \in Seq(Of(p))
  <1> SUFFICES ASSUME NEW list \in Seq(ScriptBlocks), NEW p
               PROVE  View(list, p) \in Seq(ScriptBlocks) /\ View(list, p) \in Seq(Of(p))
    OBVIOUS
  <1>1. ScriptBlocks \cap Of(p) = Of(p)
    BY DEF Of
  <1>2. Only(list, Of(p)) \in Seq(ScriptBlocks \cap Of(p)) /\ Only(list, Of(p)) \in Seq(ScriptBlocks)
    BY OnlyType
  <1>. QED
    BY <1>1, <1>2, Zenon DEF View

\* What a script put between two parts of a list makes of what they have of
\* each path.
LEMMA PutBetween ==
    \A pre, post \in Seq(ScriptBlocks), b \in ScriptBlocks :
        /\ pre \o <<b>> \in Seq(ScriptBlocks) /\ (pre \o <<b>>) \o post \in Seq(ScriptBlocks)
        /\ \A p : View((pre \o <<b>>) \o post, p)
                    = (View(pre, p) \o (IF b.path = p THEN <<b>> ELSE <<>>)) \o View(post, p)
  <1> SUFFICES ASSUME NEW pre \in Seq(ScriptBlocks), NEW post \in Seq(ScriptBlocks), NEW b \in ScriptBlocks
               PROVE  /\ pre \o <<b>> \in Seq(ScriptBlocks) /\ (pre \o <<b>>) \o post \in Seq(ScriptBlocks)
                      /\ \A p : View((pre \o <<b>>) \o post, p)
                                  = (View(pre, p) \o (IF b.path = p THEN <<b>> ELSE <<>>)) \o View(post, p)
    OBVIOUS
  <1>1. <<b>> \in Seq(ScriptBlocks) /\ \A p : View(<<b>>, p) = IF b.path = p THEN <<b>> ELSE <<>>
    BY ViewOfOne, Zenon
  <1>2. pre \o <<b>> \in Seq(ScriptBlocks) /\ (pre \o <<b>>) \o post \in Seq(ScriptBlocks)
    BY <1>1
  <1>3. \A p : View(pre \o <<b>>, p) = View(pre, p) \o View(<<b>>, p)
    BY <1>1, ViewOfBoth, Zenon
  <1>4. \A p : View((pre \o <<b>>) \o post, p) = View(pre \o <<b>>, p) \o View(post, p)
    BY <1>2, ViewOfBoth, Zenon
  <1>5. ASSUME NEW p
        PROVE  View((pre \o <<b>>) \o post, p) = (View(pre, p) \o (IF b.path = p THEN <<b>> ELSE <<>>)) \o View(post, p)
    BY <1>1, <1>3, <1>4, Zenon
  <1>. QED
    BY <1>2, <1>5

\* The list is the old one with a script of some path, and of that path has what
\* is given and the script.
PutIn(list, old, b, before) ==
    /\ list \in Seq(ScriptBlocks)
    /\ \A p : p # b.path => View(list, p) = View(old, p)
    /\ View(list, b.path) = Append(before, b)

\* Put behind a part of a list, with nothing of its path behind that.
LEMMA PutLast ==
    \A pre, post, rest \in Seq(ScriptBlocks), b \in ScriptBlocks :
        View(rest, b.path) = <<>> /\ (\A p : p # b.path => View(rest, p) = View(post, p))
            => PutIn((pre \o <<b>>) \o rest, pre \o post, b, View(pre, b.path))
  <1> SUFFICES ASSUME NEW pre \in Seq(ScriptBlocks), NEW post \in Seq(ScriptBlocks), NEW rest \in Seq(ScriptBlocks),
                      NEW b \in ScriptBlocks,
                      View(rest, b.path) = <<>>, \A p : p # b.path => View(rest, p) = View(post, p)
               PROVE  PutIn((pre \o <<b>>) \o rest, pre \o post, b, View(pre, b.path))
    OBVIOUS
  <1>1. \A p : View(pre, p) \in Seq(ScriptBlocks) /\ View(pre \o post, p) = View(pre, p) \o View(post, p)
    BY ViewType, ViewOfBoth, Zenon
  <1>2. /\ (pre \o <<b>>) \o rest \in Seq(ScriptBlocks)
        /\ \A p : View((pre \o <<b>>) \o rest, p)
                    = (View(pre, p) \o (IF b.path = p THEN <<b>> ELSE <<>>)) \o View(rest, p)
    BY PutBetween, Zenon
  <1>3. ASSUME NEW v \in Seq(ScriptBlocks)
        PROVE  v \o <<>> = v /\ (v \o <<b>>) \o <<>> = Append(v, b)
    <2>1. v \o <<b>> \in Seq(ScriptBlocks) /\ v \o <<b>> = Append(v, b)
      OBVIOUS
    <2>2. v \o <<>> = v /\ (v \o <<b>>) \o <<>> = v \o <<b>>
      BY <2>1, ConcatEmptySeq
    <2>. QED
      BY <2>1, <2>2, Zenon
  <1>4. ASSUME NEW p, p # b.path
        PROVE  View((pre \o <<b>>) \o rest, p) = View(pre \o post, p)
    <2>1. View((pre \o <<b>>) \o rest, p) = (View(pre, p) \o <<>>) \o View(rest, p)
      BY <1>2, <1>4, Zenon
    <2>2. View(pre, p) \o <<>> = View(pre, p)
      BY <1>1, <1>3, Zenon
    <2>3. View(rest, p) = View(post, p)
      BY <1>4, Zenon
    <2>. QED
      BY <1>1, <2>1, <2>2, <2>3, Zenon
  <1>5. View((pre \o <<b>>) \o rest, b.path) = Append(View(pre, b.path), b)
    <2>1. View((pre \o <<b>>) \o rest, b.path) = (View(pre, b.path) \o <<b>>) \o <<>>
      BY <1>2, Zenon
    <2>. QED
      BY <1>1, <1>3, <2>1, Zenon
  <1>. QED
    BY <1>2, <1>4, <1>5, Zenon DEF PutIn

\* What is kept of the others of a list has nothing of a path, and all of the rest.
Besides(q) == {o \in ScriptBlocks : o.path # q}
LEMMA OthersKept ==
    \A list \in Seq(ScriptBlocks) : \A q :
        /\ Only(list, Besides(q)) \in Seq(ScriptBlocks) /\ View(Only(list, Besides(q)), q) = <<>>
        /\ \A p : p # q => View(Only(list, Besides(q)), p) = View(list, p)
  <1> SUFFICES ASSUME NEW list \in Seq(ScriptBlocks), NEW q
               PROVE  /\ Only(list, Besides(q)) \in Seq(ScriptBlocks) /\ View(Only(list, Besides(q)), q) = <<>>
                      /\ \A p : p # q => View(Only(list, Besides(q)), p) = View(list, p)
    OBVIOUS
  <1>0. PICK rest, Others : Others = Besides(q) /\ rest = Only(list, Others)
    OBVIOUS
  <1>1. rest \in Seq(ScriptBlocks) /\ rest \in Seq(ScriptBlocks \cap Others)
    <2>1. /\ Only(list, Others) \in Seq(ScriptBlocks) /\ Only(list, Others) \in Seq(ScriptBlocks \cap Others)
      BY OnlyType
    <2>. QED
      BY <1>0, <2>1, Zenon
  <1>2. View(rest, q) = <<>>
    <2>1. \A n \in 1..Len(rest) : rest[n] \in ScriptBlocks \cap Others
      BY <1>1, ElementOfSeq
    <2>2. \A n \in 1..Len(rest) : rest[n] \notin Of(q)
      BY <1>0, <2>1 DEF Of, Besides
    <2>. QED
      BY <1>1, <2>2, OnlyNone DEF View
  <1>3. ASSUME NEW p, p # q PROVE View(rest, p) = View(list, p)
    <2>1. ScriptBlocks \cap Of(p) \subseteq Others
      BY <1>0, <1>3 DEF Of, Besides
    <2>2. Only(Only(list, Others), Of(p)) = Only(list, Of(p))
      BY <2>1, OnlyOfKept
    <2>. QED
      BY <1>0, <2>2, Zenon DEF View
  <1>. QED
    BY <1>0, <1>1, <1>2, <1>3, Zenon

\* What takes over from another mod's scripts of its path, and what goes behind
\* its own mod's.
TakenOver(pre, post, o, b) ==
    /\ PutIn(Append(pre, b) \o Only(post, Besides(b.path)), (pre \o <<o>>) \o post, b, <<>>)
    /\ View((pre \o <<o>>) \o post, b.path) # <<>> /\ View((pre \o <<o>>) \o post, b.path)[1] = o
LEMMA TakesOver ==
    \A pre, post \in Seq(ScriptBlocks), o, b \in ScriptBlocks :
        o.path = b.path /\ View(pre, b.path) = <<>> => TakenOver(pre, post, o, b)
  <1> SUFFICES ASSUME NEW pre \in Seq(ScriptBlocks), NEW post \in Seq(ScriptBlocks),
                      NEW o \in ScriptBlocks, NEW b \in ScriptBlocks, o.path = b.path, View(pre, b.path) = <<>>
               PROVE  TakenOver(pre, post, o, b)
    OBVIOUS
  <1>1. PICK rest : rest = Only(post, Besides(b.path))
    OBVIOUS
  <1>2. rest \in Seq(ScriptBlocks) /\ View(rest, b.path) = <<>> /\ \A q : q # b.path => View(rest, q) = View(post, q)
    BY <1>1, OthersKept, Zenon
  <1>3. PutIn((pre \o <<b>>) \o rest, pre \o post, b, View(pre, b.path))
    BY <1>2, PutLast, Zenon
  <1>4. \A q : View((pre \o <<o>>) \o post, q) = (View(pre, q) \o (IF o.path = q THEN <<o>> ELSE <<>>)) \o View(post, q)
    BY PutBetween, Zenon
  <1>5. \A q : View(pre \o post, q) = View(pre, q) \o View(post, q)
    BY ViewOfBoth, Zenon
  <1>6. \A q : View(pre, q) \in Seq(ScriptBlocks) /\ View(post, q) \in Seq(ScriptBlocks)
    BY ViewType, Zenon
  <1>7. ASSUME NEW q, q # b.path PROVE View(pre \o post, q) = View((pre \o <<o>>) \o post, q)
    <2>1. View(pre, q) \o <<>> = View(pre, q)
      BY <1>6, ConcatEmptySeq
    <2>2. View((pre \o <<o>>) \o post, q) = (View(pre, q) \o <<>>) \o View(post, q)
      BY <1>4, <1>7, Zenon
    <2>. QED
      BY <1>5, <2>1, <2>2, Zenon
  <1>8. Append(pre, b) = pre \o <<b>>
    OBVIOUS
  <1>9. PutIn(Append(pre, b) \o rest, (pre \o <<o>>) \o post, b, <<>>)
    BY <1>3, <1>7, <1>8, Zenon DEF PutIn
  <1>10. PICK v : v = View(post, b.path)
    OBVIOUS
  <1>11. v \in Seq(ScriptBlocks) /\ View((pre \o <<o>>) \o post, b.path) = (<<>> \o <<o>>) \o v
    BY <1>4, <1>6, <1>10, Zenon
  <1>12. (<<>> \o <<o>>) \o v # <<>> /\ ((<<>> \o <<o>>) \o v)[1] = o
    BY <1>11
  <1>. QED
    BY <1>1, <1>9, <1>11, <1>12, Zenon DEF TakenOver

LEMMA GoesBehind ==
    \A up, down \in Seq(ScriptBlocks), b \in ScriptBlocks :
        View(down, b.path) = <<>> =>
            PutIn((up \o <<b>>) \o down, up \o down, b, View(up \o down, b.path))
  <1> SUFFICES ASSUME NEW up \in Seq(ScriptBlocks), NEW down \in Seq(ScriptBlocks), NEW b \in ScriptBlocks,
                      View(down, b.path) = <<>>
               PROVE  PutIn((up \o <<b>>) \o down, up \o down, b, View(up \o down, b.path))
    OBVIOUS
  <1>1. PutIn((up \o <<b>>) \o down, up \o down, b, View(up, b.path))
    BY PutLast, Zenon
  <1>2. View(up \o down, b.path) = View(up, b.path) \o View(down, b.path) /\ View(up, b.path) \in Seq(ScriptBlocks)
    BY ViewOfBoth, ViewType, Zenon
  <1>3. View(up, b.path) \o <<>> = View(up, b.path)
    BY <1>2, ConcatEmptySeq
  <1>. QED
    BY <1>1, <1>2, <1>3, Zenon

\* Around the first place of a path, and around its last one.
CutAt(list, p, pre, post, up, down, o) ==
    /\ o = list[Min(At(list, p))] /\ o.path = p
    /\ pre = SubSeq(list, 1, Min(At(list, p)) - 1) /\ post = SubSeq(list, Min(At(list, p)) + 1, Len(list))
    /\ up = SubSeq(list, 1, (Max(At(list, p)) + 1) - 1) /\ down = SubSeq(list, Max(At(list, p)) + 1, Len(list))
    /\ (pre \o <<o>>) \o post = list /\ up \o down = list
    /\ View(pre, p) = <<>> /\ View(down, p) = <<>>
LEMMA CutAtPath ==
    ASSUME NEW list \in Seq(ScriptBlocks), NEW p, At(list, p) # {}
    PROVE  \E pre, post, up, down \in Seq(ScriptBlocks), o \in ScriptBlocks : CutAt(list, p, pre, post, up, down, o)
  <1>1. /\ At(list, p) \in SUBSET (1..Len(list)) /\ Len(list) \in Nat
        /\ \A n \in 1..Len(list) : list[n] \in ScriptBlocks /\ (list[n] \in Of(p) <=> n \in At(list, p))
        /\ Min(At(list, p)) \in At(list, p) /\ \A n \in At(list, p) : Min(At(list, p)) <= n
        /\ Max(At(list, p)) \in At(list, p) /\ \A n \in At(list, p) : n <= Max(At(list, p))
    BY AtHas
  <1>2. PICK low, high, S : low = Min(At(list, p)) /\ high = Max(At(list, p)) /\ S = At(list, p)
    OBVIOUS
  <1>3. /\ S \in SUBSET (1..Len(list)) /\ low \in S /\ high \in S
        /\ \A n \in S : low <= n /\ n <= high
        /\ \A n \in 1..Len(list) : list[n] \in Of(p) <=> n \in S
    BY <1>1, <1>2, Zenon
  <1>4. /\ low \in 1..Len(list) /\ high \in 1..Len(list) /\ low - 1 \in 0..Len(list) /\ high \in 0..Len(list)
        /\ low \in Int /\ high \in Int /\ (high + 1) - 1 = high
        /\ low - 1 \in 0..low /\ low \in 0..Len(list)
    BY <1>1, <1>3
  <1>5. PICK up, down \in Seq(ScriptBlocks) : Splits(list, high, up, down)
    BY <1>4, SplitAt
  <1>6. PICK first, post \in Seq(ScriptBlocks) : Splits(list, low, first, post)
    BY <1>4, SplitAt
  <1>7. PICK pre, last \in Seq(ScriptBlocks) : Splits(first, low - 1, pre, last)
    <2>1. low - 1 \in 0..Len(first)
      BY <1>4, <1>6 DEF Splits
    <2>. QED
      BY <2>1, SplitAt
  <1>8. PICK o : o = list[low]
    OBVIOUS
  <1>9. o \in ScriptBlocks /\ o \in Of(p) /\ o.path = p
    BY <1>1, <1>3, <1>4, <1>8 DEF Of
  <1>10. last = <<o>>
    <2>1. Len(first) = low /\ Len(last) = 1 /\ last[1] = first[(low - 1) + 1] /\ first[low] = list[low]
      <3>1. /\ Len(first) = low /\ Len(last) = Len(first) - (low - 1)
            /\ (\A i \in 1..low : first[i] = list[i]) /\ \A i \in 1..Len(last) : last[i] = first[(low - 1) + i]
        BY <1>6, <1>7, Zenon DEF Splits
      <3>2. low - (low - 1) = 1 /\ low \in 1..low /\ 1 \in 1..1
        BY <1>4
      <3>. QED
        BY <3>1, <3>2
    <2>2. last[1] = o /\ (low - 1) + 1 = low
      BY <1>4, <1>8, <2>1
    <2>. QED
      BY <1>7, <2>1, <2>2
  <1>11. pre = SubSeq(list, 1, low - 1)
    <2>1. pre = SubSeq(first, 1, low - 1) /\ first = SubSeq(list, 1, low)
      BY <1>6, <1>7 DEF Splits
    <2>2. PICK q, r \in Seq(ScriptBlocks) : Splits(list, low - 1, q, r)
      BY <1>4, SplitAt
    <2>3. Len(q) = low - 1 /\ Len(pre) = low - 1
      BY <1>7, <2>2 DEF Splits
    <2>4. \A i \in 1..low - 1 : q[i] = list[i] /\ pre[i] = first[i] /\ first[i] = list[i]
      <3>1. \A i \in 1..low - 1 : i \in 1..low
        BY <1>4
      <3>. QED
        BY <1>6, <1>7, <2>2, <3>1 DEF Splits
    <2>5. pre = q
      BY <2>3, <2>4, SeqEqual
    <2>. QED
      BY <2>2, <2>5, Zenon DEF Splits
  <1>12. (pre \o <<o>>) \o post = list
    BY <1>6, <1>7, <1>10, Zenon DEF Splits
  <1>13. View(pre, p) = <<>>
    <2>1. \A n \in 1..low - 1 : list[n] \notin Of(p) /\ n \in 1..low
      BY <1>1, <1>3, <1>4
    <2>2. \A n \in 1..Len(pre) : pre[n] \notin Of(p)
      BY <1>6, <1>7, <2>1 DEF Splits
    <2>. QED
      BY <2>2, OnlyNone DEF View
  <1>14. View(down, p) = <<>>
    <2>1. \A n \in 1..Len(list) - high : list[high + n] \notin Of(p)
      BY <1>1, <1>3, <1>4
    <2>2. \A n \in 1..Len(down) : down[n] \notin Of(p)
      BY <1>5, <2>1 DEF Splits
    <2>. QED
      BY <2>2, OnlyNone DEF View
  <1>15. /\ post = SubSeq(list, low + 1, Len(list)) /\ up = SubSeq(list, 1, high) /\ down = SubSeq(list, high + 1, Len(list))
         /\ up \o down = list
    BY <1>5, <1>6, Zenon DEF Splits
  <1>. QED
    BY <1>2, <1>4, <1>8, <1>9, <1>11, <1>12, <1>13, <1>14, <1>15, Zenon DEF CutAt

LEMMA AroundPath ==
    ASSUME NEW list \in Seq(ScriptBlocks), NEW b \in ScriptBlocks, At(list, b.path) # {}
    PROVE  \E o \in ScriptBlocks :
              LET S == At(list, b.path) IN
              /\ o = list[Min(S)] /\ View(list, b.path) # <<>> /\ View(list, b.path)[1] = o
              /\ PutIn(Append(SubSeq(list, 1, Min(S) - 1), b) \o Only(SubSeq(list, Min(S) + 1, Len(list)), Besides(b.path)),
                       list, b, <<>>)
              /\ PutIn((SubSeq(list, 1, (Max(S) + 1) - 1) \o <<b>>) \o SubSeq(list, Max(S) + 1, Len(list)),
                       list, b, View(list, b.path))
  <1>1. PICK pre, post, up, down \in Seq(ScriptBlocks), o \in ScriptBlocks : CutAt(list, b.path, pre, post, up, down, o)
    BY CutAtPath
  <1>2. TakenOver(pre, post, o, b)
    <2>1. o.path = b.path /\ View(pre, b.path) = <<>>
      BY <1>1, Zenon DEF CutAt
    <2>. QED
      BY <2>1, TakesOver
  <1>3. /\ PutIn(Append(pre, b) \o Only(post, Besides(b.path)), list, b, <<>>)
        /\ View(list, b.path) # <<>> /\ View(list, b.path)[1] = o
    <2>1. (pre \o <<o>>) \o post = list
      BY <1>1, Zenon DEF CutAt
    <2>. QED
      BY <1>2, <2>1, Zenon DEF TakenOver
  <1>4. PutIn((up \o <<b>>) \o down, list, b, View(list, b.path))
    <2>1. PutIn((up \o <<b>>) \o down, up \o down, b, View(up \o down, b.path))
      <3>1. View(down, b.path) = <<>>
        BY <1>1, Zenon DEF CutAt
      <3>. QED
        BY <3>1, GoesBehind
    <2>2. up \o down = list
      BY <1>1, Zenon DEF CutAt
    <2>. QED
      BY <2>1, <2>2, Zenon
  <1>. QED
    BY <1>1, <1>3, <1>4, Zenon DEF CutAt

\* What a script makes of what the list has of each path: nothing of the others';
\* of its own path it takes over from another mod, or is put behind its mod's.
LEMMA AddScriptIs ==
    ASSUME NEW list \in Seq(ScriptBlocks), NEW b \in ScriptBlocks, NormalizeRequestedPath(b.path)
    PROVE  PutIn(AddScript(list, b), list, b,
                 IF View(list, b.path) # <<>> /\ View(list, b.path)[1].mod = b.mod THEN View(list, b.path) ELSE <<>>)
  <1> DEFINE p == b.path
             S == At(list, p)
  <1>1. CASE S = {}
    <2>1. AddScript(list, b) = (list \o <<b>>) \o <<>>
      <3>1. AddScript(list, b) = Append(list, b)
        BY <1>1 DEF AddScript
      <3>2. list \o <<b>> \in Seq(ScriptBlocks) /\ list \o <<b>> = Append(list, b)
        OBVIOUS
      <3>3. (list \o <<b>>) \o <<>> = list \o <<b>>
        BY <3>2, ConcatEmptySeq
      <3>. QED
        BY <3>1, <3>2, <3>3, Zenon
    <2>2. <<>> \in Seq(ScriptBlocks) /\ (\A q : View(<<>>, q) = <<>>) /\ list \o <<>> = list
      <3>1. \A q : View(<<>>, q) = <<>>
        BY OnlyNothing, Zenon DEF View
      <3>. QED
        BY <3>1, ConcatEmptySeq
    <2>3. View(list, p) = <<>>
      <3>1. \A n \in 1..Len(list) : list[n] \notin Of(p)
        BY <1>1, AtHas
      <3>. QED
        BY <3>1, OnlyNone DEF View
    <2>4. PutIn((list \o <<b>>) \o <<>>, list \o <<>>, b, View(list, b.path))
      BY <2>2, PutLast, Zenon
    <2>. QED
      BY <2>1, <2>2, <2>3, <2>4, Zenon
  <1>2. CASE S # {}
    <2>1. PICK o \in ScriptBlocks :
              /\ o = list[Min(S)] /\ View(list, p) # <<>> /\ View(list, p)[1] = o
              /\ PutIn(Append(SubSeq(list, 1, Min(S) - 1), b) \o Only(SubSeq(list, Min(S) + 1, Len(list)), Besides(p)),
                       list, b, <<>>)
              /\ PutIn((SubSeq(list, 1, (Max(S) + 1) - 1) \o <<b>>) \o SubSeq(list, Max(S) + 1, Len(list)),
                       list, b, View(list, p))
      BY <1>2, AroundPath, Zenon
    <2>2. CASE o.mod # b.mod
      <3>1. AddScript(list, b) = Override(list, b)
        BY <1>2, <2>1, <2>2, Zenon DEF AddScript
      <3>. QED
        BY <2>1, <2>2, <3>1, Zenon DEF Override, Besides
    <2>3. CASE o.mod = b.mod
      <3>1. AddScript(list, b) = InsertAt(list, Max(S) + 1, b)
        BY <1>2, <2>1, <2>3, Zenon DEF AddScript
      <3>. QED
        BY <2>1, <2>3, <3>1, Zenon DEF InsertAt
    <2>. QED
      BY <2>2, <2>3
  <1>. QED
    BY <1>1, <1>2

LEMMA ScriptsType ==
    \A m \in Mods :
        /\ ScriptsOf(m) \in Seq(ScriptBlocks) /\ Len(ScriptsOf(m)) = Len(m.scripts) /\ Len(m.scripts) \in Nat
        /\ DOMAIN m.scripts = 1..Len(m.scripts)
        /\ \A n \in 1..Len(m.scripts) : /\ ScriptsOf(m)[n] \in ScriptBlocks
                                        /\ ScriptsOf(m)[n].path = m.scripts[n].path /\ ScriptsOf(m)[n].mod = m
  <1> SUFFICES ASSUME NEW m \in Mods
               PROVE  /\ ScriptsOf(m) \in Seq(ScriptBlocks) /\ Len(ScriptsOf(m)) = Len(m.scripts) /\ Len(m.scripts) \in Nat
                      /\ DOMAIN m.scripts = 1..Len(m.scripts)
                      /\ \A n \in 1..Len(m.scripts) : /\ ScriptsOf(m)[n] \in ScriptBlocks
                                                      /\ ScriptsOf(m)[n].path = m.scripts[n].path /\ ScriptsOf(m)[n].mod = m
    OBVIOUS
  <1>1. PICK N : N = Len(m.scripts)
    OBVIOUS
  <1>2. N \in Nat /\ DOMAIN m.scripts = 1..N
    <2>1. m.scripts \in Seq([path: Seq(STRING), when: STRING])
      BY ModSetAssumption
    <2>. QED
      BY <1>1, <2>1
  <1>3. ScriptsOf(m) = [n \in 1..N |-> Block(m, m.scripts[n])]
    BY <1>2 DEF ScriptsOf
  <1>5. ASSUME NEW n \in 1..N PROVE ScriptsOf(m)[n].path = m.scripts[n].path /\ ScriptsOf(m)[n].mod = m
    <2>1. PICK b, r : b = ScriptsOf(m)[n] /\ r = m.scripts[n]
      OBVIOUS
    <2>2. b = [path |-> r.path, when |-> r.when, mod |-> m]
      <3>1. b = Block(m, r)
        BY <1>3, <2>1
      <3>. QED
        BY <3>1 DEF Block
    <2>3. b.path = r.path /\ b.mod = m
      BY <2>2
    <2>. QED
      BY <2>1, <2>3, Zenon
  <1>6. PICK s : s = ScriptsOf(m)
    OBVIOUS
  <1>7. DOMAIN s = 1..N
    BY <1>3, <1>6
  <1>8. Range(s) \subseteq ScriptBlocks
    BY <1>6 DEF ScriptBlocks
  <1>9. \A n \in 1..N : s[n] \in ScriptBlocks
    BY <1>7, <1>8 DEF Range
  <1>10. s = [n \in 1..N |-> s[n]]
    BY <1>3, <1>6
  <1>11. s \in Seq(ScriptBlocks) /\ Len(s) = N
    BY <1>2, <1>9, <1>10
  <1>. QED
    BY <1>1, <1>2, <1>5, <1>6, <1>9, <1>11

LEMMA AddScriptType ==
    \A list \in Seq(ScriptBlocks), b \in ScriptBlocks : AddScript(list, b) \in Seq(ScriptBlocks)
  <1> SUFFICES ASSUME NEW list \in Seq(ScriptBlocks), NEW b \in ScriptBlocks
               PROVE  AddScript(list, b) \in Seq(ScriptBlocks)
    OBVIOUS
  <1>1. CASE NormalizeRequestedPath(b.path)
    <2>1. PutIn(AddScript(list, b), list, b, IF View(list, b.path) # <<>> /\ View(list, b.path)[1].mod = b.mod
                                             THEN View(list, b.path) ELSE <<>>)
      BY <1>1, AddScriptIs
    <2>. QED
      BY <2>1, Zenon DEF PutIn
  <1>2. CASE ~NormalizeRequestedPath(b.path)
    BY <1>2, Zenon DEF AddScript
  <1>. QED
    BY <1>1, <1>2

LEMMA AddScriptsThere ==
    ASSUME NEW list \in Seq(ScriptBlocks), NEW m \in Mods
    PROVE  \E f : /\ AddScripts(list, m) = f[Len(m.scripts)] /\ f[0] = list
                  /\ \A n \in 1..Len(m.scripts) : f[n] = AddScript(f[n - 1], ScriptsOf(m)[n])
                  /\ \A n \in 0..Len(m.scripts) : f[n] \in Seq(ScriptBlocks)
  <1> DEFINE N == Len(m.scripts)
             step == [n \in 1..N |-> [c \in Seq(ScriptBlocks) |-> AddScript(c, ScriptsOf(m)[n])]]
             Rec(g) == [n \in 0..N |-> IF n = 0 THEN list ELSE AddScript(g[n - 1], ScriptsOf(m)[n])]
  <1>1. N \in Nat /\ \A n \in 1..N : ScriptsOf(m)[n] \in ScriptBlocks
    BY ScriptsType
  <1>2. step \in [1..N -> [Seq(ScriptBlocks) -> Seq(ScriptBlocks)]]
    <2>1. \A n \in 1..N, c \in Seq(ScriptBlocks) : AddScript(c, ScriptsOf(m)[n]) \in Seq(ScriptBlocks)
      BY <1>1, AddScriptType
    <2>. QED
      BY <2>1
  <1>3. PICK f : Walked(Seq(ScriptBlocks), f, list, step, N)
    <2> HIDE DEF step, N
    <2>. QED
      BY <1>1, <1>2, WalkThere
  <1>4. ASSUME NEW n \in 1..N PROVE f[n] = AddScript(f[n - 1], ScriptsOf(m)[n])
    <2>1. n - 1 \in 0..N
      BY <1>1
    <2>2. f[n] = step[n][f[n - 1]] /\ f[n - 1] \in Seq(ScriptBlocks)
      BY <1>3, <2>1 DEF Walked
    <2>. QED
      BY <2>2
  <1>5. f = Rec(f)
    <2>1. ASSUME NEW n \in 0..N
          PROVE  f[n] = Rec(f)[n]
      <3>1. CASE n = 0
        BY <1>1, <1>3, <3>1 DEF Walked
      <3>2. CASE n # 0
        BY <1>1, <1>4, <3>2
      <3>. QED
        BY <3>1, <3>2
    <2>2. f = [n \in 0..N |-> f[n]]
      BY <1>3 DEF Walked
    <2>. QED
      BY <2>1, <2>2
  <1>6. PICK g : g = CHOOSE p : p = Rec(p)
    OBVIOUS
  <1>7. AddScripts(list, m) = g[N]
    BY <1>6 DEF AddScripts
  <1>8. g = Rec(g)
    <2> HIDE DEF Rec
    <2>. QED
      BY <1>5, <1>6, Zenon
  <1>9. \A n \in 0..N : g[n] = IF n = 0 THEN list ELSE AddScript(g[n - 1], ScriptsOf(m)[n])
    <2>1. \A n \in 0..N : g[n] = Rec(g)[n]
      <3> HIDE DEF Rec
      <3>. QED
        BY <1>8, Zenon
    <2>. QED
      BY <2>1
  <1> HIDE DEF Rec
  <1>10. g[0] = list /\ \A n \in 1..N : g[n] = AddScript(g[n - 1], ScriptsOf(m)[n])
    BY <1>1, <1>9
  <1>11. \A n \in 0..N : g[n] \in Seq(ScriptBlocks)
    <2> DEFINE G == {n \in 0..N : g[n] \in Seq(ScriptBlocks)}
    <2>1. 0 \in G /\ G \in SUBSET (0..N)
      BY <1>1, <1>10
    <2>2. ASSUME NEW n \in 1..N, n - 1 \in G PROVE n \in G
      <3>1. g[n - 1] \in Seq(ScriptBlocks) /\ n \in 0..N
        BY <1>1, <2>2
      <3>. QED
        BY <1>1, <1>10, <3>1, AddScriptType
    <2> HIDE DEF G
    <2>3. G = 0..N
      BY <1>1, <2>1, <2>2, FromBelow
    <2>. QED
      BY <2>3 DEF G
  <1>. QED
    BY <1>7, <1>10, <1>11

\* A mod's scripts take over every path the mod ships, and leave the others.
LEMMA AddScriptsIs ==
    ASSUME NEW list \in Seq(ScriptBlocks), NEW m \in Mods,
           \A p : View(list, p) = <<>> \/ View(list, p)[1].mod # m
    PROVE  /\ AddScripts(list, m) \in Seq(ScriptBlocks)
           /\ \A p : View(AddScripts(list, m), p) =
                       IF NormalizeRequestedPath(p) /\ View(ScriptsOf(m), p) # <<>> THEN View(ScriptsOf(m), p)
                       ELSE View(list, p)
  <1> DEFINE N == Len(m.scripts)
             own(n) == SubSeq(ScriptsOf(m), 1, n)
             Mixed(l, o, p) == IF NormalizeRequestedPath(p) /\ View(o, p) # <<>> THEN View(o, p) ELSE View(list, p)
  <1>1. PICK f : /\ AddScripts(list, m) = f[N] /\ f[0] = list
                 /\ \A n \in 1..N : f[n] = AddScript(f[n - 1], ScriptsOf(m)[n])
                 /\ \A n \in 0..N : f[n] \in Seq(ScriptBlocks)
    BY AddScriptsThere
  <1>2. /\ ScriptsOf(m) \in Seq(ScriptBlocks) /\ Len(ScriptsOf(m)) = N /\ N \in Nat
        /\ \A n \in 1..N : ScriptsOf(m)[n] \in ScriptBlocks /\ ScriptsOf(m)[n].mod = m
    BY ScriptsType
  <1> DEFINE G == {n \in 0..N : \A p : View(f[n], p) = Mixed(f[n], own(n), p)}
  <1>3. 0 \in G /\ G \in SUBSET (0..N)
    <2>1. own(0) = <<>>
      BY SubSeqEmpty
    <2>2. \A p : View(own(0), p) = <<>>
      BY <2>1, OnlyNothing, Zenon DEF View
    <2>3. 0 \in 0..N
      BY <1>2
    <2>. QED
      BY <1>1, <2>2, <2>3
  <1>4. ASSUME NEW n \in 1..N, n - 1 \in G PROVE n \in G
    <2>1. PICK b, s, o, q : b = ScriptsOf(m)[n] /\ s = f[n - 1] /\ o = own(n - 1) /\ q = own(n)
      OBVIOUS
    <2>2. b \in ScriptBlocks /\ b.mod = m /\ s \in Seq(ScriptBlocks) /\ f[n] = AddScript(s, b) /\ n \in 0..N
      BY <1>1, <1>2, <2>1
    <2>3. q = Append(o, b) /\ o \in Seq({e \in ScriptBlocks : e.mod = m}) /\ o \in Seq(ScriptBlocks)
      <3>1. own(n) = Append(own(n - 1), ScriptsOf(m)[n])
        BY <1>2
      <3>2. \A i \in 1..n - 1 : i \in 1..N
        BY <1>2
      <3>3. \A i \in 1..n - 1 : ScriptsOf(m)[i] \in {e \in ScriptBlocks : e.mod = m}
        BY <1>2, <3>2
      <3>4. 1 \in Int /\ n - 1 \in Int
        BY <1>2
      <3>5. own(n - 1) \in Seq({e \in ScriptBlocks : e.mod = m})
        BY <3>3, <3>4, SubSeqProperties
      <3>6. Seq({e \in ScriptBlocks : e.mod = m}) \subseteq Seq(ScriptBlocks)
        BY SeqMonotonic
      <3>. QED
        BY <2>1, <3>1, <3>5, <3>6
    <2>4. \A p : View(s, p) = Mixed(s, o, p)
      BY <1>4, <2>1
    <2>5. \A p : View(q, p) = IF b.path = p THEN Append(View(o, p), b) ELSE View(o, p)
      <3>1. \A p : b \in Of(p) <=> b.path = p
        BY <2>2 DEF Of
      <3>2. \A p : View(Append(o, b), p) = Keeps(Of(p), View(o, p), b)
        BY <2>2, <2>3, OnlyOneMore DEF View
      <3>. QED
        BY <2>3, <3>1, <3>2, Zenon DEF Keeps
    <2>6. \A p : View(o, p) \in Seq(ScriptBlocks) /\ (View(o, p) # <<>> => View(o, p)[1].mod = m)
      <3> SUFFICES ASSUME NEW p
                   PROVE  View(o, p) \in Seq(ScriptBlocks) /\ (View(o, p) # <<>> => View(o, p)[1].mod = m)
        OBVIOUS
      <3>1. PICK v, T : v = View(o, p) /\ T = {e \in ScriptBlocks : e.mod = m}
        OBVIOUS
      <3>2. v \in Seq(T)
        <4>1. o \in Seq(T)
          BY <2>3, <3>1
        <4>2. Only(o, Of(p)) \in Seq(T)
          BY <4>1, OnlyType
        <4>. QED
          BY <3>1, <4>2, Zenon DEF View
      <3>3. v # <<>> => v[1] \in T
        BY <3>2
      <3>4. View(o, p) \in Seq(ScriptBlocks)
        BY <2>3, ViewType
      <3>. QED
        BY <3>1, <3>3, <3>4
    <2>7. ASSUME NEW p PROVE View(AddScript(s, b), p) = Mixed(s, q, p)
      <3>1. CASE ~NormalizeRequestedPath(b.path)
        <4>1. AddScript(s, b) = s
          BY <3>1, Zenon DEF AddScript
        <4>. QED
          BY <2>4, <2>5, <3>1, <4>1, Zenon
      <3>2. CASE NormalizeRequestedPath(b.path) /\ p # b.path
        <4>1. View(AddScript(s, b), p) = View(s, p)
          <5>1. PutIn(AddScript(s, b), s, b, IF View(s, b.path) # <<>> /\ View(s, b.path)[1].mod = b.mod
                                             THEN View(s, b.path) ELSE <<>>)
            BY <2>2, <3>2, AddScriptIs
          <5>. QED
            BY <3>2, <5>1, Zenon DEF PutIn
        <4>. QED
          BY <2>4, <2>5, <3>2, <4>1, Zenon
      <3>3. CASE NormalizeRequestedPath(b.path) /\ p = b.path
        <4>1. PICK before : before = IF View(s, p) # <<>> /\ View(s, p)[1].mod = m THEN View(s, p) ELSE <<>>
          OBVIOUS
        <4>2. View(AddScript(s, b), p) = Append(before, b)
          <5>1. PutIn(AddScript(s, b), s, b, IF View(s, b.path) # <<>> /\ View(s, b.path)[1].mod = b.mod
                                             THEN View(s, b.path) ELSE <<>>)
            BY <2>2, <3>3, AddScriptIs
          <5>. QED
            BY <2>2, <3>3, <4>1, <5>1, Zenon DEF PutIn
        <4>3. before = View(o, p)
          <5>1. CASE View(o, p) # <<>>
            BY <2>4, <2>6, <3>3, <4>1, <5>1, Zenon
          <5>2. CASE View(o, p) = <<>>
            <6>1. View(s, p) = View(list, p)
              BY <2>4, <5>2, Zenon
            <6>. QED
              BY <4>1, <5>2, <6>1, Zenon
          <5>. QED
            BY <5>1, <5>2
        <4>4. View(q, p) = Append(View(o, p), b)
          BY <2>5, <3>3, Zenon
        <4>5. Append(View(o, p), b) # <<>>
          BY <2>2, <2>6
        <4>. QED
          BY <3>3, <4>2, <4>3, <4>4, <4>5, Zenon
      <3>. QED
        BY <3>1, <3>2, <3>3
    <2> HIDE DEF own
    <2>. QED
      BY <2>1, <2>2, <2>7
  <1>5. G = 0..N
    <2> HIDE DEF G, N
    <2>. QED
      BY <1>2, <1>3, <1>4, FromBelow
  <1>6. N \in G /\ N \in 0..N
    <2>1. N \in 0..N
      BY <1>2
    <2> HIDE DEF G, N
    <2>. QED
      BY <1>5, <2>1
  <1>7. own(N) = ScriptsOf(m)
    BY <1>2, SubSeqFull
  <1>8. \A p : View(f[N], p) = Mixed(f[N], own(N), p)
    <2> HIDE DEF own, Mixed, N
    <2>. QED
      BY <1>6
  <1>. QED
    BY <1>1, <1>6, <1>7, <1>8, Zenon

LEMMA ManifestThere ==
    ASSUME NEW mods \in Seq(Mods)
    PROVE  \E f : /\ Manifest(mods) = f[Len(mods)] /\ f[0] = <<>>
                  /\ \A n \in 1..Len(mods) : f[n] = AddScripts(f[n - 1], mods[n])
  <1> DEFINE N == Len(mods)
             C == Seq(ScriptBlocks)
             step == [n \in 1..N |-> [c \in C |-> AddScripts(c, mods[n])]]
             Rec(g) == [n \in 0..N |-> IF n = 0 THEN <<>> ELSE AddScripts(g[n - 1], mods[n])]
  <1>1. N \in Nat /\ <<>> \in C /\ \A n \in 1..N : mods[n] \in Mods
    BY ElementOfSeq
  <1>2. step \in [1..N -> [C -> C]]
    <2>1. ASSUME NEW n \in 1..N, NEW c \in C PROVE AddScripts(c, mods[n]) \in C
      <3>1. PICK m \in Mods : m = mods[n]
        BY <1>1
      <3>2. PICK f : /\ AddScripts(c, m) = f[Len(m.scripts)] /\ f[0] = c
                     /\ \A i \in 1..Len(m.scripts) : f[i] = AddScript(f[i - 1], ScriptsOf(m)[i])
                     /\ \A i \in 0..Len(m.scripts) : f[i] \in Seq(ScriptBlocks)
        BY AddScriptsThere
      <3>3. Len(m.scripts) \in 0..Len(m.scripts)
        <4>1. Len(m.scripts) \in Nat
          BY ScriptsType
        <4>. QED
          BY <4>1
      <3>. QED
        BY <3>1, <3>2, <3>3, Zenon
    <2> HIDE DEF C
    <2>. QED
      BY <2>1
  <1>3. PICK f : Walked(C, f, <<>>, step, N)
    <2> HIDE DEF step, N, C
    <2>. QED
      BY <1>1, <1>2, WalkThere
  <1>4. ASSUME NEW n \in 1..N PROVE f[n] = AddScripts(f[n - 1], mods[n])
    <2>1. n - 1 \in 0..N
      BY <1>1
    <2>2. f[n] = step[n][f[n - 1]] /\ f[n - 1] \in C
      BY <1>3, <2>1 DEF Walked
    <2> HIDE DEF C
    <2>. QED
      BY <2>2
  <1>5. f = Rec(f)
    <2>1. ASSUME NEW n \in 0..N
          PROVE  f[n] = Rec(f)[n]
      <3>1. CASE n = 0
        BY <1>1, <1>3, <3>1 DEF Walked
      <3>2. CASE n # 0
        BY <1>1, <1>4, <3>2
      <3>. QED
        BY <3>1, <3>2
    <2>2. f = [n \in 0..N |-> f[n]]
      BY <1>3 DEF Walked
    <2>. QED
      BY <2>1, <2>2
  <1>6. PICK g : g = CHOOSE p : p = Rec(p)
    OBVIOUS
  <1>7. Manifest(mods) = g[N]
    BY <1>6 DEF Manifest
  <1>8. g = Rec(g)
    <2> HIDE DEF Rec
    <2>. QED
      BY <1>5, <1>6, Zenon
  <1>9. \A n \in 0..N : g[n] = IF n = 0 THEN <<>> ELSE AddScripts(g[n - 1], mods[n])
    <2>1. \A n \in 0..N : g[n] = Rec(g)[n]
      <3> HIDE DEF Rec
      <3>. QED
        BY <1>8, Zenon
    <2>. QED
      BY <2>1
  <1> HIDE DEF Rec
  <1>10. g[0] = <<>> /\ \A n \in 1..N : g[n] = AddScripts(g[n - 1], mods[n])
    BY <1>1, <1>9
  <1>. QED
    BY <1>7, <1>10

\* What the manifest has of a path is what the last mod that ships it has of it,
\* unless it is no path of a file.
LastShips(mods, n, p, view) ==
    /\ NormalizeRequestedPath(p)
    /\ \E k \in 1..n : /\ view = View(ScriptsOf(mods[k]), p) /\ Ships(mods[k], p)
                       /\ \A j \in 1..n : Ships(mods[j], p) => j <= k

LEMMA ShipsIs ==
    \A m \in Mods : \A p : /\ Ships(m, p) <=> View(ScriptsOf(m), p) # <<>>
                           /\ View(ScriptsOf(m), p) # <<>> => View(ScriptsOf(m), p)[1].mod = m
                           /\ \A i \in 1..Len(View(ScriptsOf(m), p)) : View(ScriptsOf(m), p)[i].mod = m
  <1> SUFFICES ASSUME NEW m \in Mods, NEW p
               PROVE  /\ Ships(m, p) <=> View(ScriptsOf(m), p) # <<>>
                      /\ View(ScriptsOf(m), p) # <<>> => View(ScriptsOf(m), p)[1].mod = m
                      /\ \A i \in 1..Len(View(ScriptsOf(m), p)) : View(ScriptsOf(m), p)[i].mod = m
    OBVIOUS
  <1>1. PICK s, v, T : s = ScriptsOf(m) /\ v = View(s, p) /\ T = {e \in ScriptBlocks : e.mod = m}
    OBVIOUS
  <1>2. /\ s \in Seq(ScriptBlocks) /\ Len(s) = Len(m.scripts) /\ Len(s) \in Nat
        /\ DOMAIN m.scripts = 1..Len(s)
        /\ \A n \in 1..Len(s) : s[n] \in ScriptBlocks /\ s[n].path = m.scripts[n].path /\ s[n].mod = m
    BY <1>1, ScriptsType
  <1>3. Ships(m, p) <=> \E n \in 1..Len(s) : s[n] \in Of(p)
    BY <1>2 DEF Ships, Of
  <1>4. s \in Seq(T)
    <2>1. \A n \in 1..Len(s) : s[n] \in T
      BY <1>1, <1>2
    <2>. QED
      BY <1>2, <2>1, LenProperties
  <1>5. v \in Seq(T)
    <2>1. Only(s, Of(p)) \in Seq(T)
      BY <1>4, OnlyType
    <2>. QED
      BY <1>1, <2>1, Zenon DEF View
  <1>6. (\E n \in 1..Len(s) : s[n] \in Of(p)) <=> v # <<>>
    <2>1. ASSUME NEW n \in 1..Len(s), s[n] \in Of(p) PROVE v # <<>>
      <3>1. \E k \in 1..Len(Only(s, Of(p))) : Only(s, Of(p))[k] = s[n]
        BY <1>2, <2>1, OnlyHas
      <3>2. \E k \in 1..Len(v) : v[k] = s[n]
        BY <1>1, <3>1, Zenon DEF View
      <3>. QED
        BY <1>5, <3>2
    <2>2. ASSUME \A n \in 1..Len(s) : s[n] \notin Of(p) PROVE v = <<>>
      <3>1. Only(s, Of(p)) = <<>>
        BY <1>2, <2>2, OnlyNone
      <3>. QED
        BY <1>1, <3>1, Zenon DEF View
    <2>. QED
      BY <2>1, <2>2
  <1>7. (v # <<>> => v[1].mod = m) /\ \A i \in 1..Len(v) : v[i].mod = m
    <2>1. \A i \in 1..Len(v) : v[i] \in T
      BY <1>5
    <2>2. v # <<>> => 1 \in 1..Len(v)
      BY <1>5
    <2>. QED
      BY <1>1, <2>1, <2>2
  <1>. QED
    BY <1>1, <1>3, <1>6, <1>7, Zenon

LEMMA ManifestIs ==
    ASSUME NEW mods, OneEach(mods)
    PROVE  /\ Manifest(mods) \in Seq(ScriptBlocks)
           /\ \A p : View(Manifest(mods), p) = <<>> \/ LastShips(mods, Len(mods), p, View(Manifest(mods), p))
  <1> DEFINE N == Len(mods)
  <1>1. /\ N \in Nat /\ \A n \in 1..N : mods[n] \in Mods
        /\ \A k, n \in 1..N : k # n => mods[k] # mods[n]
    BY ElementOfSeq DEF OneEach
  <1>2. PICK f : /\ Manifest(mods) = f[N] /\ f[0] = <<>>
                 /\ \A n \in 1..N : f[n] = AddScripts(f[n - 1], mods[n])
    BY ManifestThere DEF OneEach
  <1> DEFINE Fine(n) == /\ f[n] \in Seq(ScriptBlocks)
                        /\ \A p : View(f[n], p) = <<>> \/ LastShips(mods, n, p, View(f[n], p))
             G == {n \in 0..N : Fine(n)}
  <1> HIDE DEF N
  <1>3. 0 \in G /\ G \in SUBSET (0..N)
    <2>1. f[0] \in Seq(ScriptBlocks)
      <3>1. <<>> \in Seq(ScriptBlocks)
        OBVIOUS
      <3>. QED
        BY <1>2, <3>1, Zenon
    <2>2. \A p : View(f[0], p) = <<>>
      BY <1>2, OnlyNothing, Zenon DEF View
    <2>3. 0 \in 0..N
      BY <1>1
    <2>. QED
      BY <2>1, <2>2, <2>3
  <1>4. ASSUME NEW n \in 1..N, n - 1 \in G PROVE n \in G
    <2>1. PICK s, m : s = f[n - 1] /\ m = mods[n]
      OBVIOUS
    <2>2. /\ s \in Seq(ScriptBlocks) /\ m \in Mods /\ f[n] = AddScripts(s, m)
          /\ \A p : View(s, p) = <<>> \/ LastShips(mods, n - 1, p, View(s, p))
      BY <1>1, <1>2, <1>4, <2>1
    <2>3. n \in 0..N /\ n \in 1..n /\ (\A k \in 1..n - 1 : k \in 1..N /\ k \in 1..n /\ k # n /\ k <= n)
          /\ \A j \in 1..n : (j = n \/ j \in 1..n - 1) /\ j <= n
      BY <1>1
    <2>4. \A p : View(s, p) = <<>> \/ View(s, p)[1].mod # m
      <3> SUFFICES ASSUME NEW p, LastShips(mods, n - 1, p, View(s, p)) PROVE View(s, p)[1].mod # m
        BY <2>2
      <3>1. PICK k \in 1..n - 1 : View(s, p) = View(ScriptsOf(mods[k]), p) /\ Ships(mods[k], p)
        BY DEF LastShips
      <3>2. mods[k] \in Mods /\ mods[k] # m
        BY <1>1, <2>1, <2>3
      <3>3. View(ScriptsOf(mods[k]), p)[1].mod = mods[k]
        BY <3>1, <3>2, ShipsIs, Zenon
      <3>. QED
        BY <3>1, <3>2, <3>3, Zenon
    <2>5. /\ AddScripts(s, m) \in Seq(ScriptBlocks)
          /\ \A p : View(AddScripts(s, m), p) =
                       IF NormalizeRequestedPath(p) /\ View(ScriptsOf(m), p) # <<>> THEN View(ScriptsOf(m), p)
                       ELSE View(s, p)
      BY <2>2, <2>4, AddScriptsIs
    <2>6. ASSUME NEW p PROVE View(f[n], p) = <<>> \/ LastShips(mods, n, p, View(f[n], p))
      <3>1. CASE NormalizeRequestedPath(p) /\ View(ScriptsOf(m), p) # <<>>
        <4>1. View(f[n], p) = View(ScriptsOf(m), p)
          BY <2>2, <2>5, <3>1, Zenon
        <4>2. Ships(m, p)
          BY <2>2, <3>1, ShipsIs, Zenon
        <4>. QED
          BY <2>1, <2>3, <3>1, <4>1, <4>2, Zenon DEF LastShips
      <3>2. CASE View(ScriptsOf(m), p) = <<>>
        <4>1. View(f[n], p) = View(s, p)
          BY <2>2, <2>5, <3>2, Zenon
        <4>2. ~Ships(mods[n], p)
          BY <2>1, <2>2, <3>2, ShipsIs, Zenon
        <4>3. LastShips(mods, n - 1, p, View(s, p)) => LastShips(mods, n, p, View(s, p))
          BY <2>3, <4>2, Zenon DEF LastShips
        <4>. QED
          BY <2>2, <4>1, <4>3, Zenon
      <3>3. CASE ~NormalizeRequestedPath(p)
        <4>1. View(f[n], p) = View(s, p) /\ View(s, p) = <<>>
          BY <2>2, <2>5, <3>3, Zenon DEF LastShips
        <4>. QED
          BY <4>1
      <3>. QED
        BY <3>1, <3>2, <3>3
    <2>7. Fine(n)
      BY <2>2, <2>5, <2>6, Zenon
    <2>. QED
      BY <2>3, <2>7
  <1>5. G = 0..N
    <2> HIDE DEF G
    <2>. QED
      BY <1>1, <1>3, <1>4, FromBelow
  <1>6. Fine(N)
    <2>1. N \in 0..N
      BY <1>1
    <2>2. N \in G
      BY <1>5, <2>1, Zenon
    <2>. QED
      BY <2>2
  <1>. QED
    BY <1>2, <1>6, Zenon DEF N

LEMMA ManifestAgrees ==
    ASSUME OneEach(manifest.mods), manifest.blocks = Manifest(manifest.mods)
    PROVE  ManifestAgreesWithOverlay
  <1>1. PICK mods, list : mods = manifest.mods /\ list = manifest.blocks
    OBVIOUS
  <1>2. OneEach(mods) /\ list = Manifest(mods)
    BY <1>1
  <1>3. /\ list \in Seq(ScriptBlocks)
        /\ \A p : View(list, p) = <<>> \/ LastShips(mods, Len(mods), p, View(list, p))
    BY <1>2, ManifestIs, Zenon
  <1>4. ASSUME NEW b \in Range(list)
        PROVE  b.mod = mods[Max(Shipping(mods, b.path))] /\ View(list, b.path) = View(ScriptsOf(b.mod), b.path)
    <2>1. PICK i \in 1..Len(list) : b = list[i]
      <3>1. DOMAIN list = 1..Len(list)
        BY <1>3
      <3>. QED
        BY <3>1 DEF Range
    <2>2. b \in ScriptBlocks /\ b \in Of(b.path)
      BY <1>3, <2>1, ElementOfSeq DEF Of
    <2>3. PICK v : v = View(list, b.path)
      OBVIOUS
    <2>4. \E n \in 1..Len(v) : v[n] = b
      <3>1. \E n \in 1..Len(Only(list, Of(b.path))) : Only(list, Of(b.path))[n] = list[i]
        BY <1>3, <2>1, <2>2, OnlyHas
      <3>. QED
        BY <2>1, <2>3, <3>1, Zenon DEF View
    <2>5. v # <<>>
      <3>1. v \in Seq(ScriptBlocks)
        BY <1>3, <2>3, ViewType
      <3>. QED
        BY <2>4, <3>1
    <2>6. PICK k \in 1..Len(mods) : /\ v = View(ScriptsOf(mods[k]), b.path) /\ Ships(mods[k], b.path)
                                    /\ \A j \in 1..Len(mods) : Ships(mods[j], b.path) => j <= k
      BY <1>3, <2>3, <2>5 DEF LastShips
    <2>7. mods[k] \in Mods /\ DOMAIN mods = 1..Len(mods) /\ Len(mods) \in Nat
      BY <1>2, ElementOfSeq DEF OneEach
    <2>8. b.mod = mods[k]
      BY <2>4, <2>6, <2>7, ShipsIs
    <2>9. PICK S : S = Shipping(mods, b.path)
      OBVIOUS
    <2>10. k \in S /\ S \in SUBSET (1..Len(mods)) /\ \A j \in S : k >= j
      BY <2>6, <2>7, <2>9 DEF Shipping
    <2>11. Max(S) \in S /\ \A j \in S : Max(S) >= j
      BY <2>10 DEF Max
    <2>12. Max(S) = k
      <3>1. PICK x : x = Max(S)
        OBVIOUS
      <3>2. x \in S /\ x >= k /\ k >= x
        BY <2>10, <2>11, <3>1
      <3>3. x \in Int /\ k \in Int
        BY <2>10, <3>2
      <3>. QED
        BY <3>1, <3>2, <3>3
    <2>. QED
      BY <2>3, <2>6, <2>8, <2>9, <2>12, Zenon
  <1>5. ASSUME NEW b \in Range(list)
        PROVE  Only(list, {o \in ScriptBlocks : o.path = b.path})
                 = Only(ScriptsOf(b.mod), {o \in ScriptBlocks : o.path = b.path})
    BY <1>4, Zenon DEF View, Of
  <1>. QED
    BY <1>1, <1>4, <1>5, Zenon DEF ManifestAgreesWithOverlay

-----------------------------------------------------------------------------
(* The types, and that each name is loaded once.                            *)

\* What is collected has each name once, so the archives are no more than the
\* mods, and the manifest is the one of the mods it was built from.
SetInv ==
    /\ ModSetTypeOK
    /\ OneEach(overlay) /\ OneEach(manifest.mods) /\ (reader.pc = "write" => OneEach(reader.mods))
    /\ Len(vpks) <= Cardinality(Mods)
    /\ reader = [pc |-> reader.pc, mods |-> reader.mods, n |-> reader.n]

LEMMA NoModsAreOneEach == OneEach(NoMods) /\ Manifest(NoMods) = <<>>
  <1>1. NoMods \in Seq(Mods) /\ Len(NoMods) = 0 /\ 0 <= Cardinality(Mods) /\ Cardinality(Mods) \in Nat
    BY ModSetAssumption, FS_CardinalityType DEF NoMods
  <1>2. OneEach(NoMods)
    BY <1>1 DEF OneEach
  <1>3. PICK f : Manifest(NoMods) = f[Len(NoMods)] /\ f[0] = <<>>
    BY <1>1, ManifestThere
  <1>. QED
    BY <1>1, <1>2, <1>3

LEMMA SetInvInit ==
    ASSUME ModSetInit
    PROVE  SetInv
  <1>1. OneEach(overlay) /\ vpks \in Seq(Mods) /\ Len(vpks) <= Cardinality(Mods)
    BY EnabledAreOneEach, ArchivesType, Zenon DEF ModSetInit
  <1>2. overlay \in Seq(Mods)
    BY <1>1 DEF OneEach
  <1>3. manifest.mods = NoMods /\ manifest.blocks = <<>> /\ NoMods \in Seq(Mods)
    BY DEF ModSetInit, NoMods
  <1>4. OneEach(manifest.mods) /\ manifest.blocks = Manifest(manifest.mods)
    BY <1>3, NoModsAreOneEach, Zenon
  <1>5. Nowhere.pc = "idle" /\ Nowhere.mods = NoMods /\ Nowhere.n = 1
        /\ Nowhere = [pc |-> Nowhere.pc, mods |-> Nowhere.mods, n |-> Nowhere.n]
    BY DEF Nowhere
  <1>6. 1 \in 1..Cardinality(Mods) + 1 /\ 0 \in 0..MaxToggles
    BY ModSetAssumption, FS_CardinalityType
  <1>7. settings \in Settings /\ asked \in [Mods -> {"no", "on", "off"}]
    BY ModSetAssumption DEF ModSetInit
  <1>8. /\ reloaded \in BOOLEAN /\ generated \in BOOLEAN /\ raced \in BOOLEAN /\ toggles \in 0..MaxToggles
        /\ mounting = "free" /\ ui = "idle" /\ reader = Nowhere /\ catalog = NotReady
    BY <1>6 DEF ModSetInit
  <1>9. reader.pc = "idle" /\ reader.mods \in Seq(Mods) /\ reader.n \in 1..Cardinality(Mods) + 1
        /\ reader = [pc |-> reader.pc, mods |-> reader.mods, n |-> reader.n]
    BY <1>3, <1>5, <1>6, <1>8
  <1>10. manifest.mods \in Seq(Mods)
    BY <1>3
  <1>11. ModSetTypeOK
    BY <1>1, <1>2, <1>4, <1>7, <1>8, <1>9, <1>10 DEF ModSetTypeOK
  <1>. QED
    BY <1>1, <1>4, <1>9, <1>11 DEF SetInv

LEMMA CatalogType ==
    ASSUME catalog = NotReady \/ catalog \in [Mods -> BOOLEAN]
    PROVE  LoadCatalog \in [Mods -> BOOLEAN]
  <1>1. \A m \in Mods : ModEnabledNow(m) \in BOOLEAN
    BY DEF ModEnabledNow, IsModEnabled
  <1>2. [m \in Mods |-> ModEnabledNow(m)] \in [Mods -> BOOLEAN]
    BY <1>1
  <1>. QED
    BY <1>2, Zenon DEF LoadCatalog

LEMMA SetInvStep ==
    ASSUME SetInv, ModSetNext
    PROVE  SetInv'
  <1>1. PICK C : C = Cardinality(Mods) /\ C \in Nat
    BY ModSetAssumption, FS_CardinalityType
  <1> DEFINE Shape(r) == r = [pc |-> r.pc, mods |-> r.mods, n |-> r.n]
             Typed(r) == /\ Shape(r) /\ r.pc \in {"idle", "mount", "ask", "build", "write", "built"}
                         /\ r.mods \in Seq(Mods) /\ r.n \in 1..C + 1 /\ (r.pc = "write" => OneEach(r.mods))
             Menus == settings \in Settings /\ (catalog = NotReady \/ catalog \in [Mods -> BOOLEAN])
                      /\ asked \in [Mods -> {"no", "on", "off"}] /\ toggles \in 0..MaxToggles
             Flags == /\ reloaded \in BOOLEAN /\ generated \in BOOLEAN /\ raced \in BOOLEAN
                      /\ mounting \in {"free", "ui", "reader"}
                      /\ ui \in {"idle", "saved", "overlaid", "reset", "locked", "cleared", "listed"}
             Lists == OneEach(overlay) /\ vpks \in Seq(Mods) /\ Len(vpks) <= C
             Built == manifest.blocks = Manifest(manifest.mods) /\ OneEach(manifest.mods)
  <1>2. SetInv <=> Typed(reader) /\ Menus /\ Flags /\ Lists /\ Built
    BY <1>1 DEF SetInv, ModSetTypeOK, OneEach
  <1>3. SetInv' <=> Typed(reader') /\ Menus' /\ Flags' /\ Lists' /\ Built'
    BY <1>1 DEF SetInv, ModSetTypeOK, OneEach
  <1>4. Typed(reader) /\ Menus /\ Flags /\ Lists /\ Built
    BY <1>2
  <1>5. Typed(Nowhere) /\ Typed([Nowhere EXCEPT !.pc = "ask"])
    BY <1>1 DEF Nowhere, NoMods
  <1> HIDE DEF Typed, Lists, Built
  <1>6. SUFFICES Typed(reader') /\ Menus' /\ Flags' /\ Lists' /\ Built'
    BY <1>3
  <1>7. UNCHANGED <<settings, catalog, asked, toggles>> => Menus'
    BY <1>4
  <1>8. UNCHANGED <<overlay, vpks>> => Lists'
    BY <1>4 DEF Lists
  <1>9. UNCHANGED manifest => Built'
    BY <1>4 DEF Built
  <1>10. UNCHANGED reader => Typed(reader')
    BY <1>4
  <1>11. OneEach(CollectModNames) /\ Archives(CollectModNames) \in Seq(Mods) /\ Len(Archives(CollectModNames)) <= C
    BY <1>1, EnabledAreOneEach, ArchivesType, Zenon
  <1>12. CASE Restart
    <2>1. /\ OneEach(overlay') /\ vpks' = Archives(overlay') /\ UNCHANGED <<settings, manifest, raced>>
          /\ reloaded' = FALSE /\ catalog' = NotReady /\ generated' = FALSE /\ mounting' = "free" /\ ui' = "idle"
          /\ reader' = Nowhere /\ asked' = [m \in Mods |-> "no"] /\ toggles < MaxToggles /\ toggles' = toggles + 1
      <3>1. OneEach(InOrder(OnlyCopies({m \in Mods : ~m.remote /\ IsModEnabled(settings, m)})))
        BY EnabledAreOneEach, Zenon
      <3>. QED
        BY <1>12, <3>1, Zenon DEF Restart, Booted
    <2>2. vpks' \in Seq(Mods) /\ Len(vpks') <= C
      BY <1>1, <2>1, ArchivesType, Zenon
    <2>3. toggles' \in 0..MaxToggles /\ asked' \in [Mods -> {"no", "on", "off"}]
      BY <1>4, <2>1, ModSetAssumption
    <2>. QED
      BY <1>4, <1>5, <1>9, <2>1, <2>2, <2>3 DEF Lists
  <1>13. ASSUME NEW m \in Mods, NEW on \in BOOLEAN, SetEnabled(m, on)
         PROVE  Typed(reader') /\ Menus' /\ Flags' /\ Lists' /\ Built'
    <2>1. /\ toggles < MaxToggles /\ toggles' = toggles + 1 /\ catalog' = [LoadCatalog EXCEPT ![FirstOf(m)] = on]
          /\ asked' = [asked EXCEPT ![m] = IF on THEN "on" ELSE "off"]
          /\ UNCHANGED <<settings, reloaded, overlay, generated, manifest, vpks, mounting, ui, reader, raced>>
      BY <1>13 DEF SetEnabled
    <2>2. catalog' \in [Mods -> BOOLEAN]
      <3>1. LoadCatalog \in [Mods -> BOOLEAN]
        BY <1>4, CatalogType
      <3>. QED
        BY <2>1, <3>1
    <2>3. asked' \in [Mods -> {"no", "on", "off"}] /\ toggles' \in 0..MaxToggles
      BY <1>4, <2>1, ModSetAssumption
    <2>. QED
      BY <1>4, <1>8, <1>9, <1>10, <2>1, <2>2, <2>3
  <1>14. ASSUME NEW commits \in BOOLEAN, ReloadMods(commits)
         PROVE  Typed(reader') /\ Menus' /\ Flags' /\ Lists' /\ Built'
    <2>1. /\ catalog' = LoadCatalog
          /\ \/ settings' = Written(settings, catalog') /\ ui' = "saved"
             \/ UNCHANGED <<settings, ui>>
          /\ UNCHANGED <<reloaded, overlay, generated, manifest, vpks, mounting, reader, asked, raced, toggles>>
      BY <1>14 DEF ReloadMods
    <2>2. LoadCatalog \in [Mods -> BOOLEAN]
      BY <1>4, CatalogType
    <2>3. Written(settings, LoadCatalog) \in Settings
      BY <1>4, <2>2, WrittenIs
    <2>4. settings' \in Settings
      BY <1>4, <2>1, <2>3, Zenon
    <2>. QED
      BY <1>4, <1>8, <1>9, <1>10, <2>1, <2>2, <2>4
  <1>15. CASE ReloadSwitchesOn
    BY <1>4, <1>7, <1>8, <1>9, <1>10, <1>15 DEF ReloadSwitchesOn, UiStep
  <1>16. CASE ReloadOverlay
    <2>1. overlay' = CollectModNames /\ UNCHANGED vpks
      BY <1>16 DEF ReloadOverlay
    <2>2. Lists'
      BY <1>4, <1>11, <2>1, Zenon DEF Lists
    <2>. QED
      BY <1>4, <1>7, <1>9, <1>10, <1>16, <2>2 DEF ReloadOverlay, UiStep
  <1>17. CASE ReloadManifest
    BY <1>4, <1>7, <1>8, <1>9, <1>10, <1>17 DEF ReloadManifest, UiStep, ResetManifest
  <1>18. CASE ReloadLocksVpks
    <2>1. vpks' = <<>> /\ UNCHANGED overlay
      BY <1>18 DEF ReloadLocksVpks
    <2>2. Lists'
      <3>1. <<>> \in Seq(Mods) /\ Len(<<>>) <= C
        BY <1>1
      <3>. QED
        BY <1>4, <2>1, <3>1, Zenon DEF Lists
    <2>. QED
      BY <1>4, <1>7, <1>9, <1>10, <1>18, <2>2 DEF ReloadLocksVpks, UiStep, MountsNothing
  <1>19. CASE DiscoverModVpks
    <2>1. vpks' = Archives(CollectModNames) /\ UNCHANGED overlay
      BY <1>19 DEF DiscoverModVpks
    <2>2. Lists'
      BY <1>4, <1>11, <2>1, Zenon DEF Lists
    <2>. QED
      BY <1>4, <1>7, <1>9, <1>10, <1>19, <2>2 DEF DiscoverModVpks, UiStep
  <1>20. CASE ReloadDone
    BY <1>4, <1>8, <1>9, <1>10, <1>20 DEF ReloadDone, UiStep
  <1>21. CASE OpenManifest
    <2>1. Typed([Nowhere EXCEPT !.pc = "mount", !.mods = vpks])
      <3>1. PICK r : r = [Nowhere EXCEPT !.pc = "mount", !.mods = vpks]
        OBVIOUS
      <3>2. r.pc = "mount" /\ r.mods = vpks /\ r.n = 1 /\ r = [pc |-> r.pc, mods |-> r.mods, n |-> r.n]
        BY <3>1 DEF Nowhere
      <3>3. vpks \in Seq(Mods) /\ 1 \in 1..C + 1
        BY <1>1, <1>4 DEF Lists
      <3>4. Typed(r)
        BY <3>2, <3>3 DEF Typed
      <3>. QED
        BY <3>1, <3>4, Zenon
    <2>2. Typed(reader') /\ mounting' \in {"free", "ui", "reader"}
      BY <1>4, <1>5, <1>21, <2>1 DEF OpenManifest
    <2>. QED
      BY <1>4, <1>7, <1>8, <1>9, <1>21, <2>2 DEF OpenManifest
  <1>22. CASE MountVpk
    <2>1. Typed(reader')
      <3>1. reader' = [reader EXCEPT !.n = reader.n + 1] /\ reader.n <= Len(vpks) /\ Len(vpks) <= C
        BY <1>4, <1>22 DEF MountVpk, Lists
      <3>2. Len(vpks) \in Nat
        BY <1>4 DEF Lists
      <3>3. reader.n \in 1..C + 1 /\ reader.n + 1 \in 1..C + 1
        BY <1>1, <1>4, <3>1, <3>2 DEF Typed
      <3>. QED
        BY <1>4, <3>1, <3>3 DEF Typed
    <2>. QED
      BY <1>4, <1>7, <1>8, <1>9, <1>22, <2>1 DEF MountVpk
  <1>23. CASE MountEnds
    BY <1>4, <1>5, <1>7, <1>8, <1>9, <1>23 DEF MountEnds
  <1>24. CASE AskManifest
    <2>1. Typed(reader')
      BY <1>4, <1>24 DEF AskManifest, Typed
    <2>. QED
      BY <1>4, <1>7, <1>8, <1>9, <1>24, <2>1 DEF AskManifest
  <1>25. CASE BuildCollects
    <2>1. Typed(reader')
      <3>1. reader' = [reader EXCEPT !.pc = "write", !.mods = CollectModNames]
        BY <1>25 DEF BuildCollects
      <3>2. PICK l : l = CollectModNames
        OBVIOUS
      <3>3. OneEach(l) /\ l \in Seq(Mods)
        BY <1>11, <3>2 DEF OneEach
      <3>. QED
        BY <1>4, <3>1, <3>2, <3>3 DEF Typed
    <2>. QED
      BY <1>4, <1>7, <1>8, <1>9, <1>25, <2>1 DEF BuildCollects
  <1>26. ASSUME NEW ok \in BOOLEAN, BuildWrites(ok)
         PROVE  Typed(reader') /\ Menus' /\ Flags' /\ Lists' /\ Built'
    <2>1. /\ reader.pc = "write"
          /\ \/ /\ manifest' = [mods |-> reader.mods, blocks |-> Manifest(reader.mods)]
                /\ reader' = [reader EXCEPT !.pc = "built"]
             \/ reader' = Nowhere /\ UNCHANGED manifest
          /\ UNCHANGED <<settings, reloaded, catalog, overlay, generated, vpks, mounting, ui, asked, raced, toggles>>
      BY <1>26 DEF BuildWrites, ReaderStep
    <2>2. Typed(reader')
      BY <1>4, <1>5, <2>1 DEF Typed
    <2>3. Built'
      <3>1. OneEach(reader.mods)
        BY <1>4, <2>1 DEF Typed
      <3>2. manifest' = [mods |-> reader.mods, blocks |-> Manifest(reader.mods)] =>
              manifest'.mods = reader.mods /\ manifest'.blocks = Manifest(reader.mods)
        OBVIOUS
      <3>. QED
        BY <1>9, <2>1, <3>1, <3>2, Zenon DEF Built
    <2>. QED
      BY <1>4, <1>7, <1>8, <2>1, <2>2, <2>3
  <1>27. CASE BuildMarks
    BY <1>4, <1>5, <1>7, <1>8, <1>9, <1>27 DEF BuildMarks
  <1>. QED
    BY <1>12, <1>13, <1>14, <1>15, <1>16, <1>17, <1>18, <1>19, <1>20, <1>21, <1>22, <1>23, <1>24, <1>25, <1>26, <1>27
       DEF ModSetNext

-----------------------------------------------------------------------------
(* The switches the menus asked for.                                        *)

\* Between reloads a mod's entry in the menus is what they asked last, or what
\* the settings say; a reload has written the first, with the remote mods read.
ToggleInv ==
    /\ settings \in Settings /\ (catalog = NotReady \/ catalog \in [Mods -> BOOLEAN])
    /\ asked \in [Mods -> {"no", "on", "off"}]
    /\ ui \notin {"idle", "saved"} => reloaded = TRUE
    /\ \A m \in Mods : Alone(m) =>
         /\ ui = "idle" => LoadCatalog[m] = (IF asked[m] = "no" THEN ModEnabledNow(m) ELSE asked[m] = "on")
         /\ ui # "idle" /\ asked[m] # "no" => IsModEnabled(settings, m) = (asked[m] = "on")

LEMMA ToggleInvStarts ==
    ASSUME settings \in Settings, catalog = NotReady, ui = "idle", asked = [m \in Mods |-> "no"]
    PROVE  ToggleInv
  <1>1. LoadCatalog = [m \in Mods |-> ModEnabledNow(m)]
    BY DEF LoadCatalog
  <1>2. \A m \in Mods : LoadCatalog[m] = ModEnabledNow(m) /\ asked[m] = "no"
    BY <1>1
  <1>. QED
    BY <1>2 DEF ToggleInv

LEMMA ShownIs ==
    ASSUME catalog' \in [Mods -> BOOLEAN]
    PROVE  \A m \in Mods : LoadCatalog'[m] = catalog'[m]
  <1> SUFFICES ASSUME NEW m \in Mods, catalog' = NotReady PROVE LoadCatalog'[m] = catalog'[m]
    BY Zenon DEF LoadCatalog
  <1>1. DOMAIN catalog' = Mods /\ DOMAIN NotReady = {}
    BY DEF NotReady
  <1>. QED
    BY <1>1

LEMMA ToggleInvStep ==
    ASSUME ToggleInv, ModSetNext
    PROVE  ToggleInv'
  <1> DEFINE Shown(m) == ui = "idle" => LoadCatalog[m] = (IF asked[m] = "no" THEN ModEnabledNow(m) ELSE asked[m] = "on")
             Wrote(m) == ui # "idle" /\ asked[m] # "no" => IsModEnabled(settings, m) = (asked[m] = "on")
             Menus == settings \in Settings /\ (catalog = NotReady \/ catalog \in [Mods -> BOOLEAN])
                      /\ asked \in [Mods -> {"no", "on", "off"}]
  <1>1. Menus /\ \A m \in Mods : Alone(m) => Shown(m) /\ Wrote(m)
    BY DEF ToggleInv
  <1>2. ASSUME UNCHANGED <<settings, catalog, asked, ui, reloaded>>
        PROVE  ToggleInv'
    BY <1>2 DEF ToggleInv, LoadCatalog, ModEnabledNow
  <1>3. CASE Restart
    <2>1. settings' \in Settings /\ catalog' = NotReady /\ ui' = "idle" /\ asked' = [m \in Mods |-> "no"]
      BY <1>1, <1>3 DEF Restart, Booted
    <2>2. LoadCatalog' = [m \in Mods |-> ModEnabledNow(m)']
      BY <2>1 DEF LoadCatalog
    <2>3. \A m \in Mods : LoadCatalog'[m] = ModEnabledNow(m)' /\ asked'[m] = "no"
      BY <2>1, <2>2
    <2>. QED
      BY <2>1, <2>3 DEF ToggleInv
  <1>4. ASSUME NEW o \in Mods, NEW on \in BOOLEAN, SetEnabled(o, on)
        PROVE  ToggleInv'
    <2>1. /\ ui = "idle" /\ catalog' = [LoadCatalog EXCEPT ![FirstOf(o)] = on]
          /\ asked' = [asked EXCEPT ![o] = IF on THEN "on" ELSE "off"]
          /\ UNCHANGED <<settings, reloaded, ui>>
      BY <1>4 DEF SetEnabled
    <2>2. LoadCatalog \in [Mods -> BOOLEAN]
      BY <1>1, CatalogType
    <2>3. FirstOf(o) \in Mods /\ SameMod(o, FirstOf(o))
      BY FirstIs
    <2>4. /\ catalog' \in [Mods -> BOOLEAN] /\ catalog'[FirstOf(o)] = on
          /\ \A m \in Mods : m # FirstOf(o) => catalog'[m] = LoadCatalog[m]
      BY <2>1, <2>2, <2>3
    <2>5. /\ asked' \in [Mods -> {"no", "on", "off"}] /\ asked'[o] = (IF on THEN "on" ELSE "off")
          /\ \A m \in Mods : m # o => asked'[m] = asked[m]
      BY <1>1, <2>1
    <2>6. ASSUME NEW m \in Mods, Alone(m)
          PROVE  catalog'[m] = (IF asked'[m] = "no" THEN ModEnabledNow(m)' ELSE asked'[m] = "on")
      <3>1. ModEnabledNow(m)' = ModEnabledNow(m)
        BY <2>1 DEF ModEnabledNow
      <3>2. FirstOf(o) = m <=> o = m
        BY <2>3, <2>6 DEF Alone, SameMod
      <3>3. CASE o = m
        BY <2>4, <2>5, <3>2, <3>3
      <3>4. CASE o # m
        <4>1. LoadCatalog[m] = (IF asked[m] = "no" THEN ModEnabledNow(m) ELSE asked[m] = "on")
          BY <1>1, <2>1, <2>6
        <4>2. catalog'[m] = LoadCatalog[m] /\ asked'[m] = asked[m]
          BY <2>4, <2>5, <3>2, <3>4
        <4>. QED
          BY <3>1, <4>1, <4>2, Zenon
      <3>. QED
        BY <3>3, <3>4
    <2>7. \A m \in Mods : LoadCatalog'[m] = catalog'[m]
      BY <2>4, ShownIs
    <2>. QED
      BY <1>1, <2>1, <2>4, <2>5, <2>6, <2>7 DEF ToggleInv
  <1>5. ASSUME NEW commits \in BOOLEAN, ReloadMods(commits)
        PROVE  ToggleInv'
    <2>1. /\ ui = "idle" /\ catalog' = LoadCatalog /\ UNCHANGED <<reloaded, asked>>
          /\ \/ settings' = Written(settings, catalog') /\ ui' = "saved"
             \/ UNCHANGED <<settings, ui>>
      BY <1>5 DEF ReloadMods
    <2>2. catalog' \in [Mods -> BOOLEAN]
      <3>1. LoadCatalog \in [Mods -> BOOLEAN]
        BY <1>1, CatalogType
      <3>. QED
        BY <2>1, <3>1
    <2>3. \A m \in Mods : LoadCatalog'[m] = catalog'[m]
      BY <2>2, ShownIs
    <2>4. CASE UNCHANGED <<settings, ui>>
      <3>1. \A m \in Mods : ModEnabledNow(m)' = ModEnabledNow(m)
        BY <2>1, <2>4 DEF ModEnabledNow
      <3>. QED
        BY <1>1, <2>1, <2>2, <2>3, <2>4, <3>1 DEF ToggleInv
    <2>5. CASE settings' = Written(settings, catalog') /\ ui' = "saved"
      <3>1. /\ Written(settings, catalog') \in Settings
            /\ \A m \in Mods : Alone(m) => IsModEnabled(Written(settings, catalog'), m) = catalog'[m]
        BY <1>1, <2>2, WrittenIs
      <3>2. ASSUME NEW m \in Mods, Alone(m), asked'[m] # "no"
            PROVE  IsModEnabled(settings, m)' = (asked'[m] = "on")
        <4>1. LoadCatalog[m] = (asked[m] = "on")
          BY <1>1, <2>1, <3>2
        <4>2. IsModEnabled(Written(settings, catalog'), m) = LoadCatalog[m]
          BY <2>1, <3>1, <3>2, Zenon
        <4>3. IsModEnabled(settings, m)' = IsModEnabled(settings', m)
          BY DEF IsModEnabled
        <4>. QED
          BY <2>1, <2>5, <4>1, <4>2, <4>3, Zenon
      <3>3. settings' \in Settings
        BY <2>5, <3>1, Zenon
      <3>. QED
        BY <1>1, <2>1, <2>2, <2>5, <3>2, <3>3 DEF ToggleInv
    <2>. QED
      BY <2>1, <2>4, <2>5
  <1>6. CASE ReloadSwitchesOn
    <2>1. ui = "saved" /\ ui' = "overlaid" /\ reloaded' = TRUE /\ UNCHANGED <<settings, catalog, asked>>
      BY <1>6 DEF ReloadSwitchesOn, UiStep
    <2>. QED
      BY <2>1 DEF ToggleInv
  <1>7. CASE ReloadOverlay
    <2>1. /\ ui' = "reset" /\ UNCHANGED <<settings, catalog, asked, reloaded>>
      BY <1>7 DEF ReloadOverlay, UiStep
    <2>2. ui # "idle"
      BY <1>7 DEF ReloadOverlay, UiStep
    <2>3. reloaded = TRUE
      <3>1. CASE ui = "overlaid"
        BY <3>1 DEF ToggleInv
      <3>2. CASE ui # "overlaid"
        BY <1>7, <3>2 DEF ReloadOverlay, UiStep
      <3>. QED
        BY <3>1, <3>2
    <2>. QED
      BY <2>1, <2>2, <2>3 DEF ToggleInv
  <1>8. ASSUME ui \in {"reset", "locked", "cleared"}, ui' \in {"locked", "cleared", "listed"},
               UNCHANGED <<settings, catalog, asked, reloaded>>
        PROVE  ToggleInv'
    BY <1>8 DEF ToggleInv
  <1>9. CASE ReloadManifest \/ ReloadLocksVpks \/ DiscoverModVpks
    BY <1>8, <1>9 DEF ReloadManifest, ReloadLocksVpks, DiscoverModVpks, UiStep
  <1>10. CASE ReloadDone
    <2>1. ui = "listed" /\ ui' = "idle" /\ catalog' = NotReady /\ UNCHANGED <<settings, asked, reloaded>>
      BY <1>10 DEF ReloadDone, UiStep
    <2>2. LoadCatalog' = [m \in Mods |-> ModEnabledNow(m)']
      BY <2>1 DEF LoadCatalog
    <2>3. ASSUME NEW m \in Mods, Alone(m)
          PROVE  LoadCatalog'[m] = (IF asked'[m] = "no" THEN ModEnabledNow(m)' ELSE asked'[m] = "on")
      <3>1. LoadCatalog'[m] = ModEnabledNow(m)'
        BY <2>2
      <3>2. asked[m] # "no" => ModEnabledNow(m)' = (asked[m] = "on")
        <4>1. reloaded = TRUE
          BY <2>1 DEF ToggleInv
        <4>2. asked[m] # "no" => IsModEnabled(settings, m) = (asked[m] = "on")
          BY <1>1, <2>1, <2>3
        <4>3. ModEnabledNow(m)' = IsModEnabled(settings, m)
          BY <2>1, <4>1 DEF ModEnabledNow, IsModEnabled
        <4>. QED
          BY <4>2, <4>3
      <3>. QED
        BY <2>1, <3>1, <3>2
    <2>. QED
      BY <1>1, <2>1, <2>3 DEF ToggleInv
  <1>11. CASE OpenManifest \/ MountVpk \/ MountEnds \/ AskManifest \/ BuildCollects \/ BuildMarks
    BY <1>2, <1>11 DEF OpenManifest, MountVpk, MountEnds, AskManifest, BuildCollects, BuildMarks
  <1>12. ASSUME NEW ok \in BOOLEAN, BuildWrites(ok)
         PROVE  ToggleInv'
    BY <1>2, <1>12 DEF BuildWrites
  <1>. QED
    BY <1>3, <1>4, <1>5, <1>6, <1>7, <1>9, <1>10, <1>11, <1>12 DEF ModSetNext

\* What a reload that commits makes of the mods' switches.
TogglesKept ==
    \A m \in Mods : Alone(m) =>
        IsModEnabled(settings', m) = (IF asked[m] = "no" THEN ModEnabledNow(m) ELSE asked[m] = "on")

LEMMA ReloadKeeps ==
    ASSUME ToggleInv, ModSetNext, ui = "idle", ui' = "saved"
    PROVE  TogglesKept
  <1>1. PICK commits \in BOOLEAN : ReloadMods(commits)
    BY DEF ModSetNext, Restart, Booted, SetEnabled, ReloadSwitchesOn, ReloadOverlay, ReloadManifest, ReloadLocksVpks,
           DiscoverModVpks, ReloadDone, UiStep, OpenManifest, MountVpk, MountEnds, AskManifest, BuildCollects,
           BuildWrites, BuildMarks
  <1>2. settings' = Written(settings, catalog') /\ catalog' = LoadCatalog
    BY <1>1 DEF ReloadMods
  <1>3. LoadCatalog \in [Mods -> BOOLEAN] /\ settings \in Settings
    BY CatalogType DEF ToggleInv
  <1>4. \A m \in Mods : Alone(m) => IsModEnabled(Written(settings, LoadCatalog), m) = LoadCatalog[m]
    BY <1>3, WrittenIs
  <1>5. \A m \in Mods : Alone(m) =>
            LoadCatalog[m] = (IF asked[m] = "no" THEN ModEnabledNow(m) ELSE asked[m] = "on")
    BY DEF ToggleInv
  <1>. QED
    BY <1>2, <1>4, <1>5, Zenon DEF TogglesKept

LEMMA SetStays ==
    ASSUME SetInv, UNCHANGED modVars
    PROVE  SetInv'
  <1>1. UNCHANGED <<settings, reloaded, catalog, overlay, generated, manifest, vpks, mounting, ui,
                    reader, asked, raced, toggles>>
    BY DEF modVars
  <1>2. ModSetTypeOK'
    BY <1>1 DEF SetInv, ModSetTypeOK
  <1>. QED
    BY <1>1, <1>2 DEF SetInv

LEMMA TogglesStay ==
    ASSUME ToggleInv, UNCHANGED modVars
    PROVE  ToggleInv'
  BY DEF modVars, ToggleInv, LoadCatalog, ModEnabledNow

LEMMA ToggleInvInit ==
    ASSUME ModSetInit
    PROVE  ToggleInv
  <1>1. settings \in Settings /\ catalog = NotReady /\ ui = "idle" /\ asked = [m \in Mods |-> "no"]
    BY SetInvInit DEF SetInv, ModSetTypeOK, ModSetInit
  <1>. QED
    BY <1>1, ToggleInvStarts

\* What SetInv says of the overlay and the manifest.
LEMMA ListsAgree == SetInv => ManifestAgreesWithOverlay /\ EachNameOnce
  <1> SUFFICES ASSUME SetInv PROVE ManifestAgreesWithOverlay /\ EachNameOnce
    OBVIOUS
  <1>1. OneEach(overlay) /\ OneEach(manifest.mods) /\ manifest.blocks = Manifest(manifest.mods)
    BY DEF SetInv, ModSetTypeOK
  <1>2. ManifestAgreesWithOverlay
    BY <1>1, ManifestAgrees
  <1>3. DOMAIN overlay = 1..Len(overlay)
    BY <1>1 DEF OneEach
  <1>. QED
    BY <1>1, <1>2, <1>3 DEF OneEach, EachNameOnce

-----------------------------------------------------------------------------
(* What a reload makes anew.                                               *)

\* Nothing but a reload and a restart changes which mods are enabled, and a
\* reload makes everything anew on its way back: the overlay first, then the
\* manifest, which a build that it passes may still mark, and the archives.
MadeInv ==
    /\ reader = [pc |-> reader.pc, mods |-> reader.mods, n |-> reader.n]
    /\ raced \in BOOLEAN /\ generated \in BOOLEAN
    /\ ui \in {"reset", "locked", "cleared", "listed", "idle"} => overlay = CollectModNames
    /\ ui \in {"listed", "idle"} => vpks = Archives(CollectModNames)
    /\ ui \in {"locked", "cleared", "listed", "idle"} /\ raced = FALSE =>
           /\ generated = TRUE \/ reader.pc = "built" => manifest.mods = CollectModNames
           /\ reader.pc = "write" => reader.mods = CollectModNames
    /\ ui = "cleared" <=> mounting = "ui"
    /\ reader.pc = "mount" <=> mounting = "reader"
    /\ reader.pc = "mount" => vpks = reader.mods

LEMMA MadeInvInit ==
    ASSUME ModSetInit
    PROVE  MadeInv
  <1>1. reloaded = FALSE /\ overlay = InOrder(OnlyCopies({m \in Mods : ~m.remote /\ IsModEnabled(settings, m)}))
    BY DEF ModSetInit
  <1>2. {m \in Mods : ~m.remote /\ IsModEnabled(settings, m)} = {m \in Mods : ModEnabledNow(m)}
    BY <1>1 DEF ModEnabledNow
  <1>3. overlay = CollectModNames
    BY <1>1, <1>2 DEF CollectModNames
  <1>4. QED
    BY <1>3 DEF ModSetInit, MadeInv, Nowhere

LEMMA SameModsEnabled ==
    ASSUME UNCHANGED <<settings, reloaded>>
    PROVE  CollectModNames' = CollectModNames
  BY DEF CollectModNames, ModEnabledNow

LEMMA MadeInvStep ==
    ASSUME MadeInv, ModSetNext
    PROVE  MadeInv'
  <1>1. CASE Restart
    <2>1. /\ reloaded' = FALSE /\ UNCHANGED <<settings, raced>>
          /\ overlay' = InOrder(OnlyCopies({m \in Mods : ~m.remote /\ IsModEnabled(settings, m)}))
          /\ vpks' = Archives(overlay') /\ generated' = FALSE /\ mounting' = "free" /\ ui' = "idle" /\ reader' = Nowhere
      BY <1>1 DEF Restart, Booted
    <2>2. {m \in Mods : ~m.remote /\ IsModEnabled(settings, m)} = {m \in Mods : ModEnabledNow(m)}'
      BY <2>1 DEF ModEnabledNow
    <2>3. overlay' = CollectModNames'
      BY <2>1, <2>2 DEF CollectModNames
    <2>4. QED
      BY <2>1, <2>3 DEF MadeInv, Nowhere
  <1>2. ASSUME NEW m \in Mods, NEW on \in BOOLEAN, SetEnabled(m, on)
        PROVE  MadeInv'
    <2>1. UNCHANGED <<settings, reloaded, overlay, generated, manifest, vpks, mounting, ui, reader, raced>>
      BY <1>2 DEF SetEnabled
    <2>2. QED
      BY <2>1, SameModsEnabled DEF MadeInv
  <1>3. ASSUME NEW commits \in BOOLEAN, ReloadMods(commits)
        PROVE  MadeInv'
    <2>1. UNCHANGED <<reloaded, overlay, generated, manifest, vpks, mounting, reader, raced>> /\ ui = "idle"
      BY <1>3 DEF ReloadMods
    <2>2. CASE ui' = "saved"
      BY <2>1, <2>2 DEF MadeInv
    <2>3. CASE UNCHANGED <<settings, ui>>
      BY <2>1, <2>3, SameModsEnabled DEF MadeInv
    <2>4. QED
      BY <1>3, <2>2, <2>3 DEF ReloadMods
  <1>4. CASE ReloadSwitchesOn
    BY <1>4 DEF ReloadSwitchesOn, UiStep, MadeInv
  <1>5. CASE ReloadOverlay
    <2>1. UNCHANGED <<settings, reloaded, generated, manifest, vpks, mounting, reader, raced>>
          /\ ui \in {"saved", "overlaid"} /\ ui' = "reset" /\ overlay' = CollectModNames
      BY <1>5 DEF ReloadOverlay, UiStep
    <2>2. QED
      BY <2>1, SameModsEnabled DEF MadeInv
  <1>6. CASE ReloadManifest
    <2>1. UNCHANGED <<settings, reloaded, overlay, manifest, vpks, mounting, reader>>
          /\ ui = "reset" /\ ui' = "locked" /\ generated' = FALSE /\ (raced' = (raced \/ reader.pc \in {"write", "built"}))
      BY <1>6 DEF ReloadManifest, ResetManifest, UiStep
    <2>2. raced' \in BOOLEAN /\ (raced' = FALSE => raced = FALSE /\ reader.pc # "write" /\ reader.pc # "built")
      BY <2>1 DEF MadeInv
    <2>3. QED
      BY <2>1, <2>2, SameModsEnabled DEF MadeInv
  <1>7. CASE ReloadLocksVpks
    <2>1. UNCHANGED <<settings, reloaded, overlay, generated, manifest, reader, raced>>
          /\ ui = "locked" /\ ui' = "cleared" /\ mounting = "free" /\ mounting' = "ui"
      BY <1>7 DEF ReloadLocksVpks, MountsNothing, UiStep
    <2>2. QED
      BY <2>1, SameModsEnabled DEF MadeInv
  <1>8. CASE DiscoverModVpks
    <2>1. UNCHANGED <<settings, reloaded, overlay, generated, manifest, reader, raced>>
          /\ ui = "cleared" /\ ui' = "listed" /\ mounting' = "free" /\ vpks' = Archives(CollectModNames)
      BY <1>8 DEF DiscoverModVpks, UiStep
    <2>2. QED
      BY <2>1, SameModsEnabled DEF MadeInv
  <1>9. CASE ReloadDone
    <2>1. UNCHANGED <<settings, reloaded, overlay, generated, manifest, vpks, mounting, reader, raced>>
          /\ ui = "listed" /\ ui' = "idle"
      BY <1>9 DEF ReloadDone, UiStep
    <2>2. QED
      BY <2>1, SameModsEnabled DEF MadeInv
  <1>10. CASE OpenManifest
    <2>1. UNCHANGED <<settings, reloaded, overlay, generated, manifest, vpks, ui, raced>> /\ reader.pc = "idle"
      BY <1>10 DEF OpenManifest
    <2>2. \/ mounting = "free" /\ mounting' = "reader" /\ reader' = [Nowhere EXCEPT !.pc = "mount", !.mods = vpks]
          \/ UNCHANGED mounting /\ reader' = [Nowhere EXCEPT !.pc = "ask"]
      BY <1>10 DEF OpenManifest
    <2>3. \/ /\ mounting = "free" /\ mounting' = "reader" /\ reader'.pc = "mount" /\ reader'.mods = vpks
             /\ reader' = [pc |-> reader'.pc, mods |-> reader'.mods, n |-> reader'.n]
          \/ /\ UNCHANGED mounting /\ reader'.pc = "ask"
             /\ reader' = [pc |-> reader'.pc, mods |-> reader'.mods, n |-> reader'.n]
      BY <2>2 DEF Nowhere
    <2>4. QED
      BY <2>1, <2>3, SameModsEnabled DEF MadeInv
  <1>11. ASSUME NEW r, reader' = [reader EXCEPT !.n = r] \/ reader' = reader,
                UNCHANGED <<settings, reloaded, overlay, generated, manifest, vpks, mounting, ui, raced>>
         PROVE  MadeInv'
    <2>1. /\ reader'.pc = reader.pc /\ reader'.mods = reader.mods
          /\ reader' = [pc |-> reader'.pc, mods |-> reader'.mods, n |-> reader'.n]
      BY <1>11 DEF MadeInv
    <2>2. QED
      BY <1>11, <2>1, SameModsEnabled DEF MadeInv
  <1>12. CASE MountVpk
    BY <1>11, <1>12 DEF MountVpk
  <1>13. CASE MountEnds
    <2>1. UNCHANGED <<settings, reloaded, overlay, generated, manifest, vpks, ui, raced>> /\ reader.pc = "mount"
          /\ mounting' = "free" /\ reader' = [Nowhere EXCEPT !.pc = "ask"]
      BY <1>13 DEF MountEnds
    <2>2. reader'.pc = "ask" /\ reader' = [pc |-> reader'.pc, mods |-> reader'.mods, n |-> reader'.n]
      BY <2>1 DEF Nowhere
    <2>3. QED
      BY <2>1, <2>2, SameModsEnabled DEF MadeInv
  <1>14. CASE AskManifest
    <2>1. UNCHANGED <<settings, reloaded, overlay, generated, manifest, vpks, mounting, ui, raced>> /\ reader.pc = "ask"
          /\ reader' = [reader EXCEPT !.pc = IF generated THEN "idle" ELSE "build"]
      BY <1>14 DEF AskManifest
    <2>2. /\ reader'.pc \in {"idle", "build"}
          /\ reader' = [pc |-> reader'.pc, mods |-> reader'.mods, n |-> reader'.n]
      BY <2>1 DEF MadeInv
    <2>3. QED
      BY <2>1, <2>2, SameModsEnabled DEF MadeInv
  <1>15. CASE BuildCollects
    <2>1. UNCHANGED <<settings, reloaded, overlay, generated, manifest, vpks, mounting, ui, raced>> /\ reader.pc = "build"
          /\ reader' = [reader EXCEPT !.pc = "write", !.mods = CollectModNames]
      BY <1>15 DEF BuildCollects
    <2>2. /\ reader'.pc = "write" /\ reader'.mods = CollectModNames
          /\ reader' = [pc |-> reader'.pc, mods |-> reader'.mods, n |-> reader'.n]
      BY <2>1 DEF MadeInv
    <2>3. QED
      BY <2>1, <2>2, SameModsEnabled DEF MadeInv
  <1>16. ASSUME NEW ok \in BOOLEAN, BuildWrites(ok)
         PROVE  MadeInv'
    <2>1. UNCHANGED <<settings, reloaded, overlay, generated, vpks, mounting, ui, raced>> /\ reader.pc = "write"
      BY <1>16 DEF BuildWrites
    <2>2. \/ manifest'.mods = reader.mods /\ reader' = [reader EXCEPT !.pc = "built"]
          \/ UNCHANGED manifest /\ reader' = Nowhere
      BY <1>16 DEF BuildWrites, ReaderStep
    <2>3. /\ reader' = [pc |-> reader'.pc, mods |-> reader'.mods, n |-> reader'.n]
          /\ \/ manifest'.mods = reader.mods /\ reader'.pc = "built"
             \/ UNCHANGED manifest /\ reader'.pc = "idle"
      BY <2>2 DEF MadeInv, Nowhere
    <2>4. QED
      BY <2>1, <2>3, SameModsEnabled DEF MadeInv
  <1>17. CASE BuildMarks
    <2>1. UNCHANGED <<settings, reloaded, overlay, manifest, vpks, mounting, ui, raced>> /\ reader.pc = "built"
          /\ reader'.pc = "idle" /\ generated' = TRUE /\ reader' = [pc |-> reader'.pc, mods |-> reader'.mods, n |-> reader'.n]
      BY <1>17 DEF BuildMarks, Nowhere
    <2>2. QED
      BY <2>1, SameModsEnabled DEF MadeInv
  <1>18. QED
    BY <1>1, <1>2, <1>3, <1>4, <1>5, <1>6, <1>7, <1>8, <1>9, <1>10, <1>12, <1>13, <1>14, <1>15, <1>16, <1>17 DEF ModSetNext

LEMMA MadeStays ==
    ASSUME MadeInv, UNCHANGED modVars
    PROVE  MadeInv'
  BY SameModsEnabled DEF modVars, MadeInv

=============================================================================
