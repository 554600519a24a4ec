------------------------- MODULE HostedServerProofs -------------------------
(***************************************************************************)
(* What a hosted server promises beside its game, in the three components  *)
(* that speak of its players and its listing: the admission of the players *)
(* Atlas announces (ConnectRecords), the ban list (ServerBans) and the     *)
(* reporter that keeps the server on Atlas' list (ServerPresence).         *)
(*                                                                         *)
(* Admission, for any accounts, caps and number of threads: that a token   *)
(* is handled once needs the list of handled tokens to hold every token    *)
(* there is.  The bans, for any players, request threads and buffer: the   *)
(* buffer the threads share is harmless as long as nobody changes the file *)
(* and no NUL from before its last change is still to come, because        *)
(* whoever reads it again puts the same text, and its NUL, there.  The     *)
(* listing, for any ids, passwords, attempts and times: Atlas is told of   *)
(* every listing the reporter gives up, and the add requests of one start  *)
(* are bounded.                                                            *)
(***************************************************************************)
EXTENDS ConnectRecords, ServerBans, ServerPresence,
        FiniteSetTheorems, SequenceTheorems, TLAPS

-----------------------------------------------------------------------------
(* Admission.                                                              *)
-----------------------------------------------------------------------------
USE CapsAssumption, SavesAssumption, HostUidsAssumption

(* Pushes and drops on the capped lists, index by index.                   *)
Pushed(seq, new, x, cap) ==
    IF Len(seq) = cap
    THEN Len(new) = cap /\ \A i \in 1 .. cap : new[i] = IF i = cap THEN x ELSE seq[i + 1]
    ELSE /\ Len(new) = Len(seq) + 1
         /\ \A i \in 1 .. Len(new) : new[i] = IF i = Len(new) THEN x ELSE seq[i]

LEMMA PushProperties ==
    ASSUME NEW S, NEW seq \in Seq(S), NEW x \in S, NEW cap \in Nat, Len(seq) <= cap
    PROVE  /\ PushCapped(seq, x, cap) \in Seq(S) /\ Len(PushCapped(seq, x, cap)) <= cap
           /\ Pushed(seq, PushCapped(seq, x, cap), x, cap)
  <1> DEFINE longer == Append(seq, x)
  <1>1. longer \in Seq(S) /\ Len(longer) = Len(seq) + 1
    OBVIOUS
  <1>2. \A i \in 1 .. Len(seq) + 1 : longer[i] = IF i = Len(seq) + 1 THEN x ELSE seq[i]
    OBVIOUS
  <1>3. CASE Len(seq) = cap
    <2>1. PushCapped(seq, x, cap) = Tail(longer)
      BY <1>1, <1>3 DEF PushCapped
    <2>2. /\ Tail(longer) \in Seq(S) /\ Len(Tail(longer)) = cap
          /\ \A i \in 1 .. cap : Tail(longer)[i] = longer[i + 1]
      <3> HIDE DEF longer
      <3> QED
        BY <1>1, <1>3
    <2> QED
      BY <1>2, <1>3, <2>1, <2>2 DEF Pushed
  <1>4. CASE Len(seq) < cap
    BY <1>1, <1>2, <1>4 DEF PushCapped, Pushed
  <1> QED
    BY <1>3, <1>4

(* A value in the pushed list is the new one or was there; it stays there  *)
(* unless the list is full.                                                *)
LEMMA PushContains ==
    ASSUME NEW S, NEW seq \in Seq(S), NEW x \in S, NEW cap \in Nat, Len(seq) <= cap, NEW y
    PROVE  /\ Contains(PushCapped(seq, x, cap), y) => y = x \/ Contains(seq, y)
           /\ Len(seq) < cap => (Contains(seq, y) \/ y = x => Contains(PushCapped(seq, x, cap), y))
  <1> DEFINE new == PushCapped(seq, x, cap)
  <1>1. new \in Seq(S) /\ Pushed(seq, new, x, cap)
    BY PushProperties
  <1> HIDE DEF new
  <1>2. Contains(new, y) => y = x \/ Contains(seq, y)
    <2> SUFFICES ASSUME NEW i \in 1 .. Len(new), new[i] = y PROVE y = x \/ Contains(seq, y)
      BY <1>1 DEF Contains
    <2> QED
      BY <1>1 DEF Pushed, Contains
  <1>3. Len(seq) < cap => (Contains(seq, y) \/ y = x => Contains(new, y))
    BY <1>1 DEF Pushed, Contains
  <1> QED
    BY <1>2, <1>3 DEF new

-----------------------------------------------------------------------------
(* The list of records *)

RecordTokens(seq) == {seq[i].token : i \in DOMAIN seq}

(* The newest records have pdata, and an older one that kept it was pushed *)
(* out of the newest by a record of the host's own session.                *)
PdataHolds(seq) ==
    /\ \A i \in DOMAIN seq : i > Len(seq) - MaxPdataRecords => seq[i].pdata # NoSave
    /\ \A i \in DOMAIN seq :
          i <= Len(seq) - MaxPdataRecords /\ seq[i].pdata # NoSave
              => seq[i + MaxPdataRecords].hostConnection

JoinTokensDiffer(seq) ==
    \A i, j \in DOMAIN seq :
        seq[i].token \in JoinTokens /\ seq[i].token = seq[j].token => i = j

LEMMA RecordType ==
    ASSUME NEW token \in Tokens, NEW pdata \in Saves, NEW host \in BOOLEAN
    PROVE  /\ Record(token, pdata, host) \in Records
           /\ Record(token, pdata, host).token = token
           /\ Record(token, pdata, host).pdata = pdata /\ pdata # NoSave
           /\ Record(token, pdata, host).hostConnection = host
  BY DEF Record, Records, Account, Tokens, JoinTokens, SelfTokens

(* DropOldPdata changes one record's pdata.                                *)
LEMMA DropProperties ==
    ASSUME NEW seq \in Seq(Records)
    PROVE  /\ DropOldPdata(seq) \in Seq(Records) /\ Len(DropOldPdata(seq)) = Len(seq)
           /\ \A i \in DOMAIN seq :
                 /\ DropOldPdata(seq)[i].token = seq[i].token
                 /\ DropOldPdata(seq)[i].hostConnection = seq[i].hostConnection
                 /\ DropOldPdata(seq)[i].pdata =
                       IF i = Len(seq) - MaxPdataRecords THEN NoSave ELSE seq[i].pdata
  <1>1. CASE Len(seq) <= MaxPdataRecords
    BY <1>1 DEF DropOldPdata
  <1>2. CASE Len(seq) > MaxPdataRecords
    <2> DEFINE k == Len(seq) - MaxPdataRecords
    <2>1. k \in 1 .. Len(seq) /\ seq[k] \in Records
      BY <1>2
    <2>2. [seq[k] EXCEPT !.pdata = NoSave] \in Records
      BY <2>1 DEF Records
    <2>3. DropOldPdata(seq) = [seq EXCEPT ![k] = [seq[k] EXCEPT !.pdata = NoSave]]
      BY <1>2 DEF DropOldPdata
    <2>4. /\ [seq[k] EXCEPT !.pdata = NoSave].token = seq[k].token
          /\ [seq[k] EXCEPT !.pdata = NoSave].hostConnection = seq[k].hostConnection
          /\ [seq[k] EXCEPT !.pdata = NoSave].pdata = NoSave
      BY <2>1 DEF Records
    <2> QED
      BY <2>1, <2>2, <2>3, <2>4
  <1> QED
    BY <1>1, <1>2

(* What a push of either kind does to the list.                            *)
LEMMA RecordKeeps ==
    ASSUME NEW seq \in Seq(Records), Len(seq) <= MaxRecords,
           NEW token \in Tokens, NEW pdata \in Saves, NEW new,
           \/ new = RecordConnect(seq, token, pdata)
           \/ new = RecordSelfAuth(seq, token, pdata)
    PROVE  /\ new \in Seq(Records) /\ Len(new) <= MaxRecords
           /\ RecordTokens(new) \subseteq RecordTokens(seq) \cup {token}
           /\ \/ Len(new) = MaxRecords
              \/ RecordTokens(new) = RecordTokens(seq) \cup {token}
           /\ Len(seq) = MaxRecords => Len(new) = MaxRecords
           /\ PdataHolds(seq) => PdataHolds(new)
           /\ JoinTokensDiffer(seq) /\ token \notin RecordTokens(seq) \cap JoinTokens
                 => JoinTokensDiffer(new)
  <1>1. PICK host \in BOOLEAN :
           new = IF host THEN PushCapped(seq, Record(token, pdata, host), MaxRecords)
                 ELSE DropOldPdata(PushCapped(seq, Record(token, pdata, host), MaxRecords))
    BY DEF RecordConnect, RecordSelfAuth
  <1> DEFINE x == Record(token, pdata, host)
             longer == PushCapped(seq, x, MaxRecords)
  <1>2. x \in Records /\ x.token = token /\ x.pdata # NoSave /\ x.hostConnection = host
    BY RecordType
  <1>3. longer \in Seq(Records) /\ Len(longer) <= MaxRecords /\ Pushed(seq, longer, x, MaxRecords)
    BY <1>2, PushProperties
  <1>4. new = IF host THEN longer ELSE DropOldPdata(longer)
    BY <1>1
  <1> HIDE DEF x, longer
  <1>5. /\ new \in Seq(Records) /\ Len(new) = Len(longer)
        /\ \A i \in 1 .. Len(longer) :
              /\ new[i].token = longer[i].token
              /\ new[i].hostConnection = longer[i].hostConnection
              /\ new[i].pdata = IF ~host /\ i = Len(longer) - MaxPdataRecords THEN NoSave
                                ELSE longer[i].pdata
    BY <1>3, <1>4, DropProperties
  <1> DEFINE n == Len(longer)
             d == IF Len(seq) = MaxRecords THEN 1 ELSE 0
  <1>6. /\ n = Len(seq) + 1 - d /\ n \in 1 .. MaxRecords /\ d \in {0, 1}
        /\ n < MaxRecords => d = 0
        /\ longer[n] = x
        /\ \A i \in 1 .. n - 1 : i + d \in 1 .. Len(seq) /\ longer[i] = seq[i + d]
    <2>1. n \in Nat /\ Len(seq) \in Nat /\ MaxRecords \in Nat \ {0}
      BY <1>3
    <2>2. CASE Len(seq) = MaxRecords
      <3>1. d = 1 /\ n = MaxRecords /\ longer[n] = x
        BY <1>3, <2>1, <2>2 DEF Pushed
      <3>2. \A i \in 1 .. n - 1 : i + 1 \in 1 .. Len(seq) /\ longer[i] = seq[i + 1]
        BY <1>3, <2>1, <2>2, <3>1 DEF Pushed
      <3> HIDE DEF n, d
      <3> QED
        BY <2>1, <2>2, <3>1, <3>2
    <2>3. CASE Len(seq) # MaxRecords
      <3>1. d = 0 /\ n = Len(seq) + 1 /\ longer[n] = x
        BY <1>3, <2>1, <2>3 DEF Pushed
      <3>2. \A i \in 1 .. n - 1 : i + 0 = i /\ i \in 1 .. Len(seq) /\ longer[i] = seq[i]
        BY <1>3, <2>1, <2>3, <3>1 DEF Pushed
      <3>3. n <= MaxRecords
        BY <1>3
      <3> HIDE DEF n, d
      <3> QED
        BY <2>1, <2>3, <3>1, <3>2, <3>3
    <2> QED
      BY <2>2, <2>3
  <1>10. Len(seq) = MaxRecords => n = MaxRecords
    BY <1>6
  <1>11. /\ new[n].token = token /\ new[n].pdata # NoSave /\ new[n].hostConnection = host
         /\ \A i \in 1 .. n - 1 : /\ new[i].token = seq[i + d].token
                               /\ new[i].hostConnection = seq[i + d].hostConnection
                               /\ new[i].pdata = IF ~host /\ i = n - MaxPdataRecords THEN NoSave
                                                 ELSE seq[i + d].pdata
    <2>1. n \in 1 .. n /\ n # n - MaxPdataRecords
      BY <1>6
    <2>2. \A i \in 1 .. n - 1 : i \in 1 .. n
      BY <1>6
    <2> HIDE DEF n, d
    <2> QED
      BY <1>2, <1>5, <1>6, <2>1, <2>2 DEF n
  <1>12. Len(new) = n /\ DOMAIN new = 1 .. n /\ DOMAIN seq = 1 .. Len(seq) /\ Len(seq) \in Nat
    BY <1>5
  <1>13. d = 0 => n = Len(seq) + 1
    BY <1>6
  <1>14. n = Len(seq) + 1 - d /\ n \in Nat /\ d \in 0 .. 1 /\ MaxPdataRecords \in Nat \ {0}
    BY <1>6
  <1> HIDE DEF n, d
  <1>7. /\ RecordTokens(new) \subseteq RecordTokens(seq) \cup {token}
        /\ n = MaxRecords \/ RecordTokens(new) = RecordTokens(seq) \cup {token}
    <2>1. \A i \in 1 .. n : i = n \/ i \in 1 .. n - 1
      BY <1>6
    <2>2. RecordTokens(new) \subseteq RecordTokens(seq) \cup {token}
      <3>1. ASSUME NEW i \in 1 .. n PROVE new[i].token \in RecordTokens(seq) \cup {token}
        <4>1. CASE i = n
          BY <1>11, <4>1
        <4>2. CASE i \in 1 .. n - 1
          <5>1. new[i].token = seq[i + d].token /\ i + d \in DOMAIN seq
            BY <1>6, <1>11, <1>12, <4>2
          <5> QED
            BY <5>1 DEF RecordTokens
        <4> QED
          BY <2>1, <4>1, <4>2
      <3> QED
        BY <1>12, <3>1 DEF RecordTokens
    <2>3. ASSUME n # MaxRecords, NEW j \in 1 .. Len(seq)
          PROVE  j \in 1 .. n - 1 /\ j + d = j /\ j \in 1 .. n
      BY <1>6, <1>12, <2>3
    <2>4. n # MaxRecords => RecordTokens(seq) \cup {token} \subseteq RecordTokens(new)
      <3> SUFFICES ASSUME n # MaxRecords PROVE RecordTokens(seq) \cup {token} \subseteq RecordTokens(new)
        OBVIOUS
      <3>1. token \in RecordTokens(new)
        <4>1. n \in DOMAIN new
          BY <1>6, <1>12
        <4> QED
          BY <1>11, <4>1 DEF RecordTokens
      <3>2. ASSUME NEW j \in 1 .. Len(seq) PROVE seq[j].token \in RecordTokens(new)
        <4>1. j \in 1 .. n - 1 /\ j + d = j /\ j \in DOMAIN new
          BY <1>12, <2>3
        <4>2. new[j].token = seq[j].token
          BY <1>11, <4>1
        <4> QED
          BY <4>1, <4>2 DEF RecordTokens
      <3> QED
        BY <1>12, <3>1, <3>2 DEF RecordTokens
    <2> QED
      BY <2>2, <2>4
  <1>8. PdataHolds(seq) => PdataHolds(new)
    <2> SUFFICES ASSUME PdataHolds(seq) PROVE PdataHolds(new)
      OBVIOUS
    <2>1. ASSUME NEW i \in 1 .. n, i > n - MaxPdataRecords
          PROVE  new[i].pdata # NoSave
      <3>1. CASE i = n
        BY <1>11, <3>1
      <3>2. CASE i # n
        <4>1. i \in 1 .. n - 1 /\ i + d > Len(seq) - MaxPdataRecords /\ i # n - MaxPdataRecords
          BY <1>12, <1>14, <2>1, <3>2
        <4>2. i + d \in DOMAIN seq /\ new[i].pdata = seq[i + d].pdata
          BY <1>6, <1>11, <1>12, <4>1
        <4> QED
          BY <4>1, <4>2 DEF PdataHolds
      <3> QED
        BY <3>1, <3>2
    <2>2. ASSUME NEW i \in 1 .. n, i <= n - MaxPdataRecords, new[i].pdata # NoSave
          PROVE  new[i + MaxPdataRecords].hostConnection
      <3>1. i \in 1 .. n - 1
        BY <1>6, <2>2
      <3>2. CASE i = n - MaxPdataRecords
        <4>1. i + MaxPdataRecords = n
          BY <1>14, <3>2
        <4>2. new[i].pdata = IF ~host /\ i = n - MaxPdataRecords THEN NoSave ELSE seq[i + d].pdata
          BY <1>11, <3>1
        <4>3. host
          BY <2>2, <3>2, <4>2
        <4> QED
          BY <1>11, <4>1, <4>3
      <3>3. CASE i < n - MaxPdataRecords
        <4>1. /\ i + MaxPdataRecords \in 1 .. n - 1
              /\ (i + MaxPdataRecords) + d = (i + d) + MaxPdataRecords
              /\ i + d <= Len(seq) - MaxPdataRecords
          BY <1>6, <1>12, <3>3
        <4>2. /\ i + d \in DOMAIN seq /\ seq[i + d].pdata # NoSave
              /\ new[i + MaxPdataRecords].hostConnection = seq[(i + d) + MaxPdataRecords].hostConnection
          BY <1>6, <1>11, <1>12, <2>2, <3>1, <3>3, <4>1
        <4> QED
          BY <4>1, <4>2 DEF PdataHolds
      <3> QED
        BY <1>6, <2>2, <3>2, <3>3
    <2> QED
      BY <1>12, <2>1, <2>2 DEF PdataHolds
  <1>9. JoinTokensDiffer(seq) /\ token \notin RecordTokens(seq) \cap JoinTokens
           => JoinTokensDiffer(new)
    <2> SUFFICES ASSUME JoinTokensDiffer(seq), token \notin RecordTokens(seq) \cap JoinTokens,
                        NEW i \in 1 .. n, NEW j \in 1 .. n,
                        new[i].token \in JoinTokens, new[i].token = new[j].token
                 PROVE  i = j
      BY <1>12 DEF JoinTokensDiffer
    <2>1. ASSUME NEW k \in 1 .. n - 1
          PROVE  new[k].token \in RecordTokens(seq)
      BY <1>6, <1>11, <1>12 DEF RecordTokens
    <2>2. CASE i \in 1 .. n - 1 /\ j \in 1 .. n - 1
      <3>1. /\ i + d \in DOMAIN seq /\ new[i].token = seq[i + d].token
            /\ j + d \in DOMAIN seq /\ new[j].token = seq[j + d].token
        BY <1>6, <1>11, <1>12, <2>2
      <3>2. i + d = j + d
        BY <3>1 DEF JoinTokensDiffer
      <3> QED
        BY <1>14, <3>2
    <2>3. CASE i = n /\ j \in 1 .. n - 1
      BY <1>11, <2>1, <2>3
    <2>4. CASE j = n /\ i \in 1 .. n - 1
      BY <1>11, <2>1, <2>4
    <2>5. (i = n \/ i \in 1 .. n - 1) /\ (j = n \/ j \in 1 .. n - 1)
      BY <1>6
    <2> QED
      BY <2>2, <2>3, <2>4, <2>5, Zenon
  <1> QED
    <2>1. new \in Seq(Records) /\ Len(new) = n /\ n <= MaxRecords
      BY <1>5, <1>6, <1>12
    <2> QED
      BY <1>7, <1>8, <1>9, <1>10, <2>1

(* Pushed out of the newest by another record of the host's own session    *)
(* each, the older records with pdata are no more than those.              *)
LEMMA PdataCounted ==
    ASSUME NEW seq \in Seq(Records), PdataHolds(seq)
    PROVE  Cardinality({i \in DOMAIN seq : seq[i].pdata # NoSave}) <=
               MaxPdataRecords + Cardinality({i \in DOMAIN seq : seq[i].hostConnection})
  <1> DEFINE n == Len(seq)
             kept == {i \in 1 .. n : seq[i].pdata # NoSave}
             newest == {i \in kept : i > n - MaxPdataRecords}
             older == {i \in kept : i <= n - MaxPdataRecords}
             hosts == {i \in 1 .. n : seq[i].hostConnection}
             shift == [i \in older |-> i + MaxPdataRecords]
  <1>1. n \in Nat /\ DOMAIN seq = 1 .. n /\ IsFiniteSet(1 .. n)
    BY FS_Interval
  <1>2. /\ kept \in SUBSET (1 .. n) /\ newest \in SUBSET (1 .. n) /\ older \in SUBSET (1 .. n)
        /\ hosts \in SUBSET (1 .. n) /\ kept = newest \cup older /\ newest \cap older = {}
    BY <1>1
  <1>3. IsFiniteSet(newest) /\ IsFiniteSet(older) /\ IsFiniteSet(hosts)
    BY <1>1, <1>2, FS_Subset
  <1>4. Cardinality(kept) = Cardinality(newest) + Cardinality(older)
    <2>1. Cardinality(newest \cap older) = 0
      BY <1>2, FS_EmptySet
    <2>2. Cardinality(newest) \in Nat /\ Cardinality(older) \in Nat
      BY <1>3, FS_CardinalityType
    <2>3. Cardinality(newest \cup older) =
            Cardinality(newest) + Cardinality(older) - Cardinality(newest \cap older)
      BY <1>3, FS_Union
    <2> HIDE DEF newest, older, kept
    <2> QED
      BY <1>2, <2>1, <2>2, <2>3
  <1>5. Cardinality(newest) <= MaxPdataRecords
    <2> DEFINE last == n - MaxPdataRecords + 1 .. n
    <2>1. IsFiniteSet(last) /\ Cardinality(last) = MaxPdataRecords
      BY <1>1, FS_Interval
    <2>2. newest \in SUBSET last
      BY <1>1
    <2> HIDE DEF newest, last
    <2> QED
      BY <2>1, <2>2, FS_Subset
  <1>6. Cardinality(older) <= Cardinality(hosts)
    <2>1. \A i \in older : i + MaxPdataRecords \in hosts
      BY <1>1 DEF PdataHolds
    <2>2. \A i, j \in older : i + MaxPdataRecords = j + MaxPdataRecords => i = j
      BY <1>1
    <2>3. shift \in [older -> hosts] /\ IsInjective(shift)
      <3> HIDE DEF older, hosts
      <3> QED
        BY <2>1, <2>2 DEF IsInjective
    <2>4. shift \in Injection(older, hosts)
      BY <2>3 DEF Injection
    <2> HIDE DEF shift, older, hosts
    <2> QED
      BY <1>3, <2>4, FS_Injection
  <1>7. Cardinality(older) \in Nat /\ Cardinality(hosts) \in Nat /\ Cardinality(newest) \in Nat
    BY <1>3, FS_CardinalityType
  <1>8. Cardinality(kept) <= MaxPdataRecords + Cardinality(hosts)
    <2> HIDE DEF kept, newest, older, hosts
    <2> QED
      BY <1>4, <1>5, <1>6, <1>7
  <1> QED
    BY <1>1, <1>8

(* The list of handled tokens has room for every token.                    *)
TokensFit == IsFiniteSet(JoinTokens) /\ Cardinality(JoinTokens) <= MaxHandledTokens

Distinct(seq) == \A i, j \in DOMAIN seq : seq[i] = seq[j] => i = j

(* A token not handled before finds room among those that were.            *)
LEMMA RoomForToken ==
    ASSUME TokensFit, NEW seq \in Seq(JoinTokens), Distinct(seq),
           NEW t \in JoinTokens, ~Contains(seq, t)
    PROVE  Len(seq) < MaxHandledTokens
  <1> DEFINE others == JoinTokens \ {t}
  <1>1. IsFiniteSet(others) /\ Cardinality(others) = Cardinality(JoinTokens) - 1
        /\ Cardinality(JoinTokens) \in Nat
    BY FS_RemoveElement, FS_CardinalityType DEF TokensFit
  <1>2. seq \in [1 .. Len(seq) -> others]
    BY DEF Contains
  <1>3. seq \in Injection(1 .. Len(seq), others)
    BY <1>2 DEF Injection, IsInjective, Distinct
  <1>4. Cardinality(1 .. Len(seq)) <= Cardinality(others)
    <2> HIDE DEF others
    <2> QED
      BY <1>1, <1>3, FS_Injection
  <1>5. Cardinality(1 .. Len(seq)) = Len(seq) /\ Len(seq) \in Nat
    BY FS_Interval
  <1> QED
    BY <1>1, <1>4, <1>5 DEF TokensFit

-----------------------------------------------------------------------------
(* The invariant *)

Kept(token) == Len(records) = MaxRecords \/ token \in RecordTokens(records)

(* What a request has by the stage it is at, and an accepted join with it. *)
StagesHold ==
    /\ \A r \in requests : r.stage \in {"record", "accept"} => r.pdata # NoSave
    /\ \A r \in requests : r.stage = "accept" => Kept(r.token)
    /\ \A t \in JoinTokens : answer[t] = "accepted" => Kept(t)

(* A request that has claimed its token and not yet recorded it.           *)
Active(r) == r.stage \notin {"start", "accept"}

OnceHolds ==
    /\ Distinct(handledTokens)
    /\ \A r \in requests : Active(r) => Contains(handledTokens, r.token)
    /\ \A r \in requests : Active(r) => r.token \notin RecordTokens(records)
    /\ \A r, q \in requests : Active(r) /\ Active(q) /\ r.token = q.token => r = q
    /\ \A t \in JoinTokens \cap RecordTokens(records) : Contains(handledTokens, t)
    /\ JoinTokensDiffer(records)

(* A rejected token stays handled, and nobody has it any more.             *)
RejectedHold ==
    \A t \in JoinTokens : answer[t] = "rejected" =>
        /\ Contains(handledTokens, t)
        /\ t \notin RecordTokens(records)
        /\ \A r \in requests : Active(r) => r.token # t

ConnectInv ==
    /\ ConnectTypeOK
    /\ PdataHolds(records) /\ StagesHold
    /\ TokensFit => OnceHolds /\ RejectedHold

LEMMA ConnectInitInv == ConnectInit => ConnectInv
  <1> SUFFICES ASSUME ConnectInit PROVE ConnectInv
    OBVIOUS
  <1>1. ConnectTypeOK
    <2>1. <<>> \in Seq(Records) /\ <<>> \in Seq(JoinTokens) /\ <<>> \in Seq(Uids) /\ Len(<<>>) = 0
      OBVIOUS
    <2>2. answer \in [JoinTokens -> {"none", "accepted", "rejected"}]
      BY DEF ConnectInit
    <2>3. listed \in BOOLEAN /\ requests = {} /\ banned = {}
      BY DEF ConnectInit
    <2>4. records = <<>> /\ handledTokens = <<>> /\ authenticated = <<>>
      BY DEF ConnectInit
    <2>5. 0 <= MaxRecords /\ 0 <= MaxHandledTokens
      OBVIOUS
    <2> QED
      BY <2>1, <2>2, <2>3, <2>4, <2>5 DEF ConnectTypeOK
  <1>2. PdataHolds(records) /\ JoinTokensDiffer(records) /\ RecordTokens(records) = {}
    BY DEF ConnectInit, PdataHolds, JoinTokensDiffer, RecordTokens
  <1>3. StagesHold
    BY DEF ConnectInit, StagesHold
  <1>4. Distinct(handledTokens)
    BY DEF ConnectInit, Distinct
  <1>5. RejectedHold
    BY DEF ConnectInit, RejectedHold
  <1> QED
    BY <1>1, <1>2, <1>3, <1>4, <1>5 DEF ConnectInit, ConnectInv, OnceHolds

LEMMA HeldTypes ==
    ASSUME ConnectInv
    PROVE  /\ records \in Seq(Records) /\ Len(records) <= MaxRecords
           /\ handledTokens \in Seq(JoinTokens) /\ Len(handledTokens) <= MaxHandledTokens
           /\ authenticated \in Seq(Uids) /\ Len(authenticated) <= MaxRecords
           /\ requests \subseteq RequestType /\ MaxRecords \in Nat /\ MaxHandledTokens \in Nat
           /\ \A r \in requests : r.token \in JoinTokens /\ r.token \in Tokens
  BY DEF ConnectInv, ConnectTypeOK, RequestType, Tokens

(* The lists stay as they are, and a request moves on or ends.             *)
LEMMA MovesInv ==
    ASSUME ConnectInv, NEW r \in requests, NEW next \in RequestType, next.token = r.token,
           Active(next) => Active(r), next.stage = "accept" => r.stage = "accept",
           next.stage \in {"record", "accept"} => next.pdata # NoSave,
           requests' = requests \ {r} \/ requests' = (requests \ {r}) \cup {next},
           UNCHANGED <<listed, records, handledTokens, authenticated, banned>>,
           answer' \in [JoinTokens -> {"none", "accepted", "rejected"}],
           \A t \in JoinTokens : answer'[t] = "accepted" => answer[t] = "accepted" \/ Kept(t),
           \A t \in JoinTokens : answer'[t] = "rejected" =>
               \/ answer[t] = "rejected"
               \/ t = r.token /\ Active(r) /\ requests' = requests \ {r}
    PROVE  ConnectInv'
  <1>1. ConnectTypeOK'
    BY DEF ConnectInv, ConnectTypeOK
  <1>2. StagesHold'
    BY DEF ConnectInv, StagesHold, Kept
  <1>3. TokensFit => OnceHolds'
    BY DEF ConnectInv, OnceHolds
  <1>4. ASSUME TokensFit PROVE RejectedHold'
    <2>1. OnceHolds /\ RejectedHold
      BY <1>4 DEF ConnectInv
    <2>2. ASSUME NEW q \in requests', Active(q)
          PROVE  q \in requests \/ (Active(r) /\ q.token = r.token)
      <3>1. q \in requests \/ q = next
        OBVIOUS
      <3>2. CASE q = next
        BY <2>2, <3>2
      <3> QED
        BY <3>1, <3>2
    <2> SUFFICES ASSUME NEW t \in JoinTokens, answer'[t] = "rejected"
                 PROVE  /\ Contains(handledTokens, t)
                        /\ t \notin RecordTokens(records)
                        /\ \A q \in requests' : Active(q) => q.token # t
      BY DEF RejectedHold
    <2>3. CASE answer[t] = "rejected"
      BY <2>1, <2>2, <2>3 DEF RejectedHold
    <2>4. CASE t = r.token /\ Active(r) /\ requests' = requests \ {r}
      BY <2>1, <2>4 DEF OnceHolds
    <2> QED
      BY <2>3, <2>4
  <1> QED
    BY <1>1, <1>2, <1>3, <1>4 DEF ConnectInv

(* A request with another stage, or another stage and pdata.               *)
LEMMA RequestAt ==
    ASSUME NEW r \in RequestType, NEW pdata \in Saves,
           NEW stage \in {"start", "checkBan", "reject", "fetch", "record", "accept"}
    PROVE  /\ [r EXCEPT !.stage = stage] \in RequestType
           /\ [r EXCEPT !.stage = stage].token = r.token
           /\ [r EXCEPT !.stage = stage].stage = stage
           /\ [r EXCEPT !.stage = stage].pdata = r.pdata
           /\ [r EXCEPT !.stage = stage, !.pdata = pdata] \in RequestType
           /\ [r EXCEPT !.stage = stage, !.pdata = pdata].token = r.token
           /\ [r EXCEPT !.stage = stage, !.pdata = pdata].stage = stage
           /\ [r EXCEPT !.stage = stage, !.pdata = pdata].pdata = pdata
  BY DEF RequestType

-----------------------------------------------------------------------------
(* The threads *)

LEMMA AtlasPacketInv ==
    ASSUME ConnectInv, NEW token \in JoinTokens, AtlasPacket(token)
    PROVE  ConnectInv'
  <1>1. PICK id \in ThreadIds : requests' = requests \cup
           {[id |-> id, token |-> token, stage |-> "start", pdata |-> NoSave]}
    BY DEF AtlasPacket
  <1> DEFINE new == [id |-> id, token |-> token, stage |-> "start", pdata |-> NoSave]
  <1>2. new \in RequestType /\ ~Active(new) /\ new.stage = "start"
    BY DEF RequestType, Active
  <1>3. requests' = requests \cup {new}
    BY <1>1
  <1>4. UNCHANGED <<listed, records, handledTokens, authenticated, banned, answer>>
    BY DEF AtlasPacket
  <1> HIDE DEF new
  <1>5. ConnectTypeOK'
    BY <1>2, <1>3, <1>4 DEF ConnectInv, ConnectTypeOK
  <1>6. StagesHold'
    BY <1>2, <1>3, <1>4 DEF ConnectInv, StagesHold, Kept
  <1>7. TokensFit => OnceHolds' /\ RejectedHold'
    BY <1>2, <1>3, <1>4 DEF ConnectInv, OnceHolds, RejectedHold
  <1> QED
    BY <1>4, <1>5, <1>6, <1>7 DEF ConnectInv

(* Steps after which only the request, or what Atlas was told, differs.    *)
LEMMA SimpleStepsInv ==
    ASSUME ConnectInv, NEW r \in requests,
           \/ IgnoreHandledToken(r) \/ CheckBan(r) \/ PostReject(r) \/ FetchFails(r)
           \/ PostAccept(r) \/ \E p \in Saves : FetchPdata(r, p)
    PROVE  ConnectInv'
  <1> USE HeldTypes DEF Ends, Advances, Becomes, StepAfter
  <1>1. answer \in [JoinTokens -> {"none", "accepted", "rejected"}] /\ r \in RequestType
    BY DEF ConnectInv, ConnectTypeOK
  <1>2. r.token \in JoinTokens
    BY <1>1 DEF RequestType
  <1>3. r.stage \in {"record", "accept"} => r.pdata # NoSave
    BY DEF ConnectInv, StagesHold
  <1>4. CASE IgnoreHandledToken(r) \/ FetchFails(r)
    BY <1>1, <1>3, <1>4, MovesInv DEF IgnoreHandledToken, FetchFails
  <1>5. CASE PostReject(r)
    <2>1. /\ requests' = requests \ {r}
          /\ UNCHANGED <<listed, records, handledTokens, authenticated, banned>>
          /\ answer' \in [JoinTokens -> {"none", "accepted", "rejected"}]
          /\ \A t \in JoinTokens : answer'[t] = "accepted" => answer[t] = "accepted"
          /\ \A t \in JoinTokens : answer'[t] = "rejected" => answer[t] = "rejected" \/ t = r.token
          /\ Active(r)
      BY <1>1, <1>2, <1>5 DEF PostReject, Active
    <2> QED
      BY <1>1, <1>3, <2>1, MovesInv
  <1>6. CASE PostAccept(r)
    <2>1. Kept(r.token)
      BY <1>6 DEF PostAccept, ConnectInv, StagesHold
    <2>2. /\ requests' = requests \ {r}
          /\ UNCHANGED <<listed, records, handledTokens, authenticated, banned>>
      BY <1>1, <1>6, RequestAt DEF PostAccept, RequestType
    <2>3. /\ answer' \in [JoinTokens -> {"none", "accepted", "rejected"}]
          /\ \A t \in JoinTokens : answer'[t] = "accepted" => answer[t] = "accepted" \/ t = r.token
          /\ \A t \in JoinTokens : answer'[t] = "rejected" => answer[t] = "rejected"
      BY <1>1, <1>2, <1>6 DEF PostAccept
    <2> QED
      BY <1>1, <1>3, <2>1, <2>2, <2>3, MovesInv
  <1>7. CASE CheckBan(r)
    <2>1. /\ r.stage = "checkBan"
          /\ UNCHANGED <<listed, records, handledTokens, authenticated, banned, answer>>
      BY <1>7 DEF CheckBan
    <2>2. PICK stage \in {"fetch", "reject"} :
             requests' = (requests \ {r}) \cup {[r EXCEPT !.stage = stage]}
      BY <1>1, <1>7, <2>1, RequestAt DEF CheckBan, RequestType
    <2> DEFINE next == [r EXCEPT !.stage = stage]
    <2>3. next \in RequestType /\ next.token = r.token /\ next.stage = stage
      BY <1>1, RequestAt DEF RequestType
    <2>4. requests' = (requests \ {r}) \cup {next}
      BY <2>2
    <2> HIDE DEF next
    <2> QED
      BY <1>1, <2>1, <2>3, <2>4, MovesInv DEF Active
  <1>8. ASSUME NEW p \in Saves, FetchPdata(r, p) PROVE ConnectInv'
    <2> DEFINE next == [r EXCEPT !.stage = "record", !.pdata = p]
    <2>1. /\ r.stage = "fetch"
          /\ UNCHANGED <<listed, records, handledTokens, authenticated, banned, answer>>
      BY <1>8 DEF FetchPdata
    <2>2. next \in RequestType /\ next.token = r.token /\ next.stage = "record" /\ next.pdata = p
      BY <1>1, <1>8 DEF RequestType
    <2>3. requests' = (requests \ {r}) \cup {next}
      BY <1>1, <1>8, <2>1, <2>2 DEF FetchPdata, RequestType
    <2> HIDE DEF next
    <2> QED
      BY <1>1, <2>1, <2>2, <2>3, MovesInv DEF Active
  <1> QED
    BY <1>4, <1>5, <1>6, <1>7, <1>8

LEMMA StartRequestInv ==
    ASSUME ConnectInv, NEW r \in requests, StartRequest(r)
    PROVE  ConnectInv'
  <1> DEFINE next == [r EXCEPT !.stage = "checkBan"]
  <1>1. /\ r.stage = "start" /\ ~Contains(handledTokens, r.token)
        /\ handledTokens' = PushCapped(handledTokens, r.token, MaxHandledTokens)
        /\ UNCHANGED <<listed, records, authenticated, banned, answer>>
    BY DEF StartRequest, ClaimToken
  <1>2. r \in RequestType /\ r.token \in JoinTokens
    BY HeldTypes
  <1>3. next \in RequestType /\ next.token = r.token /\ next.stage = "checkBan"
    BY <1>2 DEF RequestType
  <1>4. requests' = (requests \ {r}) \cup {next}
    BY <1>1, <1>2, <1>3 DEF StartRequest, Advances, Becomes, StepAfter, RequestType
  <1> HIDE DEF next
  <1>5. handledTokens' \in Seq(JoinTokens) /\ Len(handledTokens') <= MaxHandledTokens
    BY <1>1, <1>2, HeldTypes, PushProperties
  <1>6. ConnectTypeOK'
    BY <1>1, <1>3, <1>4, <1>5 DEF ConnectInv, ConnectTypeOK
  <1>7. StagesHold'
    BY <1>1, <1>3, <1>4 DEF ConnectInv, StagesHold, Kept
  <1>8. ASSUME TokensFit PROVE OnceHolds'
    <2>1. OnceHolds
      BY <1>8 DEF ConnectInv
    <2>2. Len(handledTokens) < MaxHandledTokens
      BY <1>1, <1>2, <1>8, <2>1, HeldTypes, RoomForToken DEF OnceHolds
    <2>3. \A t : Contains(handledTokens, t) \/ t = r.token => Contains(handledTokens', t)
      BY <1>1, <1>2, <2>2, HeldTypes, PushContains
    <2>4. Distinct(handledTokens')
      <3>1. Pushed(handledTokens, handledTokens', r.token, MaxHandledTokens)
        BY <1>1, <1>2, HeldTypes, PushProperties
      <3>2. /\ Len(handledTokens') = Len(handledTokens) + 1
            /\ \A i \in 1 .. Len(handledTokens') :
                  handledTokens'[i] = IF i = Len(handledTokens') THEN r.token ELSE handledTokens[i]
        BY <2>2, <3>1 DEF Pushed
      <3>3. DOMAIN handledTokens = 1 .. Len(handledTokens) /\ Len(handledTokens) \in Nat
            /\ DOMAIN handledTokens' = 1 .. Len(handledTokens')
        BY <1>5, HeldTypes
      <3>4. \A i \in 1 .. Len(handledTokens) : handledTokens[i] # r.token
        BY <1>1, <3>3 DEF Contains
      <3> QED
        BY <2>1, <3>2, <3>3, <3>4 DEF OnceHolds, Distinct
    <2>5. r.token \notin RecordTokens(records) /\ \A q \in requests : Active(q) => q.token # r.token
      BY <1>1, <1>2, <2>1 DEF OnceHolds
    <2>6. RecordTokens(records') = RecordTokens(records) /\ JoinTokensDiffer(records')
      BY <1>1, <2>1 DEF OnceHolds
    <2> QED
      BY <1>3, <1>4, <2>1, <2>3, <2>4, <2>5, <2>6 DEF OnceHolds
  <1>9. PdataHolds(records')
    BY <1>1 DEF ConnectInv
  <1>10. ASSUME TokensFit PROVE RejectedHold'
    <2>1. OnceHolds /\ RejectedHold
      BY <1>10 DEF ConnectInv
    <2>2. Len(handledTokens) < MaxHandledTokens
      BY <1>1, <1>2, <1>10, <2>1, HeldTypes, RoomForToken DEF OnceHolds
    <2>3. \A t : Contains(handledTokens, t) => Contains(handledTokens', t)
      BY <1>1, <1>2, <2>2, HeldTypes, PushContains
    <2>4. answer[r.token] # "rejected"
      BY <1>1, <1>2, <2>1 DEF RejectedHold
    <2> QED
      BY <1>1, <1>3, <1>4, <2>1, <2>3, <2>4 DEF RejectedHold
  <1> QED
    BY <1>6, <1>7, <1>8, <1>9, <1>10 DEF ConnectInv

-----------------------------------------------------------------------------
(* The lists *)

(* A new record of either kind keeps what was said of the tokens.          *)
LEMMA KeptStays ==
    ASSUME ConnectInv, NEW token \in Tokens, NEW pdata \in Saves,
           \/ records' = RecordConnect(records, token, pdata)
           \/ records' = RecordSelfAuth(records, token, pdata)
    PROVE  /\ records' \in Seq(Records) /\ Len(records') <= MaxRecords
           /\ \A t : Kept(t) \/ t = token => Kept(t)'
           /\ PdataHolds(records')
  <1>1. records \in Seq(Records) /\ Len(records) <= MaxRecords /\ PdataHolds(records)
    BY HeldTypes DEF ConnectInv
  <1>2. /\ records' \in Seq(Records) /\ Len(records') <= MaxRecords
        /\ Len(records') = MaxRecords \/ RecordTokens(records') = RecordTokens(records) \cup {token}
        /\ Len(records) = MaxRecords => Len(records') = MaxRecords
        /\ PdataHolds(records')
    BY <1>1, RecordKeeps
  <1> QED
    BY <1>2 DEF Kept

LEMMA AddRecordInv ==
    ASSUME ConnectInv, NEW r \in requests, AddRecord(r)
    PROVE  ConnectInv'
  <1> DEFINE next == [r EXCEPT !.stage = "accept"]
  <1>1. /\ r.stage = "record" /\ records' = RecordConnect(records, r.token, r.pdata)
        /\ UNCHANGED <<listed, handledTokens, authenticated, banned, answer>>
    BY DEF AddRecord
  <1>2. r \in RequestType /\ r.token \in JoinTokens /\ r.token \in Tokens
    BY HeldTypes
  <1>3. r.pdata # NoSave
    BY <1>1 DEF ConnectInv, StagesHold
  <1>4. r.pdata \in Saves
    BY <1>2, <1>3 DEF RequestType
  <1>5. next \in RequestType /\ next.token = r.token /\ next.stage = "accept" /\ next.pdata = r.pdata
    BY <1>2 DEF RequestType
  <1>6. requests' = (requests \ {r}) \cup {next}
    BY <1>1, <1>2, <1>5 DEF AddRecord, Advances, Becomes, StepAfter, RequestType
  <1> HIDE DEF next
  <1>7. /\ records' \in Seq(Records) /\ Len(records') <= MaxRecords /\ PdataHolds(records')
        /\ \A t : Kept(t) \/ t = r.token => Kept(t)'
    BY <1>1, <1>2, <1>4, KeptStays
  <1>8. ConnectTypeOK'
    BY <1>1, <1>5, <1>6, <1>7 DEF ConnectInv, ConnectTypeOK
  <1>9. StagesHold'
    <2>1. \A q \in requests' : q \in requests \/ q = next
      BY <1>6
    <2>2. \A q \in requests' : q.stage \in {"record", "accept"} => q.pdata # NoSave
      BY <1>3, <1>5, <2>1 DEF ConnectInv, StagesHold
    <2>3. \A q \in requests' : q.stage = "accept" => Kept(q.token)'
      BY <1>5, <1>7, <2>1 DEF ConnectInv, StagesHold
    <2>4. \A t \in JoinTokens : answer'[t] = "accepted" => Kept(t)'
      BY <1>1, <1>7 DEF ConnectInv, StagesHold
    <2> QED
      BY <2>2, <2>3, <2>4 DEF StagesHold
  <1>10. ASSUME TokensFit PROVE OnceHolds'
    <2>1. OnceHolds
      BY <1>10 DEF ConnectInv
    <2>2. Active(r) /\ ~Active(next)
      BY <1>1, <1>5 DEF Active
    <2>3. /\ Contains(handledTokens, r.token) /\ r.token \notin RecordTokens(records)
          /\ \A q \in requests : Active(q) /\ q # r => q.token # r.token
      BY <2>1, <2>2 DEF OnceHolds
    <2>4. RecordTokens(records') \subseteq RecordTokens(records) \cup {r.token}
      BY <1>1, <1>2, <1>4, HeldTypes, RecordKeeps
    <2>5. JoinTokensDiffer(records')
      BY <1>1, <1>2, <1>4, <2>1, <2>3, HeldTypes, RecordKeeps DEF OnceHolds
    <2>6. \A q \in requests' : Active(q) => q \in requests /\ q # r
      BY <1>6, <2>2
    <2> QED
      BY <1>1, <2>1, <2>3, <2>4, <2>5, <2>6 DEF OnceHolds
  <1>11. ASSUME TokensFit PROVE RejectedHold'
    <2>1. RejectedHold /\ Active(r) /\ ~Active(next)
      BY <1>1, <1>5, <1>11 DEF ConnectInv, Active
    <2>2. answer[r.token] # "rejected"
      BY <1>2, <2>1 DEF RejectedHold
    <2>3. RecordTokens(records') \subseteq RecordTokens(records) \cup {r.token}
      BY <1>1, <1>2, <1>4, HeldTypes, RecordKeeps
    <2>4. \A q \in requests' : Active(q) => q \in requests
      BY <1>6, <2>1
    <2> QED
      BY <1>1, <2>1, <2>2, <2>3, <2>4 DEF RejectedHold
  <1> QED
    BY <1>1, <1>7, <1>8, <1>9, <1>10, <1>11 DEF ConnectInv

LEMMA AddSelfAuthRecordInv ==
    ASSUME ConnectInv, NEW uid \in HostUids, NEW pdata \in Saves, AddSelfAuthRecord(uid, pdata)
    PROVE  ConnectInv'
  <1> DEFINE token == <<uid, 0>>
  <1>1. token \in Tokens /\ token \notin JoinTokens
    BY DEF Tokens, SelfTokens, JoinTokens
  <1>2. /\ records' = RecordSelfAuth(records, token, pdata)
        /\ UNCHANGED <<listed, handledTokens, authenticated, banned, requests, answer>>
    BY DEF AddSelfAuthRecord
  <1> HIDE DEF token
  <1>3. /\ records' \in Seq(Records) /\ Len(records') <= MaxRecords /\ PdataHolds(records')
        /\ \A t : Kept(t) => Kept(t)'
    BY <1>1, <1>2, KeptStays
  <1>4. ConnectTypeOK'
    BY <1>2, <1>3 DEF ConnectInv, ConnectTypeOK
  <1>5. StagesHold'
    BY <1>2, <1>3 DEF ConnectInv, StagesHold
  <1>6. ASSUME TokensFit PROVE OnceHolds'
    <2>1. OnceHolds
      BY <1>6 DEF ConnectInv
    <2>2. RecordTokens(records') \subseteq RecordTokens(records) \cup {token}
      BY <1>1, <1>2, HeldTypes, RecordKeeps
    <2>3. JoinTokensDiffer(records')
      BY <1>1, <1>2, <2>1, HeldTypes, RecordKeeps DEF OnceHolds
    <2> QED
      BY <1>1, <1>2, <2>1, <2>2, <2>3, HeldTypes DEF OnceHolds
  <1>7. ASSUME TokensFit PROVE RejectedHold'
    <2>1. RecordTokens(records') \subseteq RecordTokens(records) \cup {token}
      BY <1>1, <1>2, HeldTypes, RecordKeeps
    <2> QED
      BY <1>1, <1>2, <1>7, <2>1 DEF ConnectInv, RejectedHold
  <1> QED
    BY <1>2, <1>3, <1>4, <1>5, <1>6, <1>7 DEF ConnectInv

LEMMA GameThreadInv ==
    ASSUME ConnectInv,
           \/ \E t \in Tokens : ConnectWithToken(t)
           \/ \E u \in Uids : Ban(u) \/ LiftBan(u)
           \/ ListingChanges
           \/ UNCHANGED recordVars
    PROVE  ConnectInv'
  <1>1. UNCHANGED <<records, handledTokens, requests, answer>>
    BY DEF ConnectWithToken, Ban, LiftBan, ListingChanges, recordVars
  <1>2. listed' \in BOOLEAN /\ banned' \subseteq Uids
    BY DEF ConnectInv, ConnectTypeOK, ConnectWithToken, Ban, LiftBan, ListingChanges, recordVars
  <1>3. authenticated' \in Seq(Uids) /\ Len(authenticated') <= MaxRecords
    <2>1. ASSUME NEW t \in Tokens, ConnectWithToken(t)
          PROVE  authenticated' \in Seq(Uids) /\ Len(authenticated') <= MaxRecords
      <3>1. Account(t) \in Uids
        BY DEF Account, Tokens, JoinTokens, SelfTokens
      <3> QED
        BY <2>1, <3>1, HeldTypes, PushProperties DEF ConnectWithToken, NoteConnectRequest
    <2>2. CASE UNCHANGED authenticated
      BY <2>2, HeldTypes
    <2> QED
      BY <2>1, <2>2 DEF Ban, LiftBan, ListingChanges, recordVars
  <1>4. ConnectTypeOK'
    BY <1>1, <1>2, <1>3 DEF ConnectInv, ConnectTypeOK
  <1>5. StagesHold' /\ PdataHolds(records') /\ (TokensFit => OnceHolds' /\ RejectedHold')
    BY <1>1 DEF ConnectInv, StagesHold, Kept, OnceHolds, RejectedHold
  <1> QED
    BY <1>2, <1>4, <1>5 DEF ConnectInv

LEMMA ConnectNextInv == ConnectInv /\ [ConnectNext]_recordVars => ConnectInv'
  BY AtlasPacketInv, SimpleStepsInv, StartRequestInv, AddRecordInv, AddSelfAuthRecordInv, GameThreadInv
     DEF ConnectNext

LEMMA ConnectInvariance == ConnectSpec => []ConnectInv
  BY ConnectInitInv, ConnectNextInv, PTL DEF ConnectSpec

-----------------------------------------------------------------------------
(* Types, and the caps of the three lists.                                 *)
THEOREM JoinsTypeCorrect == ConnectSpec => []ConnectTypeOK
  <1>1. ConnectInv => ConnectTypeOK
    BY DEF ConnectInv
  <1> QED
    BY <1>1, ConnectInvariance, PTL

(* The newest records keep their pdata and the others' is bounded, however *)
(* joins and the host's own sessions alternate (AddConnectRecord).         *)
THEOREM PdataIsKept == ConnectSpec => []PdataKept
  <1>1. ConnectInv => PdataKept
    <2> SUFFICES ASSUME ConnectInv PROVE PdataKept
      OBVIOUS
    <2>1. PdataBounded
      BY HeldTypes, PdataCounted DEF ConnectInv, PdataBounded
    <2>2. NewestKeepPdata
      BY DEF ConnectInv, PdataHolds, NewestKeepPdata
    <2> QED
      BY <2>1, <2>2 DEF PdataKept
  <1> QED
    BY <1>1, ConnectInvariance, PTL

LEMMA AcceptedHeld == ConnectInv => AcceptedIsRecorded
  BY DEF ConnectInv, StagesHold, Kept, RecordTokens, AcceptedIsRecorded

(* A set whose members are all equal has at most one.                      *)
LEMMA AtMostOne ==
    ASSUME NEW S, \A x, y \in S : x = y
    PROVE  IsFiniteSet(S) /\ Cardinality(S) \in {0, 1} /\ (Cardinality(S) = 1 => S # {})
  <1>1. CASE S = {}
    BY <1>1, FS_EmptySet
  <1>2. CASE S # {}
    <2>1. PICK x : x \in S
      BY <1>2
    <2>2. S = {x}
      BY <2>1
    <2> QED
      BY <2>2, FS_Singleton
  <1> QED
    BY <1>1, <1>2

LEMMA HandledHeld == ConnectInv /\ TokensFit => HandledOnce
  <1> SUFFICES ASSUME ConnectInv, TokensFit, NEW t \in JoinTokens
               PROVE  Cardinality({r \in requests : r.token = t /\ r.stage \notin {"start", "accept"}})
                        + Cardinality({i \in DOMAIN records : records[i].token = t}) <= 1
    BY DEF HandledOnce
  <1> DEFINE active == {r \in requests : r.token = t /\ r.stage \notin {"start", "accept"}}
             recorded == {i \in DOMAIN records : records[i].token = t}
  <1>1. OnceHolds
    BY DEF ConnectInv
  <1>2. Cardinality(active) \in {0, 1} /\ (Cardinality(active) = 1 => active # {})
    <2>1. \A r, q \in active : r = q
      BY <1>1 DEF OnceHolds, Active
    <2> HIDE DEF active
    <2> QED
      BY <2>1, AtMostOne
  <1>3. Cardinality(recorded) \in {0, 1} /\ (Cardinality(recorded) = 1 => recorded # {})
    <2>1. \A i, j \in recorded : i = j
      BY <1>1 DEF OnceHolds, JoinTokensDiffer
    <2> HIDE DEF recorded
    <2> QED
      BY <2>1, AtMostOne
  <1>4. active = {} \/ recorded = {}
    BY <1>1 DEF OnceHolds, Active, RecordTokens
  <1> HIDE DEF active, recorded
  <1>5. Cardinality(active) + Cardinality(recorded) <= 1
    BY <1>2, <1>3, <1>4
  <1> QED
    BY <1>5 DEF active, recorded

(* An accepted join is recorded, and as long as no handled token is pushed *)
(* out it is handled and recorded once (ProcessSigreq1).                   *)
THEOREM JoinsOnce == TokensFit => (ConnectSpec => []JoinsRecordedOnce)
  <1> SUFFICES ASSUME TokensFit PROVE ConnectSpec => []JoinsRecordedOnce
    OBVIOUS
  <1>1. ConnectInv => JoinsRecordedOnce
    BY AcceptedHeld, HandledHeld DEF JoinsRecordedOnce
  <1> QED
    BY <1>1, ConnectInvariance, PTL

(* An accepted join is recorded, whatever is pushed out.                   *)
THEOREM AcceptedJoinsRecorded == ConnectSpec => []AcceptedIsRecorded
  BY AcceptedHeld, ConnectInvariance, PTL

(* A rejected join is never recorded, as long as no handled token is       *)
(* pushed out, however often its packet is repeated (ProcessSigreq1).      *)
THEOREM RejectedStayOut == TokensFit => (ConnectSpec => []RejectedNotRecorded)
  <1> SUFFICES ASSUME TokensFit PROVE ConnectSpec => []RejectedNotRecorded
    OBVIOUS
  <1>1. ConnectInv => RejectedNotRecorded
    BY DEF ConnectInv, RejectedHold, RecordTokens, RejectedNotRecorded
  <1> QED
    BY <1>1, ConnectInvariance, PTL

-----------------------------------------------------------------------------
(* The bans.                                                               *)
-----------------------------------------------------------------------------
Following(at) == at \in {"reading", "nul", "copy"}

(* A read of the file as it is, with no late NUL to come: the buffer still *)
(* holds what it has read.                                                 *)
Holds(t) ==
    /\ reads[t].used <= Len(file)
    /\ \A i \in 1 .. reads[t].used : text[i] = file[i]
    /\ reads[t].at \in {"nul", "copy"} => reads[t].used = Len(file)
    /\ reads[t].banned = IsBanned(file, reads[t].uid)
    /\ \A s \in Threads \ {t} : ~LateNul(s)

ReadsHold ==
    \A t \in Threads : Following(reads[t].at) /\ reads[t].undisturbed /\ reads[t].clear => Holds(t)

(* What the game thread has read for a command is the file or lines that   *)
(* somebody's NUL has hidden.                                              *)
GameHolds ==
    /\ Following(reads[Game].at)
    /\ reads[Game].used <= Len(file)
    /\ \A i \in 1 .. reads[Game].used : text[i] \in {file[i], Void}

EditHolds ==
    /\ edit.stage = "none" => edit = NoEdit
    /\ edit.stage = "read" => /\ edit.op \in {"ban", "unban"} /\ edit.uid \in Players
                              /\ GameHolds

BansInv == BansTypeOK /\ ReadsHold /\ EditHolds /\ ChecksAreExact /\ EditChangesOnePlayer

USE VoidAssumption, GameAssumption, CapacityAssumption

-----------------------------------------------------------------------------
(* The game thread in no command.                                          *)
LEMMA NoEditGives ==
    /\ NoEdit \in Edits
    /\ NoEdit.op = "none" /\ NoEdit.stage = "none"
  <1>1. << >> \in Seq(Lines)
    BY EmptySeq
  <1> QED
    BY <1>1 DEF NoEdit, Edits, Ops, Lines

LEMMA GameIsThread == Game \in Threads
  BY DEF Threads

LEMMA LinesTypes ==
    ASSUME BansTypeOK
    PROVE  /\ file \in Seq(Lines) /\ Len(file) \in Nat /\ DOMAIN file = 1 .. Len(file)
           /\ \A i \in 1 .. Len(file) : file[i] \in Lines
           /\ \A i \in 1 .. Capacity : text[i] \in Lines
           /\ \A t \in Threads : reads[t] \in ReadStates
  BY DEF BansTypeOK

(* What a thread copies, line by line.                                     *)
LEMMA CopyGives ==
    ASSUME BansTypeOK, NEW t \in Threads
    PROVE  /\ Copy(t) \in Seq(Lines)
           /\ Len(Copy(t)) = reads[t].used
           /\ \A i \in 1 .. reads[t].used : Copy(t)[i] = text[i]
  <1>1. text \in Seq(Lines) /\ Len(text) = Capacity
    BY DEF BansTypeOK
  <1>2. reads[t].used \in 0 .. Capacity - 1
    BY LinesTypes DEF ReadStates
  <1> QED
    BY <1>1, <1>2 DEF Copy

(* A copy that the buffer still holds is the file.                         *)
LEMMA CopyIsFile ==
    ASSUME BansTypeOK, NEW t \in Threads, reads[t].at = "copy", Holds(t)
    PROVE  Copy(t) = file
  BY CopyGives, LinesTypes, SeqEqual DEF Holds

(* A ban adds its player and an unban removes it; nobody else is touched.  *)
LEMMA BanAdds ==
    ASSUME NEW list \in Seq(Lines), NEW u \in Players
    PROVE  BanFor(list, u) \in Seq(Lines) /\ BannedIn(BanFor(list, u)) = BannedIn(list) \cup {u}
  <1>1. /\ BanFor(list, u) \in Seq(Lines)
        /\ Len(list) \in Nat /\ DOMAIN list = 1 .. Len(list)
        /\ DOMAIN BanFor(list, u) = 1 .. Len(list) + 1
        /\ BanFor(list, u)[Len(list) + 1] = u
        /\ \A i \in 1 .. Len(list) : BanFor(list, u)[i] = list[i]
    BY DEF BanFor, Lines
  <1>2. \A v : IsBanned(BanFor(list, u), v) <=> IsBanned(list, v) \/ v = u
    BY <1>1 DEF IsBanned
  <1>. QED
    BY <1>1, <1>2 DEF BannedIn

LEMMA UnbanRemoves ==
    ASSUME NEW list \in Seq(Lines), NEW u \in Players
    PROVE  Unban(list, u) \in Seq(Lines) /\ BannedIn(Unban(list, u)) = BannedIn(list) \ {u}
  <1>1. /\ Unban(list, u) \in Seq(Lines)
        /\ DOMAIN Unban(list, u) = DOMAIN list
        /\ \A i \in DOMAIN list : Unban(list, u)[i] = IF list[i] = u THEN Void ELSE list[i]
    BY DEF Unban, Lines
  <1>2. \A v \in Players : IsBanned(Unban(list, u), v) <=> IsBanned(list, v) /\ v # u
    BY <1>1 DEF IsBanned
  <1>. QED
    BY <1>1, <1>2 DEF BannedIn

-----------------------------------------------------------------------------
(* A step of one thread's read or check: it may put lines of the file in   *)
(* the buffer, and a NUL that is late hurts no read that is clear.         *)
LEMMA ReadStep ==
    ASSUME BansInv, NEW t \in Threads, NEW r \in ReadStates,
           reads' = [reads EXCEPT ![t] = r],
           file' = file, text' \in [1 .. Capacity -> Lines],
           \A i \in 1 .. Capacity : i <= Len(file) =>
               /\ text'[i] \in {text[i], file[i], Void}
               /\ ~LateNul(t) => text'[i] \in {text[i], file[i]},
           r.at = "nul" /\ r.used < Len(file) => LateNul(t),
           Following(r.at) /\ r.undisturbed /\ r.clear =>
               /\ r.used <= Len(file)
               /\ \A i \in 1 .. r.used : text'[i] = file[i]
               /\ r.at \in {"nul", "copy"} => r.used = Len(file)
               /\ r.banned = IsBanned(file, r.uid)
               /\ \A s \in Threads \ {t} : ~LateNul(s),
           r.undisturbed /\ r.clear =>
               /\ r.at = "allowed" => ~r.banned
               /\ r.at = "rejected" => r.banned
    PROVE  /\ reads' \in [Threads -> ReadStates]
           /\ ReadsHold' /\ ChecksAreExact'
           /\ t # Game /\ GameHolds => GameHolds'
  <1>1. /\ reads'[t] = r
        /\ \A s \in Threads \ {t} : reads'[s] = reads[s]
        /\ reads' \in [Threads -> ReadStates]
    BY DEF BansInv, BansTypeOK
  <1>2. /\ Len(file) \in Nat
        /\ \A s \in Threads : reads[s].used \in 0 .. Capacity - 1
    BY LinesTypes DEF BansInv, ReadStates
  <1>3. \A s \in Threads : LateNul(s)' => LateNul(s)
    BY <1>1 DEF LateNul
  <1>4. ReadsHold'
    <2> SUFFICES ASSUME NEW s \in Threads, Following(reads'[s].at), reads'[s].undisturbed,
                        reads'[s].clear
                 PROVE  Holds(s)'
      BY DEF ReadsHold, Following
    <2>1. CASE s = t
      <3>1. \A q \in Threads \ {s} : ~LateNul(q)'
        BY <2>1, <1>1, <1>3
      <3>2. Following(r.at) /\ r.undisturbed /\ r.clear
        BY <2>1, <1>1
      <3> QED
        BY <2>1, <3>1, <3>2, <1>1 DEF Holds, IsBanned
    <2>2. CASE s # t
      <3>1. reads'[s] = reads[s] /\ Holds(s)
        BY <2>2, <1>1 DEF BansInv, ReadsHold
      <3>2. ~LateNul(t)
        BY <2>2, <3>1 DEF Holds
      <3>3. \A i \in 1 .. reads[s].used : text'[i] = file[i]
        BY <3>1, <3>2, <1>2 DEF Holds
      <3>4. \A q \in Threads \ {s} : ~LateNul(q)'
        BY <3>1, <1>3 DEF Holds
      <3>5. reads[s].banned = IsBanned(file, reads[s].uid) /\ file' = file
        BY <3>1 DEF Holds
      <3>6. reads'[s].banned = IsBanned(file', reads'[s].uid)
        BY <3>1, <3>5
      <3>7. /\ reads'[s].used <= Len(file')
            /\ \A i \in 1 .. reads'[s].used : text'[i] = file'[i]
            /\ reads'[s].at \in {"nul", "copy"} => reads'[s].used = Len(file')
        BY <3>1, <3>3, <3>5 DEF Holds
      <3> QED
        BY <3>4, <3>6, <3>7 DEF Holds
    <2> QED
      BY <2>1, <2>2
  <1>5. ChecksAreExact'
    BY <1>1 DEF BansInv, ChecksAreExact
  <1>6. ASSUME t # Game, GameHolds PROVE GameHolds'
    <2>1. reads'[Game] = reads[Game] /\ reads[Game].used \in 0 .. Capacity - 1
      BY <1>1, <1>2, <1>6, GameIsThread
    <2>2. \A i \in 1 .. reads[Game].used : i \in 1 .. Capacity /\ i <= Len(file)
      BY <1>2, <1>6, <2>1 DEF GameHolds
    <2> QED
      BY <1>6, <2>1, <2>2 DEF GameHolds
  <1> QED
    BY <1>1, <1>4, <1>5, <1>6

(* ... and it is a step of the whole component when the game thread's own  *)
(* read for a command goes on as it should.                                *)
LEMMA ReadStepKeeps ==
    ASSUME BansInv, NEW t \in Threads, file' = file, edit' = edit,
           text' \in [1 .. Capacity -> Lines],
           reads' \in [Threads -> ReadStates], ReadsHold', ChecksAreExact',
           t # Game /\ GameHolds => GameHolds',
           t = Game /\ edit.stage = "read" => GameHolds'
    PROVE  BansInv'
  <1>1. BansTypeOK'
    BY DEF BansInv, BansTypeOK
  <1>2. EditHolds'
    BY DEF BansInv, EditHolds
  <1>3. EditChangesOnePlayer'
    BY DEF BansInv, EditChangesOnePlayer, BannedIn, IsBanned
  <1> QED
    BY <1>1, <1>2, <1>3 DEF BansInv

(* Opening the file starts a read that is clear if no late NUL is pending. *)
LEMMA OpensGives ==
    ASSUME BansInv, NEW t \in Threads, NEW u \in Players, Opens(t, u), UNCHANGED file
    PROVE  /\ text' = text /\ text' \in [1 .. Capacity -> Lines]
           /\ reads' \in [Threads -> ReadStates]
           /\ ReadsHold' /\ ChecksAreExact'
           /\ t # Game /\ GameHolds => GameHolds'
           /\ t = Game => GameHolds'
  <1> DEFINE b == IsBanned(file, u)
             c == \A s \in Threads \ {t} : ~LateNul(s)
             r == [at |-> "reading", uid |-> u, used |-> 0, undisturbed |-> TRUE,
                   clear |-> c, banned |-> b]
  <1>1. b \in BOOLEAN /\ c \in BOOLEAN
    BY DEF IsBanned
  <1>2. r \in ReadStates
    BY <1>1 DEF ReadStates, Lines
  <1>3. reads' = [reads EXCEPT ![t] = r] /\ text' = text
    BY DEF Opens
  <1>4. text' \in [1 .. Capacity -> Lines] /\ reads \in [Threads -> ReadStates]
    BY <1>3 DEF BansInv, BansTypeOK
  <1>5. /\ r.at = "reading" /\ r.used = 0 /\ r.clear = c /\ r.banned = IsBanned(file, r.uid)
    OBVIOUS
  <1>6. reads'[t].at = "reading" /\ reads'[t].used = 0
    BY <1>3, <1>4
  <1>7. Len(file) \in Nat
    BY LinesTypes DEF BansInv
  <1>8. c => \A s \in Threads \ {t} : ~LateNul(s)
    OBVIOUS
  <1>9. t = Game => GameHolds'
    BY <1>6, <1>7 DEF GameHolds, Following
  <1> HIDE DEF r, c, b
  <1>in. \A i \in 1 .. Capacity : i <= Len(file) =>
               /\ text'[i] \in {text[i], file[i], Void}
               /\ ~LateNul(t) => text'[i] \in {text[i], file[i]}
    BY <1>3
  <1>mine. Following(r.at) /\ r.undisturbed /\ r.clear =>
               /\ r.used <= Len(file)
               /\ \A i \in 1 .. r.used : text'[i] = file[i]
               /\ r.at \in {"nul", "copy"} => r.used = Len(file)
               /\ r.banned = IsBanned(file, r.uid)
               /\ \A s \in Threads \ {t} : ~LateNul(s)
    BY <1>5, <1>7, <1>8
  <1>10. /\ reads' \in [Threads -> ReadStates]
         /\ ReadsHold' /\ ChecksAreExact'
         /\ t # Game /\ GameHolds => GameHolds'
    BY <1>2, <1>3, <1>4, <1>5, <1>in, <1>mine, ReadStep
  <1> QED
    BY <1>3, <1>4, <1>9, <1>10

LEMMA CheckPreserves ==
    ASSUME BansInv, NEW t \in Threads, NEW u \in Players, Check(t, u)
    PROVE  BansInv'
  <1>1. Opens(t, u) /\ file' = file /\ edit' = edit
    BY DEF Check
  <1> QED
    BY <1>1, OpensGives, ReadStepKeeps

(* A read that gives up is disturbed.                                      *)
LEMMA NothingReadGives ==
    ASSUME NEW r \in ReadStates
    PROVE  /\ NothingRead(r) \in ReadStates
           /\ NothingRead(r).at = "copy" /\ NothingRead(r).used = 0
           /\ ~NothingRead(r).undisturbed
  <1>1. Forgotten(r) \in ReadStates /\ ~Forgotten(r).undisturbed
    BY DEF Forgotten, ReadStates
  <1> DEFINE q == Forgotten(r)
             c == [q EXCEPT !.at = "copy"]
  <1>2. c \in ReadStates /\ c.at = "copy" /\ ~c.undisturbed
    <2>1. q \in ReadStates /\ ~q.undisturbed
      BY <1>1
    <2> HIDE DEF q
    <2> QED
      BY <2>1 DEF ReadStates
  <1>3. NothingRead(r) = [c EXCEPT !.used = 0]
    BY DEF NothingRead
  <1>4. 0 \in 0 .. Capacity - 1
    OBVIOUS
  <1> HIDE DEF q, c
  <1> QED
    BY <1>2, <1>3, <1>4 DEF ReadStates

LEMMA ReadMorePreserves ==
    ASSUME BansInv, NEW t \in Threads, ReadMore(t)
    PROVE  BansInv'
  <1>0. reads[t] \in ReadStates /\ Len(file) \in Nat
    BY LinesTypes DEF BansInv
  <1>1. PICK n \in 1 .. Capacity - reads[t].used :
          /\ reads[t].used + n <= Len(file)
          /\ text' = [i \in 1 .. Capacity |->
                        IF i \in reads[t].used + 1 .. reads[t].used + n THEN file[i] ELSE text[i]]
          /\ reads' = [reads EXCEPT ![t] = WithMore(reads[t], n)]
    BY DEF ReadMore
  <1>2. file' = file /\ edit' = edit /\ reads[t].at = "reading" /\ reads[t].used \in 0 .. Capacity - 1
    BY <1>0 DEF ReadMore, ReadStates
  <1> DEFINE r == WithMore(reads[t], n)
  <1>3. reads' = [reads EXCEPT ![t] = r]
    BY <1>1
  <1>4. text' \in [1 .. Capacity -> Lines]
    <2>1. \A i \in 1 .. Capacity : i \in reads[t].used + 1 .. reads[t].used + n => i \in 1 .. Len(file)
      BY <1>0, <1>1, <1>2
    <2> QED
      BY <1>1, <2>1, LinesTypes DEF BansInv
  <1>5. \A i \in 1 .. Capacity : text'[i] = IF i \in reads[t].used + 1 .. reads[t].used + n
                                           THEN file[i] ELSE text[i]
    BY <1>1
  <1>6. /\ r \in ReadStates /\ r.at \in {"reading", "copy"}
        /\ r.undisturbed => /\ r.at = "reading" /\ r.used = reads[t].used + n
                            /\ r.undisturbed = reads[t].undisturbed /\ r.clear = reads[t].clear
                            /\ r.banned = reads[t].banned /\ r.uid = reads[t].uid
        /\ r.used \in {0, reads[t].used + n}
    <2>1. CASE Full(reads[t].used + n)
      BY <2>1, <1>0, NothingReadGives DEF WithMore
    <2>2. CASE ~Full(reads[t].used + n)
      <3>1. reads[t].used + n \in 0 .. Capacity - 1
        BY <2>2, <1>2 DEF Full
      <3>2. ASSUME NEW m \in 0 .. Capacity - 1, NEW q \in ReadStates
            PROVE  LET s == [q EXCEPT !.used = m]
                   IN /\ s \in ReadStates /\ s.at = q.at /\ s.used = m
                      /\ s.undisturbed = q.undisturbed /\ s.clear = q.clear
                      /\ s.banned = q.banned /\ s.uid = q.uid
        BY DEF ReadStates
      <3>3. r = [reads[t] EXCEPT !.used = reads[t].used + n]
        BY <2>2 DEF WithMore
      <3> HIDE DEF r
      <3> QED
        BY <1>0, <1>2, <3>1, <3>2, <3>3
    <2> QED
      BY <2>1, <2>2
  <1> HIDE DEF r
  <1>7. Following(r.at) /\ r.undisturbed /\ r.clear =>
               /\ r.used <= Len(file)
               /\ \A i \in 1 .. r.used : text'[i] = file[i]
               /\ r.at \in {"nul", "copy"} => r.used = Len(file)
               /\ r.banned = IsBanned(file, r.uid)
               /\ \A s \in Threads \ {t} : ~LateNul(s)
    <2> SUFFICES ASSUME r.undisturbed, r.clear
                 PROVE  /\ r.used <= Len(file)
                        /\ \A i \in 1 .. r.used : text'[i] = file[i]
                        /\ r.at = "reading"
                        /\ r.banned = IsBanned(file, r.uid)
                        /\ \A s \in Threads \ {t} : ~LateNul(s)
      OBVIOUS
    <2>1. Holds(t)
      BY <1>2, <1>6 DEF BansInv, ReadsHold, Following
    <2>2. \A i \in 1 .. r.used : i \in 1 .. Capacity
      BY <1>6, <1>0 DEF ReadStates
    <2>3. \A i \in 1 .. r.used : text'[i] = file[i]
      BY <2>1, <2>2, <1>0, <1>1, <1>2, <1>5, <1>6 DEF Holds
    <2> QED
      BY <2>1, <2>3, <1>1, <1>6 DEF Holds
  <1>8. \A i \in 1 .. Capacity : text'[i] \in {text[i], file[i]}
    BY <1>5
  <1>9. /\ reads' \in [Threads -> ReadStates]
        /\ ReadsHold' /\ ChecksAreExact'
        /\ t # Game /\ GameHolds => GameHolds'
    BY <1>2, <1>3, <1>4, <1>6, <1>7, <1>8, ReadStep
  <1>10. ASSUME t = Game, edit.stage = "read" PROVE GameHolds'
    <2>1. GameHolds
      BY <1>10 DEF BansInv, EditHolds
    <2>2. reads'[Game] = r
      BY <1>3, <1>10, GameIsThread DEF BansInv, BansTypeOK
    <2>3. \A i \in 1 .. r.used : i \in 1 .. Capacity
      BY <1>6, <1>0 DEF ReadStates
    <2>4. r.used <= Len(file)
      BY <1>0, <1>1, <1>6
    <2>5. \A i \in 1 .. r.used : text'[i] \in {file[i], Void}
      BY <2>1, <2>3, <1>0, <1>1, <1>2, <1>5, <1>6, <1>10 DEF GameHolds
    <2> QED
      BY <2>2, <2>4, <2>5, <1>2, <1>6 DEF GameHolds, Following
  <1> QED
    BY <1>2, <1>4, <1>9, <1>10, ReadStepKeeps

LEMMA EndOfFilePreserves ==
    ASSUME BansInv, NEW t \in Threads, EndOfFile(t)
    PROVE  BansInv'
  <1>0. reads[t] \in ReadStates /\ Len(file) \in Nat
    BY LinesTypes DEF BansInv
  <1>1. /\ reads[t].at = "reading" /\ reads[t].used >= Len(file)
        /\ file' = file /\ edit' = edit /\ text' = text
    BY DEF EndOfFile
  <1> DEFINE r == [reads[t] EXCEPT !.at = "nul"]
  <1>2. reads' = [reads EXCEPT ![t] = r]
    BY DEF EndOfFile, BansInv, BansTypeOK
  <1>3. /\ r \in ReadStates /\ r.at = "nul" /\ r.used = reads[t].used
        /\ r.undisturbed = reads[t].undisturbed /\ r.clear = reads[t].clear
        /\ r.banned = reads[t].banned /\ r.uid = reads[t].uid /\ reads[t].used \in Nat
    BY <1>0 DEF ReadStates
  <1> HIDE DEF r
  <1>4. r.undisturbed /\ r.clear => Holds(t)
    BY <1>1, <1>3 DEF BansInv, ReadsHold, Following
  <1>5. Following(r.at) /\ r.undisturbed /\ r.clear =>
               /\ r.used <= Len(file)
               /\ \A i \in 1 .. r.used : text'[i] = file[i]
               /\ r.at \in {"nul", "copy"} => r.used = Len(file)
               /\ r.banned = IsBanned(file, r.uid)
               /\ \A s \in Threads \ {t} : ~LateNul(s)
    BY <1>0, <1>1, <1>3, <1>4 DEF Holds
  <1>6. text' \in [1 .. Capacity -> Lines]
    BY <1>1 DEF BansInv, BansTypeOK
  <1>in. \A i \in 1 .. Capacity : i <= Len(file) =>
               /\ text'[i] \in {text[i], file[i], Void}
               /\ ~LateNul(t) => text'[i] \in {text[i], file[i]}
    BY <1>1
  <1>late. ~(r.used < Len(file))
    BY <1>0, <1>1, <1>3
  <1>7. /\ reads' \in [Threads -> ReadStates]
        /\ ReadsHold' /\ ChecksAreExact'
        /\ t # Game /\ GameHolds => GameHolds'
    BY <1>1, <1>2, <1>3, <1>5, <1>6, <1>in, <1>late, ReadStep
  <1>8. ASSUME t = Game, edit.stage = "read" PROVE GameHolds'
    <2>1. GameHolds /\ reads'[Game] = r
      BY <1>2, <1>8, GameIsThread DEF BansInv, EditHolds, BansTypeOK
    <2> QED
      BY <2>1, <1>1, <1>3, <1>8 DEF GameHolds, Following
  <1> QED
    BY <1>1, <1>6, <1>7, <1>8, ReadStepKeeps

LEMMA PutNulPreserves ==
    ASSUME BansInv, NEW t \in Threads, PutNul(t)
    PROVE  BansInv'
  <1>0. reads[t] \in ReadStates /\ Len(file) \in Nat
    BY LinesTypes DEF BansInv
  <1>1. /\ reads[t].at = "nul"
        /\ file' = file /\ edit' = edit /\ text' = [text EXCEPT ![reads[t].used + 1] = Void]
    BY DEF PutNul
  <1> DEFINE r == [reads[t] EXCEPT !.at = "copy"]
  <1>2. reads' = [reads EXCEPT ![t] = r]
    BY DEF PutNul, BansInv, BansTypeOK
  <1>3. /\ r \in ReadStates /\ r.at = "copy" /\ r.used = reads[t].used
        /\ r.undisturbed = reads[t].undisturbed /\ r.clear = reads[t].clear
        /\ r.banned = reads[t].banned /\ r.uid = reads[t].uid
        /\ reads[t].used \in 0 .. Capacity - 1
    BY <1>0 DEF ReadStates
  <1> HIDE DEF r
  <1>4. /\ text' \in [1 .. Capacity -> Lines]
        /\ \A i \in 1 .. Capacity : text'[i] = IF i = reads[t].used + 1 THEN Void ELSE text[i]
    BY <1>1 DEF BansInv, BansTypeOK, Lines
  <1>5. \A i \in 1 .. Capacity : i <= Len(file) =>
               /\ text'[i] \in {text[i], file[i], Void}
               /\ ~LateNul(t) => text'[i] \in {text[i], file[i]}
    BY <1>0, <1>1, <1>3, <1>4 DEF LateNul
  <1>6. r.undisturbed /\ r.clear => Holds(t)
    BY <1>1, <1>3 DEF BansInv, ReadsHold, Following
  <1>7. Following(r.at) /\ r.undisturbed /\ r.clear =>
               /\ r.used <= Len(file)
               /\ \A i \in 1 .. r.used : text'[i] = file[i]
               /\ r.at \in {"nul", "copy"} => r.used = Len(file)
               /\ r.banned = IsBanned(file, r.uid)
               /\ \A s \in Threads \ {t} : ~LateNul(s)
    BY <1>0, <1>1, <1>3, <1>4, <1>6 DEF Holds
  <1>8. /\ reads' \in [Threads -> ReadStates]
        /\ ReadsHold' /\ ChecksAreExact'
        /\ t # Game /\ GameHolds => GameHolds'
    BY <1>1, <1>2, <1>3, <1>4, <1>5, <1>7, ReadStep
  <1>9. ASSUME t = Game, edit.stage = "read" PROVE GameHolds'
    <2>1. GameHolds /\ reads'[Game] = r
      BY <1>2, <1>9, GameIsThread DEF BansInv, EditHolds, BansTypeOK
    <2> QED
      BY <2>1, <1>1, <1>3, <1>4, <1>9 DEF GameHolds, Following
  <1> QED
    BY <1>1, <1>4, <1>8, <1>9, ReadStepKeeps

LEMMA ReadFailsPreserves ==
    ASSUME BansInv, NEW t \in Threads, ReadFails(t)
    PROVE  BansInv'
  <1>0. reads[t] \in ReadStates /\ Len(file) \in Nat
    BY LinesTypes DEF BansInv
  <1>1. /\ file' = file /\ edit' = edit /\ text' = text
    BY DEF ReadFails
  <1> DEFINE r == NothingRead(reads[t])
  <1>2. reads' = [reads EXCEPT ![t] = r]
    BY DEF ReadFails, BansInv, BansTypeOK
  <1>3. r \in ReadStates /\ r.at = "copy" /\ r.used = 0 /\ ~r.undisturbed
    BY <1>0, NothingReadGives
  <1> HIDE DEF r
  <1>4. text' \in [1 .. Capacity -> Lines]
    BY <1>1 DEF BansInv, BansTypeOK
  <1>5. /\ reads' \in [Threads -> ReadStates]
        /\ ReadsHold' /\ ChecksAreExact'
        /\ t # Game /\ GameHolds => GameHolds'
    BY <1>1, <1>2, <1>3, <1>4, ReadStep
  <1>6. ASSUME t = Game PROVE GameHolds'
    <2>1. reads'[Game] = r
      BY <1>2, <1>6, GameIsThread DEF BansInv, BansTypeOK
    <2> QED
      BY <2>1, <1>0, <1>1, <1>3 DEF GameHolds, Following
  <1> QED
    BY <1>1, <1>4, <1>5, <1>6, ReadStepKeeps

LEMMA CheckEndsPreserves ==
    ASSUME BansInv, NEW t \in Threads, CheckEnds(t)
    PROVE  BansInv'
  <1> DEFINE found == IF IsBanned(Copy(t), reads[t].uid) THEN "rejected" ELSE "allowed"
             r == [reads[t] EXCEPT !.used = 0, !.uid = Void, !.at = found]
  <1>0. reads[t] \in ReadStates /\ Len(file) \in Nat
    BY LinesTypes DEF BansInv
  <1>1. /\ reads[t].at = "copy" /\ (t = Game => edit = NoEdit)
        /\ file' = file /\ edit' = edit /\ text' = text
        /\ reads' = [reads EXCEPT ![t].used = 0, ![t].uid = Void, ![t].at = found]
    BY DEF CheckEnds
  <1>found. found \in {"rejected", "allowed"} /\ 0 \in 0 .. Capacity - 1 /\ Void \in Lines
    BY DEF Lines
  <1>exact. /\ found = "allowed" => ~IsBanned(Copy(t), reads[t].uid)
            /\ found = "rejected" => IsBanned(Copy(t), reads[t].uid)
    OBVIOUS
  <1> HIDE DEF found
  <1>2. reads' = [reads EXCEPT ![t] = r]
    BY <1>1 DEF BansInv, BansTypeOK
  <1>3. /\ r \in ReadStates /\ r.at = found
        /\ r.undisturbed = reads[t].undisturbed /\ r.clear = reads[t].clear
        /\ r.banned = reads[t].banned
    BY <1>0, <1>found DEF ReadStates
  <1>4. ~Following(r.at)
    BY <1>3, <1>found DEF Following
  <1> HIDE DEF r
  <1>5. r.undisturbed /\ r.clear =>
          /\ r.at = "allowed" => ~r.banned
          /\ r.at = "rejected" => r.banned
    <2> SUFFICES ASSUME r.undisturbed, r.clear
                 PROVE  Copy(t) = file /\ r.banned = IsBanned(file, reads[t].uid)
      BY <1>3, <1>exact
    <2>1. Holds(t)
      BY <1>1, <1>3 DEF BansInv, ReadsHold, Following
    <2> QED
      BY <2>1, <1>1, <1>3, CopyIsFile DEF Holds, BansInv
  <1>6. text' \in [1 .. Capacity -> Lines]
    BY <1>1 DEF BansInv, BansTypeOK
  <1>7. /\ reads' \in [Threads -> ReadStates]
        /\ ReadsHold' /\ ChecksAreExact'
        /\ t # Game /\ GameHolds => GameHolds'
    BY <1>1, <1>2, <1>3, <1>4, <1>5, <1>6, <1>found, ReadStep DEF Following
  <1>8. t = Game => edit.stage = "none"
    BY <1>1, NoEditGives
  <1> QED
    BY <1>1, <1>6, <1>7, <1>8, ReadStepKeeps

(* Writing the file disturbs every read that is under way.                 *)
LEMMA DisturbedGives ==
    ASSUME BansInv, reads' = Disturbed
    PROVE  /\ reads' \in [Threads -> ReadStates]
           /\ ReadsHold' /\ ChecksAreExact'
  <1>1. \A t \in Threads : reads'[t] = IF Busy(t) THEN Forgotten(reads[t]) ELSE reads[t]
    BY DEF Disturbed
  <1>2. \A r \in ReadStates : /\ Forgotten(r) \in ReadStates
                              /\ ~Forgotten(r).undisturbed
    BY DEF Forgotten, ReadStates
  <1>3. \A t \in Threads : reads[t] \in ReadStates
    BY LinesTypes DEF BansInv
  <1>4. \A t \in Threads : /\ reads'[t] \in ReadStates
                           /\ reads'[t].undisturbed => ~Following(reads[t].at) /\ reads'[t] = reads[t]
    BY <1>1, <1>2, <1>3 DEF Busy, Following
  <1>5. reads' \in [Threads -> ReadStates]
    BY <1>4 DEF Disturbed
  <1>6. ReadsHold' /\ ChecksAreExact'
    BY <1>4 DEF BansInv, ReadsHold, ChecksAreExact, Following
  <1> QED
    BY <1>5, <1>6

-----------------------------------------------------------------------------
LEMMA BansInvInit == BansInit => BansInv
  <1> SUFFICES ASSUME BansInit PROVE BansInv
    OBVIOUS
  <1>1. file \in Seq(Lines)
    BY HandTextsAssumption DEF BansInit
  <1>2. BansTypeOK
    BY <1>1, NoEditGives DEF BansInit, BansTypeOK, NotReading, ReadStates, Lines
  <1>3. ReadsHold /\ ChecksAreExact
    BY DEF BansInit, ReadsHold, ChecksAreExact, NotReading, Following
  <1>4. EditHolds /\ EditChangesOnePlayer
    BY NoEditGives DEF BansInit, EditHolds, EditChangesOnePlayer
  <1> QED
    BY <1>2, <1>3, <1>4 DEF BansInv

(* A command that reads the list.                                          *)
LEMMA CommandStartPreserves ==
    ASSUME BansInv, NEW u \in Players, ConCommandBan(u) \/ ConCommandUnban(u)
    PROVE  BansInv'
  <1>1. /\ Opens(Game, u) /\ file' = file /\ edit = NoEdit
        /\ \E op \in {"ban", "unban"} :
              edit' = [NoEdit EXCEPT !.op = op, !.uid = u, !.stage = "read"]
    BY DEF ConCommandBan, ConCommandUnban, Starts
  <1>2. /\ edit'.stage = "read" /\ edit'.op \in {"ban", "unban"} /\ edit'.uid = u
        /\ edit' \in Edits
    BY <1>1, NoEditGives DEF Edits, Ops, Lines
  <1>3. BansTypeOK'
    BY <1>1, <1>2, OpensGives, GameIsThread DEF BansInv, BansTypeOK
  <1>4. EditHolds'
    BY <1>1, <1>2, OpensGives, GameIsThread DEF EditHolds
  <1>5. EditChangesOnePlayer'
    BY <1>2 DEF EditChangesOnePlayer
  <1> QED
    BY <1>1, <1>3, <1>4, <1>5, OpensGives, GameIsThread DEF BansInv

LEMMA ClearPreserves ==
    ASSUME BansInv, ConCommandClearBanlist
    PROVE  BansInv'
  <1>1. /\ UNCHANGED <<file, text, reads>>
        /\ edit' = [NoEdit EXCEPT !.op = "clear", !.uid = Void, !.stage = "truncate"]
    BY DEF ConCommandClearBanlist, Starts
  <1>2. /\ edit'.op = "clear" /\ edit'.stage = "truncate"
        /\ edit' \in Edits
    BY <1>1, NoEditGives DEF Edits, Ops, Lines
  <1>3. BansTypeOK'
    BY <1>1, <1>2 DEF BansInv, BansTypeOK
  <1>4. ReadsHold' /\ ChecksAreExact'
    BY <1>1 DEF BansInv, ReadsHold, ChecksAreExact, Holds, LateNul, IsBanned
  <1>5. EditHolds' /\ EditChangesOnePlayer'
    BY <1>2 DEF EditHolds, EditChangesOnePlayer
  <1> QED
    BY <1>3, <1>4, <1>5 DEF BansInv

(* What the game thread has copied bans nobody the file does not ban, and  *)
(* is the file when its read was undisturbed and clear.                    *)
LEMMA GameCopyGives ==
    ASSUME BansInv, edit.stage = "read", reads[Game].at = "copy"
    PROVE  /\ Copy(Game) \in Seq(Lines)
           /\ BannedIn(Copy(Game)) \subseteq BannedIn(file)
           /\ reads[Game].undisturbed /\ reads[Game].clear => Copy(Game) = file
  <1>1. GameHolds
    BY DEF BansInv, EditHolds
  <1>2. /\ Copy(Game) \in Seq(Lines)
        /\ Len(Copy(Game)) = reads[Game].used
        /\ \A i \in 1 .. reads[Game].used : Copy(Game)[i] = text[i]
        /\ reads[Game].used \in Nat
    BY CopyGives, GameIsThread, LinesTypes DEF BansInv, ReadStates
  <1>3. Len(file) \in Nat /\ DOMAIN file = 1 .. Len(file) /\ DOMAIN Copy(Game) = 1 .. Len(Copy(Game))
    BY <1>2, LinesTypes DEF BansInv
  <1>4. ASSUME NEW u \in Players, IsBanned(Copy(Game), u) PROVE IsBanned(file, u)
    <2>1. PICK i \in 1 .. reads[Game].used : Copy(Game)[i] = u
      BY <1>2, <1>3, <1>4 DEF IsBanned
    <2>2. i \in DOMAIN file /\ file[i] = u
      BY <2>1, <1>1, <1>2, <1>3 DEF GameHolds
    <2> QED
      BY <2>2 DEF IsBanned
  <1>5. reads[Game].undisturbed /\ reads[Game].clear => Copy(Game) = file
    BY CopyIsFile, GameIsThread DEF BansInv, ReadsHold, Following
  <1> QED
    BY <1>2, <1>4, <1>5 DEF BannedIn

(* The text a command is going to write, made of what it copied.           *)
LEMMA NewTextGives ==
    ASSUME BansInv, edit.stage = "read", NEW list \in Seq(Lines), NEW b \in BOOLEAN,
           edit' = [edit EXCEPT !.stage = "truncate", !.after = list, !.exact = b],
           UNCHANGED file,
           BannedIn(list) \subseteq ChangedBans(edit.op, edit.uid, BannedIn(file)),
           edit.op = "ban" => edit.uid \in BannedIn(list),
           b => BannedIn(list) = ChangedBans(edit.op, edit.uid, BannedIn(file))
    PROVE  edit' \in Edits /\ EditHolds' /\ EditChangesOnePlayer'
  <1>1. /\ edit' \in Edits /\ edit'.stage = "truncate" /\ edit'.op = edit.op
        /\ edit'.uid = edit.uid /\ edit'.after = list /\ edit'.exact = b
    BY DEF BansInv, BansTypeOK, Edits
  <1>2. EditHolds'
    BY <1>1 DEF EditHolds
  <1>3. BannedIn(file') = BannedIn(file)
    OBVIOUS
  <1>4. EditChangesOnePlayer'
    BY <1>1, <1>3 DEF EditChangesOnePlayer
  <1> QED
    BY <1>1, <1>2, <1>4

LEMMA ListReadPreserves ==
    ASSUME BansInv, ListRead
    PROVE  BansInv'
  <1>1. /\ edit.stage = "read" /\ reads[Game].at = "copy" /\ UNCHANGED <<file, text>>
        /\ reads' = [reads EXCEPT ![Game] = NotReading]
        /\ edit.op \in {"ban", "unban"} /\ edit.uid \in Players
    BY DEF ListRead, BansInv, EditHolds
  <1>2. /\ Copy(Game) \in Seq(Lines)
        /\ BannedIn(Copy(Game)) \subseteq BannedIn(file)
        /\ reads[Game].undisturbed /\ reads[Game].clear => Copy(Game) = file
    BY <1>1, GameCopyGives
  <1>3. /\ NotReading \in ReadStates /\ NotReading.at = "idle" /\ ~NotReading.undisturbed
    BY DEF NotReading, ReadStates, Lines
  <1>4. text' \in [1 .. Capacity -> Lines]
    BY <1>1 DEF BansInv, BansTypeOK
  <1>5. reads' \in [Threads -> ReadStates] /\ ReadsHold' /\ ChecksAreExact'
    BY <1>1, <1>3, <1>4, GameIsThread, ReadStep
  <1> DEFINE b == reads[Game].undisturbed /\ reads[Game].clear
  <1>6. b \in BOOLEAN
    OBVIOUS
  <1>7. b => Copy(Game) = file
    BY <1>2
  <1>8. \/ edit' = NoEdit
        \/ edit.op = "ban" /\ edit' = [edit EXCEPT !.stage = "truncate",
                                          !.after = BanFor(Copy(Game), edit.uid), !.exact = b]
        \/ edit.op = "unban" /\ edit' = [edit EXCEPT !.stage = "truncate",
                                          !.after = Unban(Copy(Game), edit.uid), !.exact = b]
    BY <1>1 DEF ListRead
  <1> HIDE DEF b
  <1>9. edit' \in Edits /\ EditHolds' /\ EditChangesOnePlayer'
    <2>1. CASE edit' = NoEdit
      BY <2>1, NoEditGives DEF EditHolds, EditChangesOnePlayer
    <2>2. CASE edit.op = "ban" /\ edit' = [edit EXCEPT !.stage = "truncate",
                                          !.after = BanFor(Copy(Game), edit.uid), !.exact = b]
      <3>1. /\ BanFor(Copy(Game), edit.uid) \in Seq(Lines)
            /\ BannedIn(BanFor(Copy(Game), edit.uid)) = BannedIn(Copy(Game)) \cup {edit.uid}
        BY <1>1, <1>2, BanAdds
      <3>2. ChangedBans(edit.op, edit.uid, BannedIn(file)) = BannedIn(file) \cup {edit.uid}
        BY <2>2 DEF ChangedBans
      <3> QED
        BY <1>1, <1>2, <1>6, <1>7, <2>2, <3>1, <3>2, NewTextGives
    <2>3. CASE edit.op = "unban" /\ edit' = [edit EXCEPT !.stage = "truncate",
                                          !.after = Unban(Copy(Game), edit.uid), !.exact = b]
      <3>1. /\ Unban(Copy(Game), edit.uid) \in Seq(Lines)
            /\ BannedIn(Unban(Copy(Game), edit.uid)) = BannedIn(Copy(Game)) \ {edit.uid}
        BY <1>1, <1>2, UnbanRemoves
      <3>2. ChangedBans(edit.op, edit.uid, BannedIn(file)) = BannedIn(file) \ {edit.uid}
        BY <2>3 DEF ChangedBans
      <3> QED
        BY <1>1, <1>2, <1>6, <1>7, <2>3, <3>1, <3>2, NewTextGives
    <2> QED
      BY <1>8, <2>1, <2>2, <2>3
  <1>10. BansTypeOK'
    BY <1>1, <1>4, <1>5, <1>9 DEF BansInv, BansTypeOK
  <1> QED
    BY <1>5, <1>9, <1>10 DEF BansInv

LEMMA TruncatePreserves ==
    ASSUME BansInv, Truncate
    PROVE  BansInv'
  <1>1. /\ edit.stage = "truncate" /\ file' = << >> /\ text' = text /\ reads' = Disturbed
        /\ edit' = [edit EXCEPT !.stage = "write"]
    BY DEF Truncate
  <1>2. edit' \in Edits /\ edit'.stage = "write"
    BY <1>1 DEF BansInv, BansTypeOK, Edits
  <1>3. BansTypeOK'
    BY <1>1, <1>2, DisturbedGives, EmptySeq DEF BansInv, BansTypeOK
  <1>4. EditHolds' /\ EditChangesOnePlayer'
    BY <1>2 DEF EditHolds, EditChangesOnePlayer
  <1> QED
    BY <1>1, <1>3, <1>4, DisturbedGives DEF BansInv

LEMMA CannotOpenPreserves ==
    ASSUME BansInv, CannotOpen
    PROVE  BansInv'
  <1>1. edit' = NoEdit /\ UNCHANGED <<file, text, reads>>
    BY DEF CannotOpen
  <1>2. BansTypeOK'
    BY <1>1, NoEditGives DEF BansInv, BansTypeOK
  <1>3. ReadsHold' /\ ChecksAreExact'
    BY <1>1 DEF BansInv, ReadsHold, ChecksAreExact, Holds, LateNul, IsBanned
  <1>4. EditHolds' /\ EditChangesOnePlayer'
    BY <1>1, NoEditGives DEF EditHolds, EditChangesOnePlayer
  <1> QED
    BY <1>2, <1>3, <1>4 DEF BansInv

(* The file is written, by a command or by hand.                           *)
LEMMA FileWrittenPreserves ==
    ASSUME BansInv, file' \in Seq(Lines), text' = text, reads' = Disturbed, edit' = NoEdit
    PROVE  BansInv'
  <1>1. BansTypeOK'
    BY DisturbedGives, NoEditGives DEF BansInv, BansTypeOK
  <1>2. EditHolds' /\ EditChangesOnePlayer'
    BY NoEditGives DEF EditHolds, EditChangesOnePlayer
  <1> QED
    BY <1>1, <1>2, DisturbedGives DEF BansInv

LEMMA WritePreserves ==
    ASSUME BansInv, Write
    PROVE  BansInv'
  <1>1. PICK written \in 0 .. Len(edit.after) : file' = SubSeq(edit.after, 1, written)
    BY DEF Write
  <1>2. edit.after \in Seq(Lines)
    BY DEF BansInv, BansTypeOK, Edits
  <1>3. file' \in Seq(Lines)
    BY <1>1, <1>2
  <1> QED
    BY <1>3, FileWrittenPreserves DEF Write

LEMMA HandEditPreserves ==
    ASSUME BansInv, HandEdit
    PROVE  BansInv'
  <1>1. file' \in Seq(Lines) /\ edit' = NoEdit
    BY HandTextsAssumption DEF HandEdit
  <1> QED
    BY <1>1, FileWrittenPreserves DEF HandEdit

LEMMA BansInvNext == BansInv /\ [BansNext]_banVars => BansInv'
  <1> SUFFICES ASSUME BansInv, [BansNext]_banVars PROVE BansInv'
    OBVIOUS
  <1>1. CASE UNCHANGED banVars
    <2>1. file' = file /\ text' = text /\ reads' = reads /\ edit' = edit
      BY <1>1 DEF banVars
    <2>2. BansTypeOK' /\ ReadsHold' /\ ChecksAreExact'
      BY <2>1 DEF BansInv, BansTypeOK, ReadsHold, ChecksAreExact, Holds, LateNul, IsBanned
    <2>3. EditHolds' /\ EditChangesOnePlayer'
      BY <2>1 DEF BansInv, EditHolds, GameHolds, EditChangesOnePlayer, BannedIn, IsBanned
    <2> QED
      BY <2>2, <2>3 DEF BansInv
  <1>2. CASE \E t \in Threads, u \in Players : Check(t, u)
    BY <1>2, CheckPreserves
  <1>3. CASE \E t \in Threads : ReadMore(t) \/ EndOfFile(t) \/ PutNul(t) \/ ReadFails(t)
    BY <1>3, ReadMorePreserves, EndOfFilePreserves, PutNulPreserves, ReadFailsPreserves
  <1>4. CASE \E t \in Threads : CheckEnds(t)
    BY <1>4, CheckEndsPreserves
  <1>5. CASE \E u \in Players : ConCommandBan(u) \/ ConCommandUnban(u)
    BY <1>5, CommandStartPreserves
  <1>6. CASE ConCommandClearBanlist
    BY <1>6, ClearPreserves
  <1>7. CASE ListRead \/ Truncate \/ CannotOpen \/ Write
    BY <1>7, ListReadPreserves, TruncatePreserves, CannotOpenPreserves, WritePreserves
  <1>8. CASE HandEdit
    BY <1>8, HandEditPreserves
  <1> QED
    BY <1>1, <1>2, <1>3, <1>4, <1>5, <1>6, <1>7, <1>8 DEF BansNext

-----------------------------------------------------------------------------
(* The inductive invariant: the buffer still holds what a read that is     *)
(* undisturbed and clear has put there, because every other thread reads   *)
(* the same file into it and puts its NUL behind the file's end; and what  *)
(* a command has read is the file or lines a NUL hides.                    *)
THEOREM BansInvariance == BansSpec => []BansInv
  BY BansInvInit, BansInvNext, PTL DEF BansSpec

(* Types: neither the NUL of a read nor its copy reaches past the buffer   *)
(* (ReadFileIntoBuffer, ReadList).                                         *)
THEOREM BansTypeCorrect == BansSpec => []BansTypeOK
  <1>1. BansInv => BansTypeOK
    BY DEF BansInv
  <1> QED
    BY <1>1, BansInvariance, PTL

(* A check on any number of threads gives what the file says, in spite of  *)
(* the pieces and NULs the threads put in one buffer, if the file stays as *)
(* it is, no read fails and no late NUL was pending (IsUidAllowed).        *)
THEOREM ExactChecks == BansSpec => []ChecksAreExact
  <1>1. BansInv => ChecksAreExact
    BY DEF BansInv
  <1> QED
    BY <1>1, BansInvariance, PTL

(* A command never bans a player nobody asked for, follows the order for   *)
(* its own player, and keeps the other bans when its read was undisturbed  *)
(* and clear (ConCommandBan, ConCommandUnban).                             *)
THEOREM OnePlayerChanged == BansSpec => []EditChangesOnePlayer
  <1>1. BansInv => EditChangesOnePlayer
    BY DEF BansInv
  <1> QED
    BY <1>1, BansInvariance, PTL

-----------------------------------------------------------------------------
(* The listing.                                                            *)
-----------------------------------------------------------------------------
ReporterType ==
    [pc : Places, since : 0 .. MaxDelay, id : Ids \cup {NoId}, wasAlive : BOOLEAN,
     attempts : 0 .. MaxAttempts, recent : BOOLEAN, paused : BOOLEAN, reporting : BOOLEAN,
     sent : Passwords]

(* The variables but the reporter's.                                       *)
OtherTypes ==
    /\ serverUp \in BOOLEAN /\ reporting \in BOOLEAN
    /\ presence \in [alive : BOOLEAN, age : 0 .. AgeCap]
    /\ password \in Passwords /\ registeredPassword \in Passwords
    /\ serverId \in Ids \cup {NoId}
    /\ listings \subseteq [id : Ids, password : Passwords]
    /\ lost \subseteq Ids
    /\ adds \in Nat

(* Between two sleeps the id the thread read is the current one.           *)
IdIsCurrent ==
    /\ reporter.pc \notin {"asleep", "sampled"} => reporter.id = serverId
    /\ reporter.pc = "adding" => serverId = NoId
    /\ reporter.pc \in {"updating", "removeDead", "removeOld"} => serverId # NoId

(* A server is given up before its listing is, and alive until then.       *)
AliveHolds ==
    /\ reporter.pc \in {"removeDead", "clearDead"} => ~reporter.wasAlive
    /\ reporter.pc \in {"settings", "removeOld", "clearOld", "send", "adding", "updating"}
           => reporter.wasAlive

(* A listing is known unless it was lost, and once it is removed the one   *)
(* that was known is gone too.                                             *)
ListingsHold ==
    /\ \A l, m \in listings : l.id = m.id => l = m
    /\ \A l \in listings : l.id \in lost \/ l.id = serverId
    /\ reporter.pc \in {"clearDead", "clearOld"} => \A l \in listings : l.id \in lost

(* While a server that runs has no listing, every add request of this      *)
(* start was an attempt, or waits for its answer.                         *)
AddsHold ==
    /\ adds <= MaxAttempts
    /\ reporter.pc = "adding" => reporter.attempts < MaxAttempts /\ adds <= reporter.attempts + 1
    /\ reporter.pc \in {"removeOld", "clearOld"} => adds = 0
    /\ serverId = NoId /\ reporter.wasAlive /\ reporter.pc # "adding" => adds <= reporter.attempts

Inv == OtherTypes /\ reporter \in ReporterType /\ IdIsCurrent /\ AliveHolds /\ ListingsHold /\ AddsHold

USE IdsAssumption, AttemptsAssumption, TimeAssumption

LEMMA Typed == TypeOK <=> OtherTypes /\ reporter \in ReporterType
  BY DEF TypeOK, OtherTypes, ReporterType

LEMMA InPlaces ==
    /\ {"asleep", "sampled", "removeDead", "clearDead", "settings"} \subseteq Places
    /\ {"removeOld", "clearOld", "send", "adding", "updating"} \subseteq Places
  BY DEF Places

(* The record of the thread's locals keeps its type field by field.        *)
LEMMA FieldUpdates ==
    ASSUME NEW r \in ReporterType
    PROVE  /\ \A pc \in Places : [r EXCEPT !.pc = pc] \in ReporterType
           /\ \A n \in 0 .. MaxDelay : [r EXCEPT !.since = n] \in ReporterType
           /\ \A id \in Ids \cup {NoId} : [r EXCEPT !.id = id] \in ReporterType
           /\ \A b \in BOOLEAN : [r EXCEPT !.wasAlive = b] \in ReporterType
           /\ \A n \in 0 .. MaxAttempts : [r EXCEPT !.attempts = n] \in ReporterType
           /\ \A b \in BOOLEAN : [r EXCEPT !.paused = b] \in ReporterType
           /\ \A b \in BOOLEAN : [r EXCEPT !.recent = b] \in ReporterType
           /\ \A b \in BOOLEAN : [r EXCEPT !.reporting = b] \in ReporterType
  <1>1. \A pc \in Places : [r EXCEPT !.pc = pc] \in ReporterType
    BY DEF ReporterType
  <1>2. \A n \in 0 .. MaxDelay : [r EXCEPT !.since = n] \in ReporterType
    BY DEF ReporterType
  <1>3. \A id \in Ids \cup {NoId} : [r EXCEPT !.id = id] \in ReporterType
    BY DEF ReporterType
  <1>4. \A b \in BOOLEAN : [r EXCEPT !.wasAlive = b] \in ReporterType
    BY DEF ReporterType
  <1>5. \A n \in 0 .. MaxAttempts : [r EXCEPT !.attempts = n] \in ReporterType
    BY DEF ReporterType
  <1>6. \A b \in BOOLEAN : [r EXCEPT !.paused = b] \in ReporterType
    BY DEF ReporterType
  <1>7. \A b \in BOOLEAN : [r EXCEPT !.recent = b] \in ReporterType
    BY DEF ReporterType
  <1>8. \A b \in BOOLEAN : [r EXCEPT !.reporting = b] \in ReporterType
    BY DEF ReporterType
  <1> QED
    BY <1>1, <1>2, <1>3, <1>4, <1>5, <1>6, <1>7, <1>8

LEMMA FreshCountersType ==
    ASSUME NEW r \in ReporterType
    PROVE  FreshCounters(r) \in ReporterType
  <1> DEFINE r1 == [r EXCEPT !.attempts = 0]
             r2 == [r1 EXCEPT !.paused = FALSE]
  <1>1. r1 \in ReporterType
    BY FieldUpdates
  <1>2. r2 \in ReporterType
    <2> HIDE DEF r1
    <2> QED
      BY <1>1, FieldUpdates
  <1>3. [r2 EXCEPT !.recent = FALSE] \in ReporterType
    <2> HIDE DEF r2
    <2> QED
      BY <1>2, FieldUpdates
  <1> QED
    BY <1>3 DEF FreshCounters

LEMMA InitInv == Init => Inv
  <1> SUFFICES ASSUME Init PROVE Inv
    OBVIOUS
  <1>1. OtherTypes
    <2>1. AgeCap \in 0 .. AgeCap
      BY DEF AgeCap
    <2> QED
      BY <2>1 DEF Init, OtherTypes
  <1>2. reporter \in ReporterType
    BY InPlaces DEF Init, ReporterType
  <1>3. IdIsCurrent /\ AliveHolds /\ ListingsHold /\ AddsHold
    BY DEF Init, IdIsCurrent, AliveHolds, ListingsHold, AddsHold
  <1> QED
    BY <1>1, <1>2, <1>3 DEF Inv

-----------------------------------------------------------------------------
(* The server, the settings and the clocks leave the listing alone, and of *)
(* the reporter what the invariant speaks of.                              *)

LEMMA Unmoved ==
    ASSUME Inv, reporter' \in ReporterType, OtherTypes',
           UNCHANGED <<serverId, listings, lost, adds>>,
           reporter'.pc = reporter.pc
             \/ {reporter.pc, reporter'.pc} \subseteq {"asleep", "sampled"},
           reporter'.id = reporter.id, reporter'.attempts = reporter.attempts,
           reporter'.wasAlive = reporter.wasAlive
    PROVE  Inv'
  BY DEF Inv, IdIsCurrent, AliveHolds, ListingsHold, AddsHold

LEMMA EnvironmentInv ==
    ASSUME Inv,
           \/ ServerStarts \/ ServerStops \/ UpdateServerPresence \/ SettingsChange
           \/ Tick \/ RateElapses \/ PauseElapses \/ ReadClock
           \/ UNCHANGED vars
    PROVE  Inv'
  <1> USE DEF local, atlas, settings
  <1>1. CASE ServerStarts \/ ServerStops \/ UpdateServerPresence \/ SettingsChange \/ UNCHANGED vars
    <2>1. UNCHANGED <<serverId, listings, lost, adds, reporter>>
      BY <1>1 DEF ServerStarts, ServerStops, UpdateServerPresence, SettingsChange, vars
    <2>2. OtherTypes'
      <3>1. AgeCap \in Nat
        BY DEF AgeCap
      <3>2. CASE UpdateServerPresence
        <4>1. presence' \in [alive : BOOLEAN, age : 0 .. AgeCap]
          BY <3>1, <3>2 DEF UpdateServerPresence
        <4> QED
          BY <3>2, <4>1 DEF UpdateServerPresence, Inv, OtherTypes
      <3>3. CASE ServerStarts \/ ServerStops \/ SettingsChange \/ UNCHANGED vars
        BY <3>3 DEF ServerStarts, ServerStops, SettingsChange, vars, Inv, OtherTypes
      <3> QED
        BY <1>1, <3>2, <3>3
    <2> QED
      BY <2>1, <2>2, Unmoved DEF Inv
  <1>2. CASE Tick
    <2>1. OtherTypes'
      <3>1. AgeCap \in Nat
        BY DEF AgeCap
      <3>2. presence' \in [alive : BOOLEAN, age : 0 .. AgeCap]
        BY <1>2, <3>1 DEF Tick, Inv, OtherTypes
      <3> QED
        BY <1>2, <3>2 DEF Tick, Inv, OtherTypes
    <2>2. reporter' \in ReporterType
      BY <1>2 DEF Tick, Inv, ReporterType
    <2>3. /\ reporter'.pc = reporter.pc /\ reporter'.id = reporter.id
          /\ reporter'.attempts = reporter.attempts /\ reporter'.wasAlive = reporter.wasAlive
      BY <1>2 DEF Tick, Inv, ReporterType
    <2> QED
      BY <1>2, <2>1, <2>2, <2>3, Unmoved DEF Tick
  <1>3. CASE RateElapses \/ PauseElapses \/ ReadClock
    <2>1. OtherTypes'
      BY <1>3 DEF RateElapses, PauseElapses, ReadClock, Inv, OtherTypes
    <2>2. reporter' \in ReporterType
      <3>1. CASE RateElapses \/ PauseElapses
        BY <3>1, FieldUpdates DEF RateElapses, PauseElapses, Inv
      <3>2. CASE ReadClock
        <4> DEFINE r == [reporter EXCEPT !.pc = "sampled"]
        <4>1. r \in ReporterType
          BY FieldUpdates, InPlaces DEF Inv
        <4>2. [r EXCEPT !.since = 0] \in ReporterType
          <5> HIDE DEF r
          <5> QED
            BY <4>1, FieldUpdates
        <4> QED
          BY <3>2, <4>2 DEF ReadClock
      <3> QED
        BY <1>3, <3>1, <3>2
    <2>3. /\ \/ reporter'.pc = reporter.pc
             \/ reporter.pc = "asleep" /\ reporter'.pc = "sampled"
          /\ reporter'.id = reporter.id
          /\ reporter'.attempts = reporter.attempts /\ reporter'.wasAlive = reporter.wasAlive
      BY <1>3 DEF RateElapses, PauseElapses, ReadClock, Inv, ReporterType
    <2>4. UNCHANGED <<serverId, listings, lost, adds>>
      BY <1>3 DEF RateElapses, PauseElapses, ReadClock
    <2> QED
      BY <2>1, <2>2, <2>3, <2>4, Unmoved
  <1> QED
    BY <1>1, <1>2, <1>3

-----------------------------------------------------------------------------
(* The reporter thread *)

LEMMA ReadPresenceInv == Inv /\ ReadPresence => Inv'
  <1> SUFFICES ASSUME Inv, ReadPresence PROVE Inv'
    OBVIOUS
  <1> USE DEF local, atlas, settings
  <1>1. OtherTypes'
    BY DEF ReadPresence, Inv, OtherTypes
  <1>2. Alive \in BOOLEAN
    BY DEF Alive, ReportedInTime, Inv, OtherTypes
  <1>3. UNCHANGED <<serverId, listings, lost>>
    BY DEF ReadPresence
  <1> DEFINE r1 == [reporter EXCEPT !.since = 0]
             r2 == [r1 EXCEPT !.id = serverId]
             r == [r2 EXCEPT !.wasAlive = Alive]
  <1>6. r \in ReporterType
    <2>1. r1 \in ReporterType
      BY FieldUpdates DEF Inv
    <2>2. r2 \in ReporterType
      <3> HIDE DEF r1
      <3> QED
        BY <2>1, FieldUpdates DEF Inv, OtherTypes
    <2> HIDE DEF r2
    <2> QED
      BY <1>2, <2>2, FieldUpdates
  <1>7. \A pc \in Places : [r EXCEPT !.pc = pc] \in ReporterType
    <2> HIDE DEF r
    <2> QED
      BY <1>6, FieldUpdates
  <1>4. CASE Alive
    <2>1. reporter' \in ReporterType
      <3>1. CASE reporter.wasAlive
        BY <1>4, <3>1, <1>7, InPlaces DEF ReadPresence
      <3>2. CASE ~reporter.wasAlive
        <4>1. reporter' = [FreshCounters(r) EXCEPT !.pc = "settings"]
          BY <1>4, <3>2 DEF ReadPresence
        <4> HIDE DEF r
        <4> QED
          BY <4>1, <1>6, FreshCountersType, FieldUpdates, InPlaces
      <3> QED
        BY <3>1, <3>2
    <2>2. /\ reporter'.pc = "settings" /\ reporter'.id = serverId /\ reporter'.wasAlive = TRUE
          /\ IF reporter.wasAlive THEN reporter'.attempts = reporter.attempts /\ adds' = adds
             ELSE reporter'.attempts = 0 /\ adds' = 0
      BY <1>4 DEF ReadPresence, Inv, ReporterType, FreshCounters
    <2>3. reporter.pc = "sampled" /\ reporter.attempts \in Nat
      BY DEF ReadPresence, Inv, ReporterType
    <2> QED
      BY <1>1, <1>3, <2>1, <2>2, <2>3 DEF Inv, IdIsCurrent, AliveHolds, ListingsHold, AddsHold
  <1>5. CASE ~Alive
    <2>1. reporter' \in ReporterType
      BY <1>5, <1>7, InPlaces DEF ReadPresence
    <2>2. /\ reporter'.pc = IF ~reporter.wasAlive THEN "asleep"
                            ELSE IF serverId # NoId THEN "removeDead" ELSE "clearDead"
          /\ reporter'.id = serverId /\ reporter'.wasAlive = FALSE /\ adds' = adds
      BY <1>5 DEF ReadPresence, Inv, ReporterType
    <2>3. \A l \in listings : l.id # NoId
      BY DEF Inv, OtherTypes
    <2> QED
      BY <1>1, <1>3, <2>1, <2>2, <2>3 DEF Inv, IdIsCurrent, AliveHolds, ListingsHold, AddsHold
  <1> QED
    BY <1>2, <1>4, <1>5

LEMMA RemovePresenceInv ==
    ASSUME Inv, NEW pc, NEW next, <<pc, next>> \in {<<"removeDead", "clearDead">>, <<"removeOld", "clearOld">>},
           RemovePresence(pc, next)
    PROVE  Inv'
  <1> USE DEF local, settings
  <1>1. /\ UNCHANGED <<serverId, adds>> /\ reporter.pc = pc
        /\ \/ listings' = {l \in listings : l.id # serverId} /\ lost' = lost
           \/ lost' = lost \cup {serverId} /\ listings' = listings
    BY DEF RemovePresence, Inv, IdIsCurrent
  <1>2. OtherTypes'
    BY <1>1 DEF RemovePresence, Inv, OtherTypes, IdIsCurrent
  <1>3. reporter' \in ReporterType
    BY InPlaces DEF RemovePresence, Goes, Inv, ReporterType
  <1>4. /\ reporter'.pc = next /\ reporter'.id = reporter.id
        /\ reporter'.attempts = reporter.attempts /\ reporter'.wasAlive = reporter.wasAlive
    BY DEF RemovePresence, Goes, Inv, ReporterType
  <1>5. ListingsHold'
    BY <1>1, <1>4 DEF Inv, ListingsHold
  <1> QED
    BY <1>1, <1>2, <1>3, <1>4, <1>5 DEF Inv, IdIsCurrent, AliveHolds, AddsHold

LEMMA ClearInv == Inv /\ (ClearDead \/ ClearOld) => Inv'
  <1> USE DEF local, atlas, settings
  <1>1. ASSUME Inv, ClearDead PROVE Inv'
    <2>1. OtherTypes'
      BY <1>1 DEF ClearDead, Inv, OtherTypes
    <2>2. reporter' \in ReporterType
      BY <1>1, InPlaces DEF ClearDead, Inv, ReporterType
    <2>3. /\ reporter'.pc = "asleep" /\ reporter'.wasAlive = FALSE /\ reporter.pc = "clearDead"
          /\ UNCHANGED <<listings, lost, adds>> /\ serverId' = NoId
      BY <1>1 DEF ClearDead, Inv, ReporterType, AliveHolds
    <2> QED
      BY <1>1, <2>1, <2>2, <2>3 DEF Inv, IdIsCurrent, AliveHolds, ListingsHold, AddsHold
  <1>2. ASSUME Inv, ClearOld PROVE Inv'
    <2>1. OtherTypes'
      BY <1>2 DEF ClearOld, Inv, OtherTypes
    <2>2. reporter' \in ReporterType
      BY <1>2, InPlaces DEF ClearOld, Inv, ReporterType
    <2>3. /\ reporter'.pc \in {"send", "asleep"} /\ reporter'.wasAlive = TRUE
          /\ reporter'.id = NoId /\ reporter'.attempts \in Nat
          /\ UNCHANGED <<listings, lost>> /\ serverId' = NoId /\ adds = 0 /\ adds' = 0
          /\ reporter.pc = "clearOld"
      BY <1>2, <2>2 DEF ClearOld, Inv, ReporterType, AliveHolds, AddsHold
    <2> QED
      BY <1>2, <2>1, <2>2, <2>3 DEF Inv, IdIsCurrent, AliveHolds, ListingsHold, AddsHold
  <1> QED
    BY <1>1, <1>2

LEMMA ReadSettingsInv == Inv /\ ReadSettings => Inv'
  <1> SUFFICES ASSUME Inv, ReadSettings PROVE Inv'
    OBVIOUS
  <1> USE DEF local, atlas, settings
  <1> DEFINE changed == PasswordChanged(reporter.id)
             fresh == ~reporting \/ changed
  <1>1. OtherTypes' /\ fresh \in BOOLEAN
    BY DEF ReadSettings, Inv, OtherTypes, PasswordChanged
  <1>2. StepAfterSettings(reporter.id, changed) \in {"removeOld", "send", "asleep"}
    BY DEF StepAfterSettings
  <1>3. reporter' \in ReporterType
    <2> DEFINE r == IF fresh THEN FreshCounters(reporter) ELSE reporter
               r1 == [r EXCEPT !.pc = StepAfterSettings(reporter.id, changed)]
    <2>1. r \in ReporterType
      BY FreshCountersType DEF Inv
    <2>2. r1 \in ReporterType
      <3> HIDE DEF r
      <3> QED
        BY <1>2, <2>1, InPlaces, FieldUpdates
    <2>3. [r1 EXCEPT !.reporting = reporting] \in ReporterType
      <3> HIDE DEF r1
      <3> QED
        BY <2>2, FieldUpdates DEF Inv, OtherTypes
    <2> QED
      BY <2>3 DEF ReadSettings
  <1>4. /\ reporter'.pc = StepAfterSettings(reporter.id, changed)
        /\ reporter'.id = reporter.id /\ reporter'.wasAlive = reporter.wasAlive
        /\ IF fresh THEN reporter'.attempts = 0 /\ adds' = 0
           ELSE reporter'.attempts = reporter.attempts /\ adds' = adds
    BY DEF ReadSettings, Inv, ReporterType, FreshCounters
  <1>5. /\ reporter.pc = "settings" /\ UNCHANGED <<serverId, listings, lost>>
        /\ reporter'.pc = "removeOld" => fresh /\ reporter.id # NoId
    BY <1>4 DEF ReadSettings, StepAfterSettings
  <1> QED
    BY <1>1, <1>2, <1>3, <1>4, <1>5 DEF Inv, IdIsCurrent, AliveHolds, ListingsHold, AddsHold

LEMMA SendInv == Inv /\ (SendNothing \/ SendRequest) => Inv'
  <1> USE DEF local, atlas, settings
  <1>1. ASSUME Inv, SendNothing PROVE Inv'
    <2>1. OtherTypes'
      BY <1>1 DEF SendNothing, Inv, OtherTypes
    <2>2. reporter' \in ReporterType
      BY <1>1, InPlaces DEF SendNothing, Inv, ReporterType
    <2>3. /\ reporter'.pc = "asleep" /\ reporter'.attempts = reporter.attempts
          /\ reporter'.wasAlive = reporter.wasAlive /\ reporter.pc = "send"
          /\ UNCHANGED <<serverId, listings, lost, adds>>
      BY <1>1 DEF SendNothing, Inv, ReporterType
    <2> QED
      BY <1>1, <2>1, <2>2, <2>3 DEF Inv, IdIsCurrent, AliveHolds, ListingsHold, AddsHold
  <1>2. ASSUME Inv, SendRequest PROVE Inv'
    <2>1. OtherTypes'
      BY <1>2 DEF SendRequest, Inv, OtherTypes
    <2>2. reporter' \in ReporterType
      BY <1>2, InPlaces DEF SendRequest, Inv, ReporterType, OtherTypes
    <2>3. /\ reporter'.pc = IF reporter.id = NoId THEN "adding" ELSE "updating"
          /\ reporter'.attempts = reporter.attempts /\ reporter'.id = reporter.id
          /\ reporter'.wasAlive = reporter.wasAlive /\ reporter.pc = "send"
          /\ UNCHANGED <<serverId, listings, lost>>
          /\ adds' = IF reporter.id = NoId THEN adds + 1 ELSE adds
          /\ reporter.id = NoId => reporter.attempts < MaxAttempts
      BY <1>2 DEF SendRequest, MayAdd, Inv, ReporterType
    <2>4. adds \in Nat /\ reporter.attempts \in 0 .. MaxAttempts
      BY <1>2 DEF Inv, OtherTypes, ReporterType
    <2> QED
      BY <1>2, <2>1, <2>2, <2>3, <2>4 DEF Inv, IdIsCurrent, AliveHolds, ListingsHold, AddsHold
  <1> QED
    BY <1>1, <1>2

(* What an answer adds to the list has an id nothing else has.             *)
LEMMA NewListing ==
    ASSUME Inv, NEW id \in FreeIds
    PROVE  /\ Listing(id) \in [id : Ids, password : Passwords] /\ Listing(id).id = id
           /\ id \in Ids /\ id # NoId
           /\ \A l \in listings : l.id # id
  BY DEF Inv, OtherTypes, ReporterType, FreeIds, Listing, ListedIds

(* An answer that gives the server an id.                                  *)
LEMMA ListedInv ==
    ASSUME Inv, NEW id \in FreeIds, reporter.pc \in {"adding", "updating"},
           reporter.id = NoId \/ reporter.id \notin ListedIds,
           listings' = listings \cup {Listing(id)}, lost' = lost \ {id}, serverId' = id,
           Goes("asleep"), registeredPassword' \in Passwords,
           UNCHANGED <<serverUp, presence, settings, adds>>
    PROVE  Inv'
  <1>1. OtherTypes'
    BY NewListing DEF Inv, OtherTypes, settings
  <1>2. reporter' \in ReporterType
    BY InPlaces DEF Goes, Inv, ReporterType
  <1>3. reporter'.pc = "asleep" /\ reporter'.wasAlive = reporter.wasAlive
    BY DEF Goes, Inv, ReporterType
  <1>4. \A l \in listings : l.id # serverId
    BY DEF Inv, IdIsCurrent, OtherTypes, ListedIds
  <1>5. ListingsHold'
    BY <1>3, <1>4, NewListing DEF Inv, ListingsHold
  <1> QED
    BY <1>1, <1>2, <1>3, <1>5, NewListing DEF Inv, IdIsCurrent, AliveHolds, AddsHold

LEMMA AnswersInv == Inv /\ Answers => Inv'
  <1> USE DEF local, atlas, settings
  <1>1. ASSUME Inv, Added PROVE Inv'
    <2>1. reporter.sent \in Passwords /\ reporter.id = NoId
      BY <1>1 DEF Added, Inv, ReporterType, IdIsCurrent
    <2> QED
      BY <1>1, <2>1, ListedInv DEF Added
  <1>2. ASSUME Inv, Recreated PROVE Inv'
    BY <1>2, ListedInv DEF Recreated, Inv, OtherTypes
  <1>3. ASSUME Inv, Updated PROVE Inv'
    <2>1. OtherTypes'
      BY <1>3 DEF Updated, Inv, OtherTypes
    <2>2. reporter' \in ReporterType
      BY <1>3, InPlaces DEF Updated, Goes, Inv, ReporterType
    <2>3. /\ reporter'.pc = "asleep" /\ reporter'.attempts = reporter.attempts
          /\ reporter'.wasAlive = reporter.wasAlive /\ reporter.pc = "updating"
          /\ UNCHANGED <<serverId, listings, lost, adds>>
      BY <1>3 DEF Updated, Goes, Inv, ReporterType
    <2> QED
      BY <1>3, <2>1, <2>2, <2>3 DEF Inv, IdIsCurrent, AliveHolds, ListingsHold, AddsHold
  <1>4. ASSUME Inv, AddAnswerLost PROVE Inv'
    <2>1. PICK id \in FreeIds : listings' = listings \cup {Listing(id)} /\ lost' = lost \cup {id}
      BY <1>4 DEF AddAnswerLost
    <2>2. OtherTypes'
      BY <1>4, <2>1, NewListing DEF AddAnswerLost, Inv, OtherTypes
    <2>3. reporter' \in ReporterType
      <3> DEFINE r == [reporter EXCEPT !.pc = "asleep"]
      <3>1. r \in ReporterType
        BY <1>4, FieldUpdates, InPlaces DEF Inv
      <3>2. [r EXCEPT !.attempts = MaxAttempts] \in ReporterType
        <4> HIDE DEF r
        <4> QED
          BY <3>1, FieldUpdates
      <3> QED
        BY <1>4, <3>2 DEF AddAnswerLost
    <2>4. /\ reporter'.pc = "asleep" /\ reporter'.attempts = MaxAttempts
          /\ reporter'.wasAlive = reporter.wasAlive /\ UNCHANGED <<serverId, adds>>
      BY <1>4 DEF AddAnswerLost, Inv, ReporterType
    <2>5. ListingsHold'
      BY <1>4, <2>1, <2>4, NewListing DEF Inv, ListingsHold
    <2> QED
      BY <1>4, <2>2, <2>3, <2>4, <2>5 DEF Inv, IdIsCurrent, AliveHolds, AddsHold
  <1>5. ASSUME NEW failure \in AddAnswers, Inv, AddFails(failure)
        PROVE  Inv'
    <2>1. /\ reporter.pc = "adding" /\ reporter.attempts \in Nat /\ reporter.attempts < MaxAttempts
          /\ AttemptsAfter(failure) \in {reporter.attempts + 1, MaxAttempts}
      BY <1>5 DEF AddFails, AttemptsAfter, Inv, AddsHold, ReporterType
    <2>2. AttemptsAfter(failure) \in 0 .. MaxAttempts
      BY <2>1
    <2>3. OtherTypes'
      BY <1>5 DEF AddFails, Inv, OtherTypes
    <2>4. reporter' \in ReporterType
      BY <1>5, <2>2, InPlaces DEF AddFails, Inv, ReporterType
    <2>5. /\ reporter'.pc = "asleep" /\ reporter'.attempts = AttemptsAfter(failure)
          /\ reporter'.wasAlive = reporter.wasAlive
          /\ UNCHANGED <<serverId, listings, lost, adds>>
      BY <1>5 DEF AddFails, Inv, ReporterType
    <2> QED
      BY <1>5, <2>1, <2>3, <2>4, <2>5 DEF Inv, IdIsCurrent, AliveHolds, ListingsHold, AddsHold
  <1> QED
    BY <1>1, <1>2, <1>3, <1>4, <1>5 DEF Answers

LEMMA AtlasDropsInv ==
    ASSUME Inv, NEW l \in listings, AtlasDrops(l)
    PROVE  Inv'
  <1>1. /\ UNCHANGED <<reporter, serverId, adds>> /\ listings' = listings \ {l} /\ lost' = lost \ {l.id}
    BY DEF AtlasDrops, local
  <1>2. OtherTypes'
    BY DEF AtlasDrops, local, settings, Inv, OtherTypes
  <1> QED
    BY <1>1, <1>2 DEF Inv, IdIsCurrent, AliveHolds, ListingsHold, AddsHold

LEMMA NextInv == Inv /\ [Next]_vars => Inv'
  <1>1. Inv /\ Reporter => Inv'
    BY EnvironmentInv, ReadPresenceInv, RemovePresenceInv, ClearInv, ReadSettingsInv, SendInv, AnswersInv
       DEF Reporter
  <1> QED
    BY <1>1, EnvironmentInv, AtlasDropsInv DEF Next

LEMMA Invariance == Spec => []Inv
  BY InitInv, NextInv, PTL DEF Spec

-----------------------------------------------------------------------------
(* Types, and attempts that never pass their limit.                        *)
THEOREM PresenceTypeCorrect == Spec => []TypeOK
  <1>1. Inv => TypeOK
    BY Typed DEF Inv
  <1> QED
    BY <1>1, Invariance, PTL

(* Whatever the reports, settings and answers do in between, Atlas lists   *)
(* the server under its current id only, or under one whose add or remove  *)
(* was lost (PresenceReporter removes before it clears).                   *)
THEOREM NoListingStrays == Spec => []NoStrayListing
  <1>1. Inv => NoStrayListing
    BY DEF Inv, ListingsHold, NoStrayListing
  <1> QED
    BY <1>1, Invariance, PTL

(* No more add requests than the limit are sent without a new start        *)
(* (kMaxRegistrationAttempts), although a listing that succeeds is not     *)
(* counted as an attempt.                                                  *)
THEOREM AddsAreBounded == Spec => []AddsBounded
  <1>1. Inv => AddsBounded
    BY DEF Inv, AddsHold, AddsBounded
  <1> QED
    BY <1>1, Invariance, PTL

=============================================================================
