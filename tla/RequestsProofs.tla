--------------------------- MODULE RequestsProofs ---------------------------
(***************************************************************************)
(* Proofs about what the game asks of the network: joins and self-auths    *)
(* (ServerJoin, AtlasIdentity), the scripts' calls (ScriptCalls) and the   *)
(* server browser's hand-over and joins (ServerBrowser), for every value   *)
(* of their constants, as theorems of RequestsSpec.                        *)
(*                                                                         *)
(* The identity is read without the lock that its writers hold.  JoinInv   *)
(* says who holds the lock, that what its holder is about to write is one  *)
(* account's, and that a request answered without a push in between is the *)
(* account's.  CallsInv says that what is queued or loaded is a living     *)
(* VM's, and that what is still under way is so exactly if it carries its  *)
(* context's generation.  BrowserInv says that a request is under way as   *)
(* long as its worker is, and what of an answer is in the shared variables *)
(* before and after the worker hands it over.                              *)
(***************************************************************************)
EXTENDS MCRequests, SequenceLemmas

-----------------------------------------------------------------------------
(* Joins and self-auths (ServerJoin, AtlasIdentity).                         *)

(* Who holds g_atlasRefreshBusy.                                            *)
WorkerHolds(w) == worker[w].pc \in {"Compare", "Store", "Save"}
ListenerHolds == listener.pc \in {"StoreUid", "StoreToken", "Save"}

\* The lock has one holder at a time, and while it has one it is taken.
LockIsHeld ==
    /\ ListenerHolds => busy /\ \A w \in Workers : ~WorkerHolds(w)
    /\ \A w \in Workers : WorkerHolds(w) => busy
    /\ \A w, v \in Workers : WorkerHolds(w) /\ WorkerHolds(v) => w = v

\* Only the holder's own write tears the identity, and what it is about to
\* write is one account's.
WritesAreWhole ==
    /\ ~ListenerHolds => uid # Torn
    /\ ~ListenerHolds /\ (\A w \in Workers : worker[w].pc # "Store") => WholeIn(uid, token)
    /\ listener.pc # "Idle" =>
          listener.push \in Identity /\ listener.push.token.owner = listener.push.uid
    /\ listener.pc \in {"StoreToken", "Save"} => uid = listener.push.uid
    /\ listener.pc = "Save" => token = listener.push.token
    /\ \A w \in Workers : worker[w].pc \in {"Store", "Save"} =>
          uid \in Accounts /\ worker[w].reply \in Token /\ worker[w].reply.owner = uid
    /\ file # NoFile => WholeIn(file.uid, file.token)

\* As long as no push came, a request and its answer are the account's.
AnswersAreOnes ==
    /\ \A w \in Workers :
          /\ worker[w].pc # "Off" => fetch[w] = "Requesting"
          /\ worker[w].pc \in {"CheckId", "Record"} =>
                w = "self" /\ result[w].owner \in Accounts /\ result[w].filed = Nobody
          /\ ~changed[w] /\ worker[w].pc = "Wait" => worker[w].id = uid
          /\ ~changed[w] => result[w].owner \in {Nobody, uid}
          /\ ~changed[w] => result[w].filed \in {Nobody, result[w].owner}
    /\ ~changed["join"] => pending \in {Nobody, uid}

JoinInv == TypeOK /\ LockIsHeld /\ WritesAreWhole /\ AnswersAreOnes

-----------------------------------------------------------------------------
(* The identity: the sign-in listener and the helpers.                      *)

LEMMA JoinInitInv == Init => JoinInv
  <1> SUFFICES ASSUME Init PROVE JoinInv
    OBVIOUS
  <1> USE IdentityAssumption
  <1>1. /\ Idle \in WorkerStates /\ NoResult \in Results /\ FirstToken(Owner) \in Token
        /\ Idle.pc = "Off" /\ NoResult.owner = Nobody /\ NoResult.filed = Nobody
    BY DEF Idle, NoResult, WorkerStates, Results, FirstToken, Token, Steps, AnyUid, Account0
  <1>2. /\ listener = [pc |-> "Idle", push |-> NoPush] /\ listener.pc = "Idle"
        /\ listener \in ListenerStates
    BY DEF Init, IdentityInit, ListenerStates, ListenerSteps
  <1>3. /\ file \in Identity \cup {NoFile} \cup [uid: Accounts, token: {NoToken}, paired: {NoHelper}]
        /\ file # NoFile => WholeIn(file.uid, file.token)
    BY <1>1 DEF Init, IdentityInit, Identity, WholeIn, FirstToken
  <1>4. /\ IdentityOf(file).uid \in Accounts \cup {Nobody}
        /\ IdentityOf(file).token \in Token \cup {NoToken}
        /\ IdentityOf(file).paired \in Helpers \cup {NoHelper}
        /\ IdentityOf(file).state \in {"Missing", "Incomplete", "Ready"}
        /\ IdentityOf(file).token # NoToken => IdentityOf(file).uid \in Accounts
        /\ WholeIn(IdentityOf(file).uid, IdentityOf(file).token)
    BY <1>3 DEF IdentityOf, Identity, WholeIn
  <1>5. /\ uid = IdentityOf(file).uid /\ token = IdentityOf(file).token
        /\ paired = IdentityOf(file).paired /\ identityState = IdentityOf(file).state
        /\ atlas = [a \in Accounts |-> IF token # NoToken /\ a = uid THEN token ELSE NoToken]
        /\ minted = IF token = NoToken THEN 0 ELSE 1
        /\ busy = FALSE /\ wrongCodes = 0 /\ pushes = 0
    BY DEF Init, IdentityInit
  <1>6. IdentityTypeOK
    <2>1. minted \in 0..MaxTokens /\ wrongCodes \in 0..kMaxWrongCodes /\ pushes \in 0..MaxPushes
      BY <1>5
    <2>2. atlas \in [Accounts -> Token \cup {NoToken}]
      BY <1>4, <1>5
    <2> QED
      BY <1>2, <1>3, <1>4, <1>5, <2>1, <2>2 DEF IdentityTypeOK
  <1>7. TypeOK
    <2>1. requests \in 0..MaxRequests /\ platformUid \in AnyUid
      BY <1>4, <1>5, RequestsAssumption DEF Init, AnyUid
    <2>2. fetch \in [Workers -> {"Idle", "Requesting", "Ready"}] /\ changed \in [Workers -> BOOLEAN]
      BY DEF Init
    <2>3. worker \in [Workers -> WorkerStates] /\ result \in [Workers -> Results]
      BY <1>1 DEF Init
    <2>4. authSucceeded \in BOOLEAN /\ {pending, selfAuthToken, serverFilter} \subseteq Account0
      BY DEF Init, Account0
    <2> QED
      BY <1>6, <2>1, <2>2, <2>3, <2>4 DEF TypeOK
  <1>8. LockIsHeld
    BY <1>1, <1>2 DEF Init, LockIsHeld, WorkerHolds, ListenerHolds
  <1>9. WritesAreWhole
    BY <1>1, <1>2, <1>3, <1>4, <1>5 DEF Init, WritesAreWhole
  <1>10. AnswersAreOnes
    BY <1>1 DEF Init, AnswersAreOnes
  <1> QED
    BY <1>7, <1>8, <1>9, <1>10 DEF JoinInv

\* What a step of the listener does to the requests: nothing, except that it
\* notes a new account.
LEMMA ListensToAnswers ==
  ASSUME TypeOK, AnswersAreOnes, Listens
  PROVE  AnswersAreOnes'
  <1>1. /\ worker' = worker /\ fetch' = fetch /\ result' = result /\ pending' = pending
    BY DEF Listens, uiVars
  <1>2. CASE uid' = uid
    BY <1>1, <1>2 DEF Listens, AnswersAreOnes
  <1>3. CASE uid' # uid
    <2>1. \A w \in Workers : changed'[w]
      BY <1>3 DEF Listens
    <2> QED
      BY <1>1, <2>1 DEF AnswersAreOnes, Workers
  <1> QED
    BY <1>2, <1>3

LEMMA ListenerKeeps ==
  ASSUME JoinInv, Listens
  PROVE  JoinInv'
  <1>1. TypeOK /\ LockIsHeld /\ WritesAreWhole /\ AnswersAreOnes
    BY DEF JoinInv
  <1>2. AnswersAreOnes'
    BY <1>1, ListensToAnswers
  <1>3. /\ worker' = worker /\ fetch' = fetch /\ result' = result /\ requests' = requests
        /\ UNCHANGED <<authSucceeded, pending, selfAuthToken, serverFilter, platformUid>>
        /\ changed' \in [Workers -> BOOLEAN]
    BY <1>1 DEF Listens, uiVars, TypeOK
  <1>4. IdentityTypeOK /\ listener \in ListenerStates
    BY <1>1 DEF TypeOK, IdentityTypeOK
  <1>5. IdentityTypeOK' => TypeOK'
    BY <1>1, <1>3 DEF TypeOK
  <1>6. CASE PushLocks
    <2>1. /\ listener' = [listener EXCEPT !.pc = "StoreUid"] /\ listener.pc = "Lock" /\ ~busy
          /\ busy' /\ UNCHANGED <<atlas, minted, token, paired, identityState, file, wrongCodes, pushes>>
          /\ busy' \in BOOLEAN
      BY <1>6 DEF PushLocks, outsideVars
    <2>2. /\ listener'.pc = "StoreUid" /\ listener'.push = listener.push
          /\ listener' \in ListenerStates
      BY <1>4, <2>1 DEF ListenerStates, ListenerSteps
    <2>3. uid' \in Accounts \cup {Torn, Nobody}
      BY <1>4, <1>6 DEF PushLocks, Overwriting, IdentityTypeOK
    <2>4. IdentityTypeOK'
      BY <1>4, <2>1, <2>2, <2>3 DEF IdentityTypeOK
    <2>5. LockIsHeld'
      BY <1>1, <1>3, <2>1, <2>2 DEF LockIsHeld, WorkerHolds, ListenerHolds
    <2>6. WritesAreWhole'
      BY <1>1, <1>3, <2>1, <2>2 DEF WritesAreWhole, LockIsHeld, WorkerHolds, ListenerHolds
    <2> QED
      BY <1>2, <1>5, <2>4, <2>5, <2>6 DEF JoinInv
  <1>7. CASE PushStoresUid
    <2>1. /\ listener' = [listener EXCEPT !.pc = "StoreToken"] /\ listener.pc = "StoreUid"
          /\ uid' = listener.push.uid
          /\ UNCHANGED <<atlas, minted, paired, identityState, file, busy, wrongCodes, pushes>>
      BY <1>7 DEF PushStoresUid, outsideVars
    <2>2. /\ listener'.pc = "StoreToken" /\ listener'.push = listener.push
          /\ listener' \in ListenerStates
      BY <1>4, <2>1 DEF ListenerStates, ListenerSteps
    <2>3. /\ uid' \in Accounts /\ token' \in Token \cup {Torn, NoToken}
      BY <1>1, <1>4, <1>7, <2>1 DEF PushStoresUid, Overwriting, IdentityTypeOK, WritesAreWhole, Identity
    <2>4. IdentityTypeOK'
      BY <1>4, <2>1, <2>2, <2>3 DEF IdentityTypeOK
    <2>5. LockIsHeld'
      BY <1>1, <1>3, <2>1, <2>2 DEF LockIsHeld, WorkerHolds, ListenerHolds
    <2>6. WritesAreWhole'
      BY <1>1, <1>3, <2>1, <2>2 DEF WritesAreWhole, LockIsHeld, WorkerHolds, ListenerHolds
    <2> QED
      BY <1>2, <1>5, <2>4, <2>5, <2>6 DEF JoinInv
  <1>8. CASE PushStoresToken
    <2>1. /\ listener' = [listener EXCEPT !.pc = "Save"] /\ listener.pc = "StoreToken"
          /\ token' = listener.push.token /\ paired' = listener.push.paired /\ identityState' = "Ready"
          /\ UNCHANGED <<atlas, minted, uid, file, busy, wrongCodes, pushes>>
      BY <1>8 DEF PushStoresToken, outsideVars
    <2>2. /\ listener'.pc = "Save" /\ listener'.push = listener.push
          /\ listener' \in ListenerStates
      BY <1>4, <2>1 DEF ListenerStates, ListenerSteps
    <2>3. token' \in Token /\ paired' \in Helpers \cup {NoHelper}
      BY <1>1, <2>1 DEF WritesAreWhole, Identity
    <2>4. IdentityTypeOK'
      BY <1>4, <2>1, <2>2, <2>3 DEF IdentityTypeOK
    <2>5. LockIsHeld'
      BY <1>1, <1>3, <2>1, <2>2 DEF LockIsHeld, WorkerHolds, ListenerHolds
    <2>6. WritesAreWhole'
      BY <1>1, <1>3, <2>1, <2>2 DEF WritesAreWhole, LockIsHeld, WorkerHolds, ListenerHolds
    <2> QED
      BY <1>2, <1>5, <2>4, <2>5, <2>6 DEF JoinInv
  <1>9. CASE PushSaves
    <2>1. /\ listener' = [pc |-> "Idle", push |-> NoPush] /\ listener.pc = "Save"
          /\ file' \in {file, listener.push} /\ ~busy' /\ busy' \in BOOLEAN
          /\ UNCHANGED <<atlas, minted, uid, token, paired, identityState, wrongCodes, pushes>>
      BY <1>9 DEF PushSaves, Saved, outsideVars
    <2>2. /\ listener'.pc = "Idle" /\ listener' \in ListenerStates
      BY <2>1 DEF ListenerStates, ListenerSteps
    <2>3. /\ listener.push \in Identity /\ listener.push.token \in Token
          /\ WholeIn(listener.push.uid, listener.push.token) /\ listener.push.uid # Torn
      BY <1>1, <2>1, IdentityAssumption DEF WritesAreWhole, Identity, WholeIn
    <2>4. IdentityTypeOK'
      BY <1>4, <2>1, <2>2, <2>3 DEF IdentityTypeOK
    <2>5. LockIsHeld'
      BY <1>1, <1>3, <2>1, <2>2 DEF LockIsHeld, WorkerHolds, ListenerHolds
    <2>6. uid = listener.push.uid /\ token = listener.push.token /\ ListenerHolds
          /\ (file' # NoFile => WholeIn(file'.uid, file'.token))
      BY <1>1, <2>1, <2>3 DEF WritesAreWhole, ListenerHolds
    <2>7. \A w \in Workers : worker'[w].pc \notin {"Store", "Save"}
      BY <1>1, <1>3, <2>6 DEF LockIsHeld, WorkerHolds
    <2>8. WritesAreWhole'
      BY <1>1, <2>1, <2>2, <2>3, <2>6, <2>7 DEF WritesAreWhole, WholeIn
    <2> QED
      BY <1>2, <1>5, <2>4, <2>5, <2>8 DEF JoinInv
  <1> QED
    BY <1>6, <1>7, <1>8, <1>9 DEF Listens, ListenerStep

\* A token Atlas mints is of its account.
LEMMA MintedTypes ==
  ASSUME IdentityTypeOK, CanMint, NEW a \in Accounts, Minted(a)
  PROVE  /\ atlas' \in [Accounts -> Token \cup {NoToken}] /\ minted' \in 0..MaxTokens
         /\ Mint(a) \in Token /\ Mint(a).owner = a
  <1>1. minted \in Nat /\ MaxTokens \in Nat /\ minted < MaxTokens /\ minted' = minted + 1
    BY IdentityAssumption DEF IdentityTypeOK, CanMint, Minted
  <1>2. Mint(a) \in Token /\ Mint(a).owner = a
    BY <1>1 DEF Mint, Token
  <1>3. minted' \in 0..MaxTokens
    BY <1>1
  <1> QED
    BY <1>2, <1>3 DEF IdentityTypeOK, Minted

LEMMA OutsideKeeps ==
  ASSUME JoinInv, Outside
  PROVE  JoinInv'
  <1>1. TypeOK /\ LockIsHeld /\ WritesAreWhole /\ AnswersAreOnes /\ IdentityTypeOK
    BY DEF JoinInv, TypeOK
  <1>2. /\ UNCHANGED <<worker, fetch, result, requests, changed>>
        /\ UNCHANGED <<authSucceeded, pending, selfAuthToken, serverFilter, platformUid>>
    BY DEF Outside, joinVars, uiVars, workVars
  <1>3. UNCHANGED <<uid, token, paired, identityState, file, busy>>
    BY DEF Outside, SignInElsewhere, Serve, identityVars
  <1>4. AnswersAreOnes'
    BY <1>1, <1>2, <1>3 DEF AnswersAreOnes
  <1>5. IdentityTypeOK' => TypeOK'
    BY <1>1, <1>2 DEF TypeOK
  <1>6. CASE \E a \in Accounts : SignInElsewhere(a)
    <2>1. PICK a \in Accounts : SignInElsewhere(a)
      BY <1>6
    <2>2. /\ UNCHANGED <<listener, wrongCodes, pushes>>
          /\ atlas' \in [Accounts -> Token \cup {NoToken}] /\ minted' \in 0..MaxTokens
      BY <1>1, <2>1, MintedTypes DEF SignInElsewhere, listenerVars
    <2>3. IdentityTypeOK' /\ LockIsHeld' /\ WritesAreWhole'
      BY <1>1, <1>2, <1>3, <2>2
      DEF IdentityTypeOK, LockIsHeld, WritesAreWhole, WorkerHolds, ListenerHolds
    <2> QED
      BY <1>4, <1>5, <2>3 DEF JoinInv
  <1>7. CASE \E h \in Helpers, a \in Accounts, here, right \in BOOLEAN : Serve(h, a, here, right)
    <2>1. PICK h \in Helpers, a \in Accounts, here \in BOOLEAN, right \in BOOLEAN : Serve(h, a, here, right)
      BY <1>7
    <2>2. listener.pc = "Idle"
      BY <2>1 DEF Serve
    <2>3. CASE CheckSignInPush(here, h, right)
      <3>1. /\ CanMint /\ Minted(a) /\ pushes < MaxPushes /\ pushes' = pushes + 1
            /\ wrongCodes' = wrongCodes
            /\ listener' = [pc |-> "Lock", push |-> [uid |-> a, token |-> Mint(a), paired |-> h]]
        BY <2>1, <2>3 DEF Serve
      <3>2. /\ atlas' \in [Accounts -> Token \cup {NoToken}] /\ minted' \in 0..MaxTokens
            /\ Mint(a) \in Token /\ Mint(a).owner = a
        BY <1>1, <3>1, MintedTypes
      <3>3. pushes' \in 0..MaxPushes
        BY <1>1, <3>1, IdentityAssumption DEF IdentityTypeOK
      <3>4. /\ listener'.pc = "Lock" /\ listener'.push.token = Mint(a) /\ listener'.push.uid = a
            /\ listener'.push \in Identity /\ listener' \in ListenerStates
        BY <3>1, <3>2 DEF Identity, ListenerStates, ListenerSteps
      <3>5. IdentityTypeOK'
        BY <1>1, <1>3, <3>1, <3>2, <3>3, <3>4 DEF IdentityTypeOK
      <3>6. LockIsHeld' /\ WritesAreWhole'
        BY <1>1, <1>2, <1>3, <2>2, <3>2, <3>4
        DEF LockIsHeld, WritesAreWhole, WorkerHolds, ListenerHolds
      <3> QED
        BY <1>4, <1>5, <3>5, <3>6 DEF JoinInv
    <2>4. CASE ~CheckSignInPush(here, h, right)
      <3>1. UNCHANGED <<listener, pushes, atlas, minted>>
        BY <2>1, <2>4 DEF Serve, outsideVars
      <3>2. wrongCodes' = IF CountsAsWrong(here, h, right) THEN wrongCodes + 1 ELSE wrongCodes
        BY <2>1, <2>4 DEF Serve
      <3>3. wrongCodes' \in 0..kMaxWrongCodes
        BY <1>1, <3>2, IdentityAssumption DEF CountsAsWrong, IdentityTypeOK
      <3>4. IdentityTypeOK' /\ LockIsHeld' /\ WritesAreWhole'
        BY <1>1, <1>2, <1>3, <3>1, <3>3
        DEF IdentityTypeOK, LockIsHeld, WritesAreWhole, WorkerHolds, ListenerHolds
      <3> QED
        BY <1>4, <1>5, <3>4 DEF JoinInv
    <2> QED
      BY <2>3, <2>4
  <1> QED
    BY <1>6, <1>7 DEF Outside

-----------------------------------------------------------------------------
(* The UI thread.                                                           *)

(* What a step that leaves the workers and the identity alone has to keep.  *)
LEMMA UiKeeps ==
  ASSUME JoinInv, UNCHANGED <<identityVars, outsideVars, listenerVars, worker, changed, requests>>,
         fetch' \in [Workers -> {"Idle", "Requesting", "Ready"}], result' \in [Workers -> Results],
         \A w \in Workers : \/ fetch'[w] = fetch[w] /\ result'[w] = result[w]
                            \/ fetch[w] # "Requesting" /\ result'[w] = NoResult,
         authSucceeded' \in BOOLEAN, {pending', selfAuthToken', serverFilter'} \subseteq Account0,
         pending' \in {Nobody, pending} \/ pending' = result["join"].owner,
         platformUid' \in AnyUid
  PROVE  JoinInv'
  <1>1. TypeOK /\ LockIsHeld /\ WritesAreWhole /\ AnswersAreOnes /\ IdentityTypeOK
    BY DEF JoinInv, TypeOK
  <1>2. /\ UNCHANGED <<uid, token, paired, identityState, file, busy, atlas, minted>>
        /\ UNCHANGED <<listener, wrongCodes, pushes, worker, changed, requests>>
    BY DEF identityVars, outsideVars, listenerVars
  <1>3. IdentityTypeOK' /\ LockIsHeld' /\ WritesAreWhole'
    BY <1>1, <1>2 DEF IdentityTypeOK, LockIsHeld, WritesAreWhole, WorkerHolds, ListenerHolds
  <1>4. TypeOK'
    BY <1>1, <1>2, <1>3 DEF TypeOK
  <1>5. NoResult.owner = Nobody /\ NoResult.filed = Nobody
    BY DEF NoResult
  <1>6. AnswersAreOnes'
    BY <1>1, <1>2, <1>5 DEF AnswersAreOnes, Workers
  <1> QED
    BY <1>1, <1>3, <1>4, <1>6 DEF JoinInv

(* Taking over answers leaves what UiKeeps asks for.                        *)
LEMMA Publishing ==
  ASSUME TypeOK, NEW ws \in SUBSET Workers
  PROVE  /\ FetchAfter(ws) \in [Workers -> {"Idle", "Requesting", "Ready"}]
         /\ ResultAfter(ws) \in [Workers -> Results]
         /\ \A w \in Workers :
               \/ FetchAfter(ws)[w] = fetch[w] /\ ResultAfter(ws)[w] = result[w]
               \/ fetch[w] # "Requesting" /\ ResultAfter(ws)[w] = NoResult
         /\ SucceededAfter(ws) \in BOOLEAN
         /\ PendingAfter(ws) \in Account0 /\ SelfTokenAfter(ws) \in Account0
         /\ PendingAfter(ws) = pending \/ PendingAfter(ws) = result["join"].owner
         /\ PendingAfter(ws) # pending => fetch["join"] = "Ready"
  <1>1. /\ fetch \in [Workers -> {"Idle", "Requesting", "Ready"}] /\ result \in [Workers -> Results]
        /\ authSucceeded \in BOOLEAN /\ pending \in Account0 /\ selfAuthToken \in Account0
        /\ NoResult \in Results /\ Nobody \in Account0 /\ "join" \in Workers /\ "self" \in Workers
    BY DEF TypeOK, NoResult, Results, Account0, AnyUid, Workers
  <1>2. \A w \in Workers : result[w].success \in BOOLEAN /\ result[w].owner \in Account0
                           /\ result[w].refused \in BOOLEAN
    BY <1>1 DEF Results
  <1>3. SucceededAfter(ws) \in BOOLEAN
    BY <1>1, <1>2 DEF SucceededAfter
  <1>4. PendingAfter(ws) \in Account0 /\ SelfTokenAfter(ws) \in Account0
    BY <1>1, <1>2 DEF PendingAfter, SelfTokenAfter
  <1> QED
    BY <1>1, <1>3, <1>4 DEF FetchAfter, ResultAfter, PendingAfter, Published

LEMMA UiStepsKeep ==
  ASSUME JoinInv, Poll \/ CompleteAuth \/ CompleteLocalAuth \/ EngineRewritesUid
  PROVE  JoinInv'
  <1>1. TypeOK /\ IdentityTypeOK /\ {"self"} \in SUBSET Workers /\ {"join"} \in SUBSET Workers
        /\ Workers \in SUBSET Workers
    BY DEF JoinInv, TypeOK, Workers
  <1>2. /\ pending \in Account0 /\ selfAuthToken \in Account0 /\ serverFilter \in Account0
        /\ platformUid \in AnyUid /\ uid \in AnyUid /\ Nobody \in Account0 /\ Nobody \in AnyUid
        /\ fetch \in [Workers -> {"Idle", "Requesting", "Ready"}] /\ result \in [Workers -> Results]
        /\ authSucceeded \in BOOLEAN
    BY <1>1 DEF TypeOK, IdentityTypeOK, Account0, AnyUid
  <1>3. CASE Poll
    <2>1. /\ fetch' = FetchAfter(Workers) /\ result' = ResultAfter(Workers)
          /\ authSucceeded' = SucceededAfter(Workers)
          /\ pending' = PendingAfter(Workers) /\ selfAuthToken' = SelfTokenAfter(Workers)
          /\ UNCHANGED <<serverFilter, platformUid>>
          /\ UNCHANGED <<identityVars, outsideVars, listenerVars, worker, changed, requests>>
      BY <1>3 DEF Poll
    <2> QED
      BY <1>1, <1>2, <2>1, Publishing, UiKeeps
  <1>4. CASE CompleteAuth
    <2>1. /\ fetch' = FetchAfter({"join"}) /\ result' = ResultAfter({"join"})
          /\ authSucceeded' = SucceededAfter({"join"})
          /\ pending' = Nobody /\ serverFilter' = PendingAfter({"join"}) /\ platformUid' = uid
          /\ selfAuthToken' = selfAuthToken
          /\ UNCHANGED <<identityVars, outsideVars, listenerVars, worker, changed, requests>>
      BY <1>4 DEF CompleteAuth, EnsureConnectUid
    <2> QED
      BY <1>1, <1>2, <2>1, Publishing, UiKeeps
  <1>5. CASE CompleteLocalAuth
    <2>1. /\ fetch' = FetchAfter({"self"}) /\ result' = ResultAfter({"self"})
          /\ authSucceeded' = SucceededAfter({"self"})
          /\ selfAuthToken' = SelfTokenAfter({"self"}) /\ serverFilter' = SelfTokenAfter({"self"})
          /\ platformUid' \in {uid, platformUid}
          /\ pending' = pending
          /\ UNCHANGED <<identityVars, outsideVars, listenerVars, worker, changed, requests>>
      BY <1>5 DEF CompleteLocalAuth
    <2> QED
      BY <1>1, <1>2, <2>1, Publishing, UiKeeps
  <1>6. CASE EngineRewritesUid
    <2>1. /\ platformUid' = Nobody
          /\ UNCHANGED <<authSucceeded, pending, selfAuthToken, serverFilter, fetch, result>>
          /\ UNCHANGED <<identityVars, outsideVars, listenerVars, worker, changed, requests>>
      BY <1>6 DEF EngineRewritesUid, workVars
    <2> QED
      BY <1>1, <1>2, <2>1, UiKeeps
  <1> QED
    BY <1>3, <1>4, <1>5, <1>6

LEMMA TryAuthKeeps ==
  ASSUME JoinInv, NEW w \in Workers, TryAuth(w)
  PROVE  JoinInv'
  <1>1. TypeOK /\ LockIsHeld /\ WritesAreWhole /\ AnswersAreOnes /\ IdentityTypeOK
    BY DEF JoinInv, TypeOK
  <1>2. /\ UNCHANGED <<uid, token, paired, identityState, file, busy, atlas, minted>>
        /\ UNCHANGED <<listener, wrongCodes, pushes, serverFilter, platformUid>>
        /\ requests < MaxRequests /\ requests' = requests + 1 /\ authSucceeded' = FALSE
        /\ pending' = (IF w = "join" THEN Nobody ELSE pending)
        /\ selfAuthToken' = (IF w = "self" THEN Nobody ELSE selfAuthToken)
        /\ FetchAfter({w})[w] = "Idle"
    BY DEF TryAuth, identityVars, outsideVars, listenerVars
  <1>3. requests' \in 0..MaxRequests
    BY <1>1, <1>2, RequestsAssumption DEF TypeOK
  <1>4. /\ fetch \in [Workers -> {"Idle", "Requesting", "Ready"}] /\ result \in [Workers -> Results]
        /\ worker \in [Workers -> WorkerStates] /\ changed \in [Workers -> BOOLEAN]
        /\ {pending', selfAuthToken', serverFilter'} \subseteq Account0 /\ NoResult \in Results
        /\ pending' \in {Nobody, pending} /\ (w = "join" => pending' = Nobody)
    BY <1>1, <1>2 DEF TypeOK, Account0, NoResult, Results, AnyUid
  <1>5. fetch[w] # "Requesting" /\ worker[w].pc = "Off"
    <2>1. FetchAfter({w})[w] = (IF Published(w) THEN "Idle" ELSE fetch[w])
      BY <1>4 DEF FetchAfter
    <2>2. fetch[w] # "Requesting"
      BY <1>2, <2>1 DEF Published
    <2> QED
      BY <1>1, <2>2 DEF AnswersAreOnes
  <1>6. NoResult.owner = Nobody /\ NoResult.filed = Nobody
    BY DEF NoResult
  <1>7. \/ /\ fetch' = [fetch EXCEPT ![w] = "Requesting"]
           /\ worker' = [worker EXCEPT ![w] = [Idle EXCEPT !.pc = "ReadToken"]]
           /\ result' = [result EXCEPT ![w] = NoResult] /\ changed' = [changed EXCEPT ![w] = FALSE]
        \/ /\ fetch' = [fetch EXCEPT ![w] = "Ready"] /\ worker' = worker
           /\ result' = [result EXCEPT ![w] = NoResult] /\ changed' = changed
        \/ /\ fetch' = FetchAfter({w}) /\ result' = ResultAfter({w})
           /\ worker' = worker /\ changed' = changed
    BY DEF TryAuth
  <1>8. [Idle EXCEPT !.pc = "ReadToken"] \in WorkerStates /\ [Idle EXCEPT !.pc = "ReadToken"].pc = "ReadToken"
    BY DEF Idle, WorkerStates, Steps, AnyUid
  <1>9. /\ fetch' \in [Workers -> {"Idle", "Requesting", "Ready"}] /\ result' \in [Workers -> Results]
        /\ worker' \in [Workers -> WorkerStates] /\ changed' \in [Workers -> BOOLEAN]
        /\ worker'[w].pc \in {"Off", "ReadToken"}
        /\ worker'[w].pc # "Off" => fetch'[w] = "Requesting"
        /\ result'[w] \in {result[w], NoResult}
        /\ changed'[w] => changed[w]
        /\ ~changed'[w] => ~changed[w] \/ result'[w] = NoResult
    <2>1. {w} \in SUBSET Workers
      OBVIOUS
    <2>2. /\ FetchAfter({w}) \in [Workers -> {"Idle", "Requesting", "Ready"}]
          /\ ResultAfter({w}) \in [Workers -> Results]
          /\ ResultAfter({w})[w] \in {result[w], NoResult}
      BY <1>1, <2>1, Publishing
    <2>3. CASE /\ fetch' = [fetch EXCEPT ![w] = "Requesting"]
               /\ worker' = [worker EXCEPT ![w] = [Idle EXCEPT !.pc = "ReadToken"]]
               /\ result' = [result EXCEPT ![w] = NoResult] /\ changed' = [changed EXCEPT ![w] = FALSE]
      BY <1>4, <1>8, <2>3
    <2>4. CASE /\ fetch' = [fetch EXCEPT ![w] = "Ready"] /\ worker' = worker
               /\ result' = [result EXCEPT ![w] = NoResult] /\ changed' = changed
      BY <1>4, <1>5, <2>4
    <2>5. CASE /\ fetch' = FetchAfter({w}) /\ result' = ResultAfter({w})
               /\ worker' = worker /\ changed' = changed
      BY <1>4, <1>5, <2>2, <2>5
    <2> QED
      BY <1>7, <2>3, <2>4, <2>5
  <1>10. \A v \in Workers \ {w} : /\ fetch'[v] = fetch[v] /\ result'[v] = result[v]
                                  /\ worker'[v] = worker[v] /\ changed'[v] = changed[v]
    BY <1>4, <1>7 DEF FetchAfter, ResultAfter
  <1>11. \A v \in Workers : worker'[v].pc \in {"Off", "ReadToken"} \/ v # w
    BY <1>9
  <1>12. IdentityTypeOK'
    BY <1>1, <1>2 DEF IdentityTypeOK
  <1>13. TypeOK'
    BY <1>1, <1>2, <1>3, <1>4, <1>9, <1>12 DEF TypeOK
  <1>14. LockIsHeld' /\ WritesAreWhole'
    BY <1>1, <1>2, <1>5, <1>10, <1>11 DEF LockIsHeld, WritesAreWhole, WorkerHolds, ListenerHolds
  <1>15. ~changed'["join"] => pending' \in {Nobody, uid'}
    <2>1. "join" \in Workers
      BY DEF Workers
    <2>2. CASE w = "join"
      BY <1>4, <2>2
    <2>3. CASE w # "join"
      BY <1>1, <1>2, <1>4, <1>10, <2>1, <2>3 DEF AnswersAreOnes
    <2> QED
      BY <2>2, <2>3
  <1>16. AnswersAreOnes'
    BY <1>1, <1>2, <1>6, <1>9, <1>10, <1>15 DEF AnswersAreOnes
  <1> QED
    BY <1>13, <1>14, <1>16 DEF JoinInv

-----------------------------------------------------------------------------
(* The workers.                                                             *)

(* A worker's step that leaves the identity and the lock alone.             *)
QuietStep(w, r, q, f) ==
    /\ UNCHANGED <<identityVars, outsideVars, listenerVars, uiVars, requests>>
    /\ r \in WorkerStates /\ q \in Results /\ f \in {"Idle", "Requesting", "Ready"}
    /\ worker' = [worker EXCEPT ![w] = r] /\ result' = [result EXCEPT ![w] = q]
    /\ fetch' = [fetch EXCEPT ![w] = f]
    /\ changed' # changed => w = "self" /\ changed' = [changed EXCEPT ![w] = FALSE]
    /\ worker[w].pc \notin {"Compare", "Store", "Save"} /\ r.pc \notin {"Compare", "Store", "Save"}
    /\ r.pc # "Off" => f = "Requesting"
    /\ r.pc \in {"CheckId", "Record"} => w = "self" /\ q.owner \in Accounts /\ q.filed = Nobody
    /\ r.pc = "Wait" => r.id = uid
    /\ ~changed'[w] => q.owner \in {Nobody, uid} /\ q.filed \in {Nobody, q.owner}
LEMMA QuietWorkerKeeps ==
  ASSUME JoinInv, NEW w \in Workers, NEW r, NEW q, NEW f, QuietStep(w, r, q, f)
  PROVE  JoinInv'
  <1>1. TypeOK /\ LockIsHeld /\ WritesAreWhole /\ AnswersAreOnes /\ IdentityTypeOK
    BY DEF JoinInv, TypeOK
  <1>2. /\ UNCHANGED <<uid, token, paired, identityState, file, busy, atlas, minted>>
        /\ UNCHANGED <<listener, wrongCodes, pushes, serverFilter, platformUid>>
        /\ UNCHANGED <<authSucceeded, pending, selfAuthToken, requests>>
    BY DEF QuietStep, identityVars, outsideVars, listenerVars, uiVars
  <1>3. /\ fetch \in [Workers -> {"Idle", "Requesting", "Ready"}] /\ result \in [Workers -> Results]
        /\ worker \in [Workers -> WorkerStates] /\ changed \in [Workers -> BOOLEAN]
        /\ changed' \in [Workers -> BOOLEAN]
    BY <1>1 DEF TypeOK, QuietStep
  <1>4. worker'[w] = r /\ result'[w] = q /\ fetch'[w] = f
    BY <1>3 DEF QuietStep
  <1>5. \A v \in Workers \ {w} : /\ worker'[v] = worker[v] /\ result'[v] = result[v]
                                 /\ fetch'[v] = fetch[v] /\ changed'[v] = changed[v]
    BY <1>3 DEF QuietStep
  <1>6. IdentityTypeOK' /\ TypeOK'
    BY <1>1, <1>2, <1>3 DEF IdentityTypeOK, TypeOK, QuietStep
  <1>7. LockIsHeld' /\ WritesAreWhole'
    BY <1>1, <1>2, <1>4, <1>5 DEF LockIsHeld, WritesAreWhole, WorkerHolds, ListenerHolds, QuietStep
  <1>8. AnswersAreOnes'
    <2>1. ~changed'["join"] => pending' \in {Nobody, uid'}
      BY <1>1, <1>2, <1>3 DEF AnswersAreOnes, QuietStep, Workers
    <2> QED
      BY <1>1, <1>2, <1>4, <1>5, <2>1 DEF AnswersAreOnes, QuietStep
  <1> QED
    BY <1>6, <1>7, <1>8 DEF JoinInv

LEMMA QuietStepsKeep ==
  ASSUME JoinInv, NEW w \in Workers,
         ReadToken(w) \/ Send(w) \/ Answer(w) \/ CheckId(w) \/ AddSelfAuthRecord(w)
  PROVE  JoinInv'
  <1>1. TypeOK /\ AnswersAreOnes /\ IdentityTypeOK
    BY DEF JoinInv, TypeOK
  <1>2. /\ fetch \in [Workers -> {"Idle", "Requesting", "Ready"}] /\ result \in [Workers -> Results]
        /\ worker \in [Workers -> WorkerStates] /\ changed \in [Workers -> BOOLEAN]
        /\ token \in Token \cup {Torn, NoToken} /\ uid \in AnyUid /\ worker[w] \in WorkerStates
        /\ result[w] \in Results /\ fetch = [fetch EXCEPT ![w] = fetch[w]]
        /\ result = [result EXCEPT ![w] = result[w]]
        /\ fetch[w] \in {"Idle", "Requesting", "Ready"}
    BY <1>1 DEF TypeOK, IdentityTypeOK, AnyUid
  <1>3. /\ NoResult \in Results /\ NoResult.owner = Nobody /\ NoResult.filed = Nobody
        /\ Idle \in WorkerStates /\ Idle.pc = "Off"
    BY DEF NoResult, Results, Account0, AnyUid, Idle, WorkerStates, Steps
  <1>4. worker[w].pc # "Off" => fetch[w] = "Requesting"
    BY <1>1 DEF AnswersAreOnes
  <1>5. ASSUME ReadToken(w) PROVE JoinInv'
    <2>1. PICK r : r = [worker[w] EXCEPT !.used = token, !.pc = "Send"]
      OBVIOUS
    <2>2. r \in WorkerStates /\ r.pc = "Send"
      BY <1>2, <2>1 DEF WorkerStates, Steps
    <2>3. /\ worker[w].pc = "ReadToken" /\ worker' = [worker EXCEPT ![w] = r]
          /\ result' = [result EXCEPT ![w] = NoResult] /\ fetch' = [fetch EXCEPT ![w] = fetch[w]]
          /\ changed' = changed
          /\ UNCHANGED <<identityVars, outsideVars, listenerVars, uiVars, requests>>
      BY <1>2, <1>5, <2>1 DEF ReadToken, Elsewhere, outsideVars
    <2>4. QuietStep(w, r, NoResult, fetch[w])
      BY <1>2, <1>3, <1>4, <2>2, <2>3 DEF QuietStep
    <2> QED
      BY <2>4, QuietWorkerKeeps
  <1>6. ASSUME Send(w) PROVE JoinInv'
    <2>1. PICK r : r = [worker[w] EXCEPT !.id = uid, !.pc = "Wait"]
      OBVIOUS
    <2>2. r \in WorkerStates /\ r.pc = "Wait" /\ r.id = uid
      BY <1>2, <2>1 DEF WorkerStates, Steps
    <2>3. /\ worker[w].pc = "Send" /\ worker' = [worker EXCEPT ![w] = r]
          /\ result' = [result EXCEPT ![w] = result[w]] /\ fetch' = [fetch EXCEPT ![w] = fetch[w]]
          /\ changed' = changed
          /\ UNCHANGED <<identityVars, outsideVars, listenerVars, uiVars, requests>>
      BY <1>2, <1>6, <2>1 DEF Send, Elsewhere, outsideVars
    <2>4. ~changed[w] => result[w].owner \in {Nobody, uid} /\ result[w].filed \in {Nobody, result[w].owner}
      BY <1>1 DEF AnswersAreOnes
    <2>5. QuietStep(w, r, result[w], fetch[w])
      BY <1>2, <1>4, <2>2, <2>3, <2>4 DEF QuietStep
    <2> QED
      BY <2>5, QuietWorkerKeeps
  <1>7. ASSUME Answer(w) PROVE JoinInv'
    <2>1. /\ worker[w].pc = "Wait" /\ changed' = changed
          /\ UNCHANGED <<identityVars, outsideVars, listenerVars, uiVars, requests>>
      BY <1>7 DEF Answer, Elsewhere, outsideVars
    <2>2. ~changed[w] => worker[w].id = uid
      BY <1>1, <2>1 DEF AnswersAreOnes
    <2>3. PICK q : /\ q \in Results /\ result' = [result EXCEPT ![w] = q] /\ q.filed = Nobody
                   /\ \/ /\ q.owner = worker[w].id /\ q.owner \in Accounts
                         /\ Finishes(w) \/ (w = "self" /\ Goes(w, "CheckId"))
                      \/ q.owner = Nobody /\ (Goes(w, "Refresh") \/ Finishes(w))
      <3>1. /\ [NoResult EXCEPT !.refused = TRUE] \in Results
            /\ [NoResult EXCEPT !.refused = TRUE].owner = Nobody
            /\ [NoResult EXCEPT !.refused = TRUE].filed = Nobody
        BY DEF NoResult, Results, Account0, AnyUid
      <3>2. AtlasKnows(worker[w].id, worker[w].used) =>
              /\ worker[w].id \in Accounts
              /\ [NoResult EXCEPT !.success = TRUE, !.owner = worker[w].id] \in Results
              /\ [NoResult EXCEPT !.success = TRUE, !.owner = worker[w].id].owner = worker[w].id
              /\ [NoResult EXCEPT !.success = TRUE, !.owner = worker[w].id].filed = Nobody
        BY DEF NoResult, Results, Account0, AnyUid, AtlasKnows
      <3>3. CASE /\ AtlasKnows(worker[w].id, worker[w].used)
                 /\ result' = [result EXCEPT ![w] =
                       [NoResult EXCEPT !.success = TRUE, !.owner = worker[w].id]]
                 /\ Finishes(w) \/ (w = "self" /\ Goes(w, "CheckId"))
        <4>1. Finishes(w) \/ (w = "self" /\ Goes(w, "CheckId"))
          BY <3>3
        <4>2. PICK q : q = [NoResult EXCEPT !.success = TRUE, !.owner = worker[w].id]
          OBVIOUS
        <4>3. /\ q \in Results /\ result' = [result EXCEPT ![w] = q] /\ q.filed = Nobody
              /\ q.owner = worker[w].id /\ q.owner \in Accounts
          BY <3>2, <3>3, <4>2
        <4> QED
          BY <4>1, <4>3, Zenon
      <3>4. CASE result' = [result EXCEPT ![w] = [NoResult EXCEPT !.refused = TRUE]]
                 /\ (Goes(w, "Refresh") \/ Finishes(w))
        BY <3>1, <3>4
      <3>5. CASE result' = [result EXCEPT ![w] = NoResult] /\ Finishes(w)
        BY <1>3, <3>5
      <3> QED
        BY <1>7, <3>3, <3>4, <3>5 DEF Answer
    <2>4. PICK r, f : /\ r \in WorkerStates /\ f \in {"Idle", "Requesting", "Ready"}
                      /\ worker' = [worker EXCEPT ![w] = r] /\ fetch' = [fetch EXCEPT ![w] = f]
                      /\ r.pc # "Off" => f = "Requesting"
                      /\ \/ r.pc \in {"Off", "Refresh"}
                         \/ r.pc = "CheckId" /\ q.owner \in Accounts /\ w = "self"
      <3>1. \A pc \in Steps : Goes(w, pc) =>
              /\ [worker[w] EXCEPT !.pc = pc] \in WorkerStates /\ [worker[w] EXCEPT !.pc = pc].pc = pc
              /\ worker' = [worker EXCEPT ![w] = [worker[w] EXCEPT !.pc = pc]]
              /\ fetch' = [fetch EXCEPT ![w] = fetch[w]] /\ fetch[w] = "Requesting"
        BY <1>2, <1>4, <2>1 DEF Goes, WorkerStates
      <3>2. CASE Goes(w, "CheckId") /\ q.owner \in Accounts /\ w = "self"
        <4>1. /\ [worker[w] EXCEPT !.pc = "CheckId"] \in WorkerStates
              /\ [worker[w] EXCEPT !.pc = "CheckId"].pc = "CheckId"
              /\ worker' = [worker EXCEPT ![w] = [worker[w] EXCEPT !.pc = "CheckId"]]
              /\ fetch' = [fetch EXCEPT ![w] = fetch[w]] /\ fetch[w] = "Requesting"
          BY <3>1, <3>2 DEF Steps
        <4> QED
          BY <3>2, <4>1
      <3>3. CASE Goes(w, "Refresh")
        <4>1. /\ [worker[w] EXCEPT !.pc = "Refresh"] \in WorkerStates
              /\ [worker[w] EXCEPT !.pc = "Refresh"].pc = "Refresh"
              /\ worker' = [worker EXCEPT ![w] = [worker[w] EXCEPT !.pc = "Refresh"]]
              /\ fetch' = [fetch EXCEPT ![w] = fetch[w]] /\ fetch[w] = "Requesting"
          BY <3>1, <3>3 DEF Steps
        <4> QED
          BY <3>3, <4>1
      <3>4. CASE Finishes(w)
        BY <1>3, <3>4 DEF Finishes
      <3> QED
        BY <2>3, <3>2, <3>3, <3>4
    <2>5. QuietStep(w, r, q, f)
      BY <1>2, <2>1, <2>2, <2>3, <2>4 DEF QuietStep
    <2> QED
      BY <2>5, QuietWorkerKeeps
  <1>8. ASSUME CheckId(w) PROVE JoinInv'
    <2>1. /\ worker[w].pc = "CheckId"
          /\ UNCHANGED <<identityVars, outsideVars, listenerVars, uiVars, requests>>
      BY <1>8 DEF CheckId, Elsewhere, outsideVars
    <2>2. /\ result[w].owner \in Accounts /\ result[w].filed = Nobody /\ fetch[w] = "Requesting"
          /\ w = "self"
      BY <1>1, <1>4, <2>1 DEF AnswersAreOnes
    <2>3. CASE result[w].owner = uid
      <3>1. PICK r : r = [worker[w] EXCEPT !.pc = "Record"]
        OBVIOUS
      <3>2. r \in WorkerStates /\ r.pc = "Record"
        BY <1>2, <3>1 DEF WorkerStates, Steps
      <3>3. /\ worker' = [worker EXCEPT ![w] = r] /\ fetch' = [fetch EXCEPT ![w] = fetch[w]]
            /\ result' = [result EXCEPT ![w] = result[w]] /\ changed' = [changed EXCEPT ![w] = FALSE]
            /\ changed' \in [Workers -> BOOLEAN]
        BY <1>2, <1>8, <2>3, <3>1 DEF CheckId, IsOwnAnswer, Goes
      <3>5. QuietStep(w, r, result[w], fetch[w])
        BY <1>2, <2>1, <2>2, <2>3, <3>2, <3>3 DEF QuietStep
      <3> QED
        BY <3>5, QuietWorkerKeeps
    <2>4. CASE result[w].owner # uid
      <3>1. /\ worker' = [worker EXCEPT ![w] = Idle] /\ fetch' = [fetch EXCEPT ![w] = "Ready"]
            /\ result' = [result EXCEPT ![w] = NoResult] /\ changed' = changed
        BY <1>8, <2>4 DEF CheckId, IsOwnAnswer, Finishes
      <3>2. QuietStep(w, Idle, NoResult, "Ready")
        BY <1>2, <1>3, <2>1, <3>1 DEF QuietStep
      <3> QED
        BY <3>2, QuietWorkerKeeps
    <2> QED
      BY <2>3, <2>4
  <1>9. ASSUME AddSelfAuthRecord(w) PROVE JoinInv'
    <2>1. PICK q : q = [result[w] EXCEPT !.filed = uid]
      OBVIOUS
    <2>2. /\ worker[w].pc = "Record" /\ result' = [result EXCEPT ![w] = q]
          /\ worker' = [worker EXCEPT ![w] = Idle] /\ fetch' = [fetch EXCEPT ![w] = "Ready"]
          /\ changed' = changed
          /\ UNCHANGED <<identityVars, outsideVars, listenerVars, uiVars, requests>>
      BY <1>2, <1>9, <2>1 DEF AddSelfAuthRecord, Finishes, Elsewhere, outsideVars
    <2>3. q \in Results /\ q.owner = result[w].owner /\ q.filed = uid
      BY <1>2, <2>1 DEF Results
    <2>4. ~changed[w] => q.owner = uid
      BY <1>1, <2>2, <2>3, IdentityAssumption DEF AnswersAreOnes
    <2>5. QuietStep(w, Idle, q, "Ready")
      BY <1>2, <1>3, <2>2, <2>3, <2>4 DEF QuietStep
    <2> QED
      BY <2>5, QuietWorkerKeeps
  <1> QED
    BY <1>5, <1>6, <1>7, <1>8, <1>9

(* A worker's step that holds the lock, takes it or gives it back, and      *)
(* leaves the account, the answers and what the scripts see alone.          *)
LockingStep(w) ==
    /\ UNCHANGED <<uid, paired, identityState, listenerVars, uiVars, requests, result, changed>>
    /\ worker' \in [Workers -> WorkerStates]
    /\ fetch' \in [Workers -> {"Idle", "Requesting", "Ready"}]
    /\ \A v \in Workers \ {w} : worker'[v] = worker[v] /\ fetch'[v] = fetch[v]
    /\ worker'[w].pc \notin {"Wait", "CheckId", "Record"}
    /\ worker'[w].pc # "Off" => fetch'[w] = "Requesting"

LEMMA LockingKeepsAnswers ==
  ASSUME JoinInv, NEW w \in Workers, LockingStep(w)
  PROVE  AnswersAreOnes' /\ (IdentityTypeOK' => TypeOK')
  <1>1. TypeOK /\ AnswersAreOnes
    BY DEF JoinInv
  <1>2. UNCHANGED <<uid, pending, result, changed>>
    BY DEF LockingStep, uiVars
  <1>3. AnswersAreOnes'
    BY <1>1, <1>2 DEF LockingStep, AnswersAreOnes
  <1>4. IdentityTypeOK' => TypeOK'
    BY <1>1 DEF LockingStep, TypeOK, uiVars
  <1> QED
    BY <1>3, <1>4

(* What the lock's holder knows.                                            *)
LEMMA HolderKnows ==
  ASSUME JoinInv, NEW w \in Workers, WorkerHolds(w)
  PROVE  /\ busy /\ ~ListenerHolds /\ uid # Torn
         /\ \A v \in Workers : WorkerHolds(v) => v = w
  BY DEF JoinInv, LockIsHeld, WritesAreWhole

LEMMA RetryStates ==
  /\ [Idle EXCEPT !.pc = "ReadToken", !.attempt = 1] \in WorkerStates
  /\ [Idle EXCEPT !.pc = "ReadToken", !.attempt = 1].pc = "ReadToken"
  /\ Idle \in WorkerStates /\ Idle.pc = "Off"
  <1>1. Idle \in WorkerStates /\ Idle.pc = "Off"
    BY DEF Idle, WorkerStates, Steps, AnyUid
  <1>2. "ReadToken" \in Steps /\ 1 \in 0..1
    BY DEF Steps
  <1> QED
    BY <1>1, <1>2 DEF Idle, WorkerStates, Steps, AnyUid

LEMMA RefreshLocksKeeps ==
  ASSUME JoinInv, NEW w \in Workers, RefreshLocks(w)
  PROVE  JoinInv'
  <1>1. TypeOK /\ LockIsHeld /\ WritesAreWhole /\ AnswersAreOnes /\ IdentityTypeOK
    BY DEF JoinInv, TypeOK
  <1>2. /\ worker \in [Workers -> WorkerStates] /\ worker[w] \in WorkerStates
        /\ fetch \in [Workers -> {"Idle", "Requesting", "Ready"}]
    BY <1>1 DEF TypeOK
  <1>3. PICK r : r = [worker[w] EXCEPT !.pc = "Compare"]
    OBVIOUS
  <1>4. r \in WorkerStates /\ r.pc = "Compare"
    BY <1>2, <1>3 DEF WorkerStates, Steps
  <1>5. /\ worker[w].pc = "Refresh" /\ ~busy /\ busy' /\ busy' \in BOOLEAN
        /\ worker' = [worker EXCEPT ![w] = r] /\ fetch' = fetch
        /\ UNCHANGED <<uid, token, paired, identityState, file, atlas, minted, result, changed>>
        /\ UNCHANGED <<listenerVars, uiVars, requests>>
    BY <1>2, <1>3 DEF RefreshLocks, Goes, Elsewhere
  <1>6. LockingStep(w)
    BY <1>1, <1>2, <1>4, <1>5 DEF LockingStep, AnswersAreOnes
  <1>7. IdentityTypeOK'
    BY <1>1, <1>5 DEF IdentityTypeOK, listenerVars
  <1>8. LockIsHeld'
    BY <1>1, <1>2, <1>4, <1>5 DEF LockIsHeld, WorkerHolds, ListenerHolds, listenerVars
  <1>9. WritesAreWhole'
    BY <1>1, <1>2, <1>4, <1>5 DEF WritesAreWhole, ListenerHolds, listenerVars
  <1> QED
    BY <1>6, <1>7, <1>8, <1>9, LockingKeepsAnswers DEF JoinInv

LEMMA RefreshStoresKeeps ==
  ASSUME JoinInv, NEW w \in Workers, RefreshStores(w)
  PROVE  JoinInv'
  <1>1. TypeOK /\ LockIsHeld /\ WritesAreWhole /\ AnswersAreOnes /\ IdentityTypeOK
    BY DEF JoinInv, TypeOK
  <1>2. /\ worker \in [Workers -> WorkerStates] /\ worker[w] \in WorkerStates
        /\ fetch \in [Workers -> {"Idle", "Requesting", "Ready"}]
    BY <1>1 DEF TypeOK
  <1>3. PICK r : r = [worker[w] EXCEPT !.pc = "Save"]
    OBVIOUS
  <1>4. r \in WorkerStates /\ r.pc = "Save" /\ r.reply = worker[w].reply
    BY <1>2, <1>3 DEF WorkerStates, Steps
  <1>5. /\ worker[w].pc = "Store" /\ token' = worker[w].reply
        /\ worker' = [worker EXCEPT ![w] = r] /\ fetch' = fetch
        /\ UNCHANGED <<uid, paired, identityState, file, busy, atlas, minted, result, changed>>
        /\ UNCHANGED <<listenerVars, uiVars, requests>>
    BY <1>2, <1>3 DEF RefreshStores, Goes, Elsewhere
  <1>6. /\ busy /\ ~ListenerHolds /\ uid # Torn /\ uid \in Accounts
        /\ \A v \in Workers : WorkerHolds(v) => v = w
        /\ worker[w].reply \in Token /\ worker[w].reply.owner = uid /\ worker[w].reply # Torn
    BY <1>1, <1>5, HolderKnows, IdentityAssumption DEF WorkerHolds, WritesAreWhole
  <1>7. LockingStep(w)
    BY <1>1, <1>2, <1>4, <1>5 DEF LockingStep, AnswersAreOnes
  <1>8. IdentityTypeOK'
    BY <1>1, <1>5, <1>6 DEF IdentityTypeOK, listenerVars
  <1>9. LockIsHeld'
    BY <1>1, <1>2, <1>4, <1>5, <1>6 DEF LockIsHeld, WorkerHolds, ListenerHolds, listenerVars
  <1>10. WritesAreWhole'
    BY <1>1, <1>2, <1>4, <1>5, <1>6 DEF WritesAreWhole, WorkerHolds, ListenerHolds, listenerVars, WholeIn
  <1> QED
    BY <1>7, <1>8, <1>9, <1>10, LockingKeepsAnswers DEF JoinInv

LEMMA RefreshSavesKeeps ==
  ASSUME JoinInv, NEW w \in Workers, RefreshSaves(w)
  PROVE  JoinInv'
  <1>1. TypeOK /\ LockIsHeld /\ WritesAreWhole /\ AnswersAreOnes /\ IdentityTypeOK
    BY DEF JoinInv, TypeOK
  <1>2. /\ worker \in [Workers -> WorkerStates] /\ worker[w] \in WorkerStates
        /\ fetch \in [Workers -> {"Idle", "Requesting", "Ready"}]
        /\ paired \in Helpers \cup {NoHelper}
    BY <1>1 DEF TypeOK, IdentityTypeOK
  <1>3. PICK r : r = [Idle EXCEPT !.pc = "ReadToken", !.attempt = 1]
    OBVIOUS
  <1>4. r \in WorkerStates /\ r.pc = "ReadToken"
    BY <1>3, RetryStates
  <1>5. PICK f : f = [uid |-> uid, token |-> worker[w].reply, paired |-> paired]
    OBVIOUS
  <1>6. /\ worker[w].pc = "Save" /\ file' \in {file, f}
        /\ worker' = [worker EXCEPT ![w] = r] /\ fetch' = fetch /\ ~busy' /\ busy' \in BOOLEAN
        /\ UNCHANGED <<uid, token, paired, identityState, atlas, minted, result, changed>>
        /\ UNCHANGED <<listenerVars, uiVars, requests>>
    BY <1>2, <1>3, <1>5 DEF RefreshSaves, Saved, Retry, Elsewhere
  <1>7. /\ busy /\ ~ListenerHolds /\ uid # Torn /\ uid \in Accounts
        /\ \A v \in Workers : WorkerHolds(v) => v = w
        /\ worker[w].reply \in Token /\ worker[w].reply.owner = uid /\ worker[w].reply # Torn
    BY <1>1, <1>6, HolderKnows, IdentityAssumption DEF WorkerHolds, WritesAreWhole
  <1>8. f \in Identity /\ WholeIn(f.uid, f.token)
    BY <1>2, <1>5, <1>7 DEF Identity, WholeIn
  <1>9. LockingStep(w)
    BY <1>1, <1>2, <1>4, <1>6 DEF LockingStep, AnswersAreOnes
  <1>10. IdentityTypeOK'
    BY <1>1, <1>6, <1>8 DEF IdentityTypeOK, listenerVars
  <1>11. LockIsHeld'
    BY <1>1, <1>2, <1>4, <1>6, <1>7 DEF LockIsHeld, WorkerHolds, ListenerHolds, listenerVars
  <1>12. \A v \in Workers : worker[v].pc # "Store" /\ worker'[v].pc \notin {"Store", "Save"}
    BY <1>2, <1>4, <1>6, <1>7 DEF WorkerHolds
  <1>13. WritesAreWhole'
    BY <1>1, <1>6, <1>7, <1>8, <1>12 DEF WritesAreWhole, ListenerHolds, listenerVars
  <1> QED
    BY <1>9, <1>10, <1>11, <1>13, LockingKeepsAnswers DEF JoinInv

LEMMA RefreshTokenKeeps ==
  ASSUME JoinInv, NEW w \in Workers, RefreshAtlasToken(w)
  PROVE  JoinInv'
  <1>1. TypeOK /\ LockIsHeld /\ WritesAreWhole /\ AnswersAreOnes /\ IdentityTypeOK
    BY DEF JoinInv, TypeOK
  <1>2. /\ worker \in [Workers -> WorkerStates] /\ worker[w] \in WorkerStates
        /\ fetch \in [Workers -> {"Idle", "Requesting", "Ready"}]
    BY <1>1 DEF TypeOK
  <1>3. /\ worker[w].pc = "Compare"
        /\ UNCHANGED <<uid, paired, identityState, file, result, changed>>
        /\ UNCHANGED <<listenerVars, uiVars, requests>>
    BY DEF RefreshAtlasToken, Elsewhere
  <1>4. /\ busy /\ ~ListenerHolds /\ uid # Torn
        /\ \A v \in Workers : WorkerHolds(v) => v = w
    BY <1>3, HolderKnows DEF WorkerHolds
  <1>5. fetch[w] = "Requesting"
    BY <1>1, <1>3 DEF AnswersAreOnes
  <1>6. \A v \in Workers : worker[v].pc = "Store" => v = w
    BY <1>4 DEF WorkerHolds
  <1>7. WholeIn(uid, token)
    BY <1>1, <1>3, <1>4, <1>6 DEF WritesAreWhole
  <1>8. CASE /\ ~busy' /\ busy' \in BOOLEAN /\ token' = token /\ (Retry(w) \/ Finishes(w))
             /\ atlas' \in [Accounts -> Token \cup {NoToken}] /\ minted' \in 0..MaxTokens
    <2>1. /\ worker' \in [Workers -> WorkerStates] /\ worker'[w].pc \in {"ReadToken", "Off"}
          /\ \A v \in Workers \ {w} : worker'[v] = worker[v] /\ fetch'[v] = fetch[v]
          /\ fetch' \in [Workers -> {"Idle", "Requesting", "Ready"}]
          /\ worker'[w].pc # "Off" => fetch'[w] = "Requesting"
      <3>1. CASE Retry(w)
        BY <1>2, <1>5, <3>1, RetryStates DEF Retry
      <3>2. CASE Finishes(w)
        BY <1>2, <3>2, RetryStates DEF Finishes
      <3> QED
        BY <1>8, <3>1, <3>2
    <2>2. LockingStep(w)
      BY <1>3, <2>1 DEF LockingStep
    <2>3. IdentityTypeOK'
      BY <1>1, <1>3, <1>8 DEF IdentityTypeOK, listenerVars
    <2>4. \A v \in Workers : worker'[v].pc \notin {"Compare", "Store", "Save"}
      BY <1>4, <2>1 DEF WorkerHolds
    <2>5. LockIsHeld'
      BY <1>3, <1>4, <2>4 DEF LockIsHeld, WorkerHolds, ListenerHolds, listenerVars
    <2>6. WritesAreWhole'
      BY <1>1, <1>3, <1>4, <1>7, <1>8, <2>4 DEF WritesAreWhole, ListenerHolds, listenerVars
    <2> QED
      BY <2>2, <2>3, <2>5, <2>6, LockingKeepsAnswers DEF JoinInv
  <1>9. CASE \E reply \in [uid: Accounts, token: Token], a \in Accounts :
                /\ worker[w].used = token /\ (HelperMints(a, reply) \/ HelperRepeats(a, token, reply))
                /\ AcceptRefreshedToken(reply, worker[w].used)
                /\ token' = Torn /\ busy' = busy /\ fetch' = fetch
                /\ worker' = [worker EXCEPT ![w].reply = reply.token, ![w].pc = "Store"]
    <2>1. PICK reply \in [uid: Accounts, token: Token], a \in Accounts :
                /\ worker[w].used = token /\ (HelperMints(a, reply) \/ HelperRepeats(a, token, reply))
                /\ AcceptRefreshedToken(reply, worker[w].used)
                /\ token' = Torn /\ busy' = busy /\ fetch' = fetch
                /\ worker' = [worker EXCEPT ![w].reply = reply.token, ![w].pc = "Store"]
      BY <1>9
    <2>2. HelperMints(a, reply)
      BY <2>1 DEF HelperRepeats, AcceptRefreshedToken
    <2>3. /\ atlas' \in [Accounts -> Token \cup {NoToken}] /\ minted' \in 0..MaxTokens
          /\ reply.token \in Token /\ reply.token.owner = a /\ reply.uid = a
      BY <1>1, <2>2, MintedTypes DEF HelperMints
    <2>4. uid = a
      BY <2>1, <2>3 DEF AcceptRefreshedToken
    <2>5. PICK r : r = [worker[w] EXCEPT !.reply = reply.token, !.pc = "Store"]
      OBVIOUS
    <2>6. r \in WorkerStates /\ r.pc = "Store" /\ r.reply = reply.token
      BY <1>2, <2>3, <2>5 DEF WorkerStates, Steps
    <2>7. worker' = [worker EXCEPT ![w] = r]
      BY <1>2, <2>1, <2>5
    <2>8. LockingStep(w)
      <3>1. /\ worker' \in [Workers -> WorkerStates] /\ worker'[w].pc = "Store"
            /\ \A v \in Workers \ {w} : worker'[v] = worker[v]
        BY <1>2, <2>6, <2>7
      <3>2. fetch' = fetch
        BY <2>1
      <3> QED
        BY <1>2, <1>3, <1>5, <3>1, <3>2 DEF LockingStep
    <2>9. IdentityTypeOK'
      BY <1>1, <1>3, <2>1, <2>3 DEF IdentityTypeOK, listenerVars
    <2>10. LockIsHeld'
      BY <1>1, <1>2, <1>3, <1>4, <2>1, <2>6, <2>7
      DEF LockIsHeld, WorkerHolds, ListenerHolds, listenerVars
    <2>11. WritesAreWhole'
      <3>1. worker'[w].pc = "Store" /\ worker'[w].reply \in Token /\ worker'[w].reply.owner = uid
        BY <1>2, <2>3, <2>4, <2>6, <2>7
      <3>2. \A v \in Workers : worker'[v].pc \in {"Store", "Save"} => v = w
        BY <1>2, <1>4, <2>7 DEF WorkerHolds
      <3> QED
        BY <1>1, <1>3, <1>4, <2>4, <3>1, <3>2 DEF WritesAreWhole, ListenerHolds, listenerVars
    <2> QED
      BY <2>8, <2>9, <2>10, <2>11, LockingKeepsAnswers DEF JoinInv
  <1>10. \/ /\ ~busy' /\ busy' \in BOOLEAN /\ token' = token /\ (Retry(w) \/ Finishes(w))
            /\ atlas' \in [Accounts -> Token \cup {NoToken}] /\ minted' \in 0..MaxTokens
         \/ \E reply \in [uid: Accounts, token: Token], a \in Accounts :
                /\ worker[w].used = token /\ (HelperMints(a, reply) \/ HelperRepeats(a, token, reply))
                /\ AcceptRefreshedToken(reply, worker[w].used)
                /\ token' = Torn /\ busy' = busy /\ fetch' = fetch
                /\ worker' = [worker EXCEPT ![w].reply = reply.token, ![w].pc = "Store"]
    <2>1. atlas \in [Accounts -> Token \cup {NoToken}] /\ minted \in 0..MaxTokens
      BY <1>1 DEF IdentityTypeOK
    <2>2. CASE busy' = FALSE /\ Retry(w) /\ UNCHANGED <<token, atlas, minted>>
      BY <2>1, <2>2
    <2>3. CASE busy' = FALSE /\ Finishes(w) /\ UNCHANGED <<token, atlas, minted>>
      BY <2>1, <2>3
    <2>4. ASSUME worker[w].used = token, NEW reply \in [uid: Accounts, token: Token], NEW a \in Accounts,
                 HelperMints(a, reply) \/ HelperRepeats(a, token, reply),
                 ~AcceptRefreshedToken(reply, worker[w].used),
                 busy' = FALSE, UNCHANGED token, Finishes(w)
          PROVE  /\ ~busy' /\ busy' \in BOOLEAN /\ token' = token /\ (Retry(w) \/ Finishes(w))
                 /\ atlas' \in [Accounts -> Token \cup {NoToken}] /\ minted' \in 0..MaxTokens
      BY <1>1, <2>1, <2>4, MintedTypes DEF HelperMints, HelperRepeats, outsideVars
    <2> QED
      BY <2>2, <2>3, <2>4 DEF RefreshAtlasToken
  <1> QED
    BY <1>8, <1>9, <1>10

LEMMA JoinStepInv == JoinInv /\ [Next]_vars => JoinInv'
  <1> SUFFICES ASSUME JoinInv, [Next]_vars PROVE JoinInv'
    OBVIOUS
  <1>1. CASE UNCHANGED vars
    <2>1. /\ UNCHANGED <<identityVars, outsideVars, listenerVars, uiVars, workVars, requests>>
      BY <1>1 DEF vars, joinVars
    <2> QED
      BY <2>1 DEF JoinInv, TypeOK, IdentityTypeOK, LockIsHeld, WritesAreWhole, AnswersAreOnes,
         WorkerHolds, ListenerHolds, identityVars, outsideVars, listenerVars, uiVars, workVars
  <1>2. ASSUME NEW w \in Workers, WorkerStep(w) PROVE JoinInv'
    BY <1>2, QuietStepsKeep, RefreshLocksKeeps, RefreshTokenKeeps, RefreshStoresKeeps,
       RefreshSavesKeeps DEF WorkerStep
  <1> QED
    BY <1>1, <1>2, UiStepsKeep, TryAuthKeeps, ListenerKeeps, OutsideKeeps DEF Next

-----------------------------------------------------------------------------
(* What follows.                                                            *)

LEMMA JoinSound == JoinInv => IdentityWhole /\ RecordsOwnSave
  <1> SUFFICES ASSUME JoinInv PROVE IdentityWhole /\ RecordsOwnSave
    OBVIOUS
  <1>1. TypeOK /\ LockIsHeld /\ WritesAreWhole /\ AnswersAreOnes
    BY DEF JoinInv
  <1>2. IdentityWhole
    <2>1. ~busy => ~ListenerHolds /\ \A w \in Workers : worker[w].pc # "Store"
      BY <1>1 DEF LockIsHeld, WorkerHolds
    <2> QED
      BY <1>1, <2>1 DEF WritesAreWhole, IdentityWhole
  <1>3. RecordsOwnSave
    BY <1>1 DEF Workers, AnswersAreOnes, RecordsOwnSave
  <1> QED
    BY <1>2, <1>3

LEMMA StepConnects ==
  JoinInv /\ [Next]_vars => [CompleteAuth => platformUid' = serverFilter' \/ changed["join"]]_vars
  <1> SUFFICES ASSUME JoinInv, CompleteAuth, ~changed["join"] PROVE platformUid' = serverFilter'
    OBVIOUS
  <1>1. TypeOK /\ AnswersAreOnes /\ "join" \in Workers /\ {"join"} \in SUBSET Workers
    BY DEF JoinInv, Workers
  <1>2. /\ PendingAfter({"join"}) # Nobody /\ serverFilter' = PendingAfter({"join"})
        /\ platformUid' = uid
    BY DEF CompleteAuth, EnsureConnectUid
  <1>3. PendingAfter({"join"}) = pending \/ PendingAfter({"join"}) = result["join"].owner
    BY <1>1, Publishing
  <1>4. pending \in {Nobody, uid} /\ result["join"].owner \in {Nobody, uid}
    BY <1>1 DEF AnswersAreOnes
  <1> QED
    BY <1>2, <1>3, <1>4

-----------------------------------------------------------------------------
(* The scripts' calls (ScriptCalls).                                        *)

\* A VM has an address of its own and a life of its own, and the runtime owns
\* and has bound every VM whose scripts run; a binding without its VM is left
\* only where the metadata was rejected.
VmsAreKnown ==
    /\ \A c, d \in Contexts : vm[c].at = vm[d].at /\ vm[c].at # NoVm => c = d
    /\ \A c \in Contexts :
          /\ vm[c].life <= lives
          /\ vm[c].ready => lifecycle[c].owner = vm[c].at /\ binding[c] = vm[c].at
          /\ lifecycle[c].owner # NoVm => vm[c].at = lifecycle[c].owner
          /\ binding[c] # NoVm => lifecycle[c].owner = binding[c] \/ (c = "SERVER" /\ refused)
          /\ c # "SERVER" => lifecycle[c].owner = vm[c].at

\* What is under way for a VM that lives carries its context's generation, and
\* what is queued or loaded is a living VM's.
ResultsAreOfTheirVm ==
    /\ \A m \in http : /\ m.life <= lives /\ m.generation <= generation[m.context]
                       /\ vm[m.context].life = m.life <=> m.generation = generation[m.context]
                       /\ vm[m.context].life = m.life => vm[m.context].ready /\ vm[m.context].at = m.at
    /\ \A m \in loads : vm[m.context].life = m.life /\ vm[m.context].at = m.at /\ vm[m.context].ready
    /\ \A c \in Contexts : \A m \in Elements(queue[c]) :
          m.context = c /\ vm[c].life = m.life /\ vm[c].at = m.at /\ vm[c].ready

\* The SERVER's mods ran at most once for its VM.
ModsRanOnce ==
    "SERVER" \in Contexts =>
        /\ modInits["SERVER"] <= 1
        /\ vm["SERVER"].ready /\ ~lifecycle["SERVER"].started => modInits["SERVER"] = 0

CallsInv == ScriptCallsTypeOK /\ VmsAreKnown /\ ResultsAreOfTheirVm /\ ModsRanOnce

-----------------------------------------------------------------------------
(* What the parts of the invariant say of one VM and of one result.          *)

LEMMA VmTypes ==
  ASSUME ScriptCallsTypeOK, NEW c \in Contexts
  PROVE  /\ vm[c].at \in Addresses \cup {NoVm} /\ vm[c].life \in 0..MaxLives /\ vm[c].ready \in BOOLEAN
         /\ vm[c] = NoLife => vm[c].at = NoVm /\ vm[c].life = 0 /\ ~vm[c].ready
         /\ vm[c] # NoLife => vm[c].at \in Addresses /\ vm[c].at # NoVm /\ vm[c].life \in 1..MaxLives
         /\ lifecycle[c].owner \in Addresses \cup {NoVm}
         /\ binding[c] \in Addresses \cup {NoVm} /\ generation[c] \in Nat
  <1>1. vm[c] \in Life \/ vm[c] = NoLife
    BY DEF ScriptCallsTypeOK
  <1>2. lifecycle[c] \in [owner: Addresses \cup {NoVm}, started: BOOLEAN]
    BY DEF ScriptCallsTypeOK
  <1>3. CASE vm[c] = NoLife
    BY <1>2, <1>3, ScriptAssumption DEF NoLife, ScriptCallsTypeOK, Life
  <1>4. CASE vm[c] # NoLife
    <2>1. vm[c].at \in Addresses /\ vm[c].life \in 1..MaxLives /\ vm[c].ready \in BOOLEAN
      BY <1>1, <1>4 DEF Life
    <2>2. vm[c].life \in 0..MaxLives /\ vm[c].at # NoVm
      BY <2>1, ScriptAssumption
    <2> QED
      BY <1>2, <1>4, <2>1, <2>2 DEF ScriptCallsTypeOK
  <1> QED
    BY <1>3, <1>4

LEMMA ResultTypes ==
  ASSUME NEW m \in Result
  PROVE  /\ m.context \in Contexts /\ m.life \in Nat /\ m.life >= 1 /\ m.generation \in Nat
         /\ m.at \in Addresses /\ m.at # NoVm
  BY ScriptAssumption DEF Result

LEMMA QueueTypes ==
  ASSUME ScriptCallsTypeOK, NEW c \in Contexts
  PROVE  queue[c] \in Seq(Result) /\ Elements(queue[c]) \subseteq Result
  <1>1. queue[c] \in Seq(Result)
    BY DEF ScriptCallsTypeOK
  <1> QED
    BY <1>1, ElementOfSeq DEF Elements

LEMMA EmptyQueue == <<>> \in Seq(Result) /\ Elements(<<>>) = {}
  BY DEF Elements

LEMMA CallsInitInv == ScriptCallsInit => CallsInv
  <1> SUFFICES ASSUME ScriptCallsInit PROVE CallsInv
    OBVIOUS
  <1>1. NoLife.at = NoVm /\ NoLife.life = 0 /\ ~NoLife.ready /\ NoOwner.owner = NoVm
        /\ NoOwner \in [owner: Addresses \cup {NoVm}, started: BOOLEAN]
    BY DEF NoLife, NoOwner
  <1>2. /\ vm = [c \in Contexts |-> NoLife] /\ lives = 0 /\ hook = "untried"
        /\ binding = [c \in Contexts |-> NoVm] /\ lifecycle = [c \in Contexts |-> NoOwner]
        /\ modInits = [c \in Contexts |-> 0]
        /\ generation = [c \in Contexts |-> 0] /\ queue = [c \in Contexts |-> <<>>]
        /\ http = {} /\ loads = {} /\ handles = 0 /\ refused = FALSE
    BY DEF ScriptCallsInit
  <1>3. ScriptCallsTypeOK
    <2>1. lives \in 0..MaxLives /\ handles \in 0..MaxHandles
      BY <1>2, ScriptAssumption
    <2>2. queue \in [Contexts -> Seq(Result)]
      BY <1>2, EmptyQueue
    <2> QED
      BY <1>1, <1>2, <2>1, <2>2 DEF ScriptCallsTypeOK
  <1>4. VmsAreKnown
    BY <1>1, <1>2 DEF VmsAreKnown
  <1>5. ResultsAreOfTheirVm
    BY <1>2, EmptyQueue DEF ResultsAreOfTheirVm
  <1>6. ModsRanOnce
    BY <1>1, <1>2 DEF ModsRanOnce
  <1> QED
    BY <1>3, <1>4, <1>5, <1>6 DEF CallsInv

-----------------------------------------------------------------------------
(* Making and releasing VMs.                                                 *)

(* A new VM: the facts its three makers share.                               *)
LEMMA MadeVm ==
  ASSUME CallsInv, NEW c \in Contexts, NEW a \in Addresses, NEW ready \in BOOLEAN,
         Made(c, a, ready)
  PROVE  /\ vm[c].life = 0 /\ ~vm[c].ready /\ vm[c].at = NoVm
         /\ vm' \in [Contexts -> Life \cup {NoLife}]
         /\ vm'[c].at = a /\ vm'[c].life = lives + 1 /\ vm'[c].ready = ready
         /\ \A d \in Contexts \ {c} : vm'[d] = vm[d] /\ vm[d].at # a
         /\ lives' = lives + 1 /\ lives' \in 0..MaxLives /\ lives \in Nat /\ a # NoVm
         /\ modInits' = [modInits EXCEPT ![c] = 0] /\ modInits' \in [Contexts -> Nat]
  <1>1. ScriptCallsTypeOK
    BY DEF CallsInv
  <1>2. PICK r : r = [at |-> a, life |-> lives + 1, ready |-> ready]
    OBVIOUS
  <1>3. /\ lives < MaxLives /\ lives' = lives + 1 /\ vm[c] = NoLife /\ a \notin Occupied
        /\ vm' = [vm EXCEPT ![c] = r] /\ modInits' = [modInits EXCEPT ![c] = 0]
    BY <1>2 DEF Made
  <1>4. lives \in Nat /\ lives' \in 0..MaxLives /\ lives + 1 \in 1..MaxLives
    BY <1>1, <1>3, ScriptAssumption DEF ScriptCallsTypeOK
  <1>5. r \in Life /\ r.at = a /\ r.life = lives + 1 /\ r.ready = ready
    BY <1>2, <1>4 DEF Life
  <1>6. vm[c].life = 0 /\ ~vm[c].ready /\ vm[c].at = NoVm
    BY <1>1, <1>3, VmTypes
  <1>7. vm \in [Contexts -> Life \cup {NoLife}] /\ modInits \in [Contexts -> Nat]
    BY <1>1 DEF ScriptCallsTypeOK
  <1>8. \A d \in Contexts : vm[d].at # a
    BY <1>3, ScriptAssumption DEF Occupied
  <1> QED
    BY <1>3, <1>4, <1>5, <1>6, <1>7, <1>8, ScriptAssumption

(* ResetAsyncCalls leaves the other contexts alone, and outdates what is     *)
(* under way.                                                                *)
LEMMA ResetCalls ==
  ASSUME ScriptCallsTypeOK, NEW c \in Contexts, ResetAsyncCalls(c)
  PROVE  /\ queue' \in [Contexts -> Seq(Result)] /\ generation' \in [Contexts -> Nat]
         /\ Elements(queue'[c]) = {} /\ generation'[c] = generation[c] + 1 /\ generation[c] \in Nat
         /\ \A d \in Contexts \ {c} : queue'[d] = queue[d] /\ generation'[d] = generation[d]
  <1>1. generation \in [Contexts -> Nat] /\ queue \in [Contexts -> Seq(Result)]
    BY DEF ScriptCallsTypeOK
  <1>2. queue' = [queue EXCEPT ![c] = <<>>] /\ generation' = [generation EXCEPT ![c] = @ + 1]
    BY DEF ResetAsyncCalls
  <1> QED
    BY <1>1, <1>2, EmptyQueue

(* What is under way and what arrived, after a context was reset because its *)
(* VM is new or gone.                                                        *)
LEMMA ResetKeepsResults ==
  ASSUME CallsInv, NEW c \in Contexts, ResetAsyncCalls(c), http' = http,
         loads' \subseteq loads, \A m \in loads' : m.context # c,
         lives' \in Nat, lives' >= lives, vm'[c].life = 0 \/ vm'[c].life > lives,
         \A d \in Contexts \ {c} : vm'[d] = vm[d]
  PROVE  ResultsAreOfTheirVm'
  <1>1. ScriptCallsTypeOK /\ ResultsAreOfTheirVm /\ lives \in Nat
    BY DEF CallsInv, ScriptCallsTypeOK
  <1>2. /\ Elements(queue'[c]) = {} /\ generation'[c] = generation[c] + 1 /\ generation[c] \in Nat
        /\ \A d \in Contexts \ {c} : queue'[d] = queue[d] /\ generation'[d] = generation[d]
    BY <1>1, ResetCalls
  <1>3. http \subseteq Result /\ loads \subseteq Result
    BY <1>1 DEF ScriptCallsTypeOK
  <1>4. ASSUME NEW m \in http'
        PROVE  /\ m.life <= lives' /\ m.generation <= generation'[m.context]
               /\ vm'[m.context].life = m.life <=> m.generation = generation'[m.context]
               /\ vm'[m.context].life = m.life => vm'[m.context].ready /\ vm'[m.context].at = m.at
    <2>1. m \in http /\ m.context \in Contexts /\ m.life \in Nat /\ m.life >= 1 /\ m.generation \in Nat
      BY <1>3, <1>4, ResultTypes
    <2>2. /\ m.life <= lives /\ m.generation <= generation[m.context]
          /\ vm[m.context].life = m.life <=> m.generation = generation[m.context]
          /\ vm[m.context].life = m.life => vm[m.context].ready /\ vm[m.context].at = m.at
      BY <1>1, <2>1 DEF ResultsAreOfTheirVm
    <2>3. CASE m.context = c
      BY <1>1, <1>2, <2>1, <2>2, <2>3
    <2>4. CASE m.context # c
      BY <1>1, <1>2, <2>1, <2>2, <2>4
    <2> QED
      BY <2>3, <2>4
  <1>5. \A m \in loads' : vm'[m.context].life = m.life /\ vm'[m.context].at = m.at /\ vm'[m.context].ready
    BY <1>1, <1>3, ResultTypes DEF ResultsAreOfTheirVm
  <1>6. \A d \in Contexts : \A m \in Elements(queue'[d]) :
          m.context = d /\ vm'[d].life = m.life /\ vm'[d].at = m.at /\ vm'[d].ready
    BY <1>1, <1>2 DEF ResultsAreOfTheirVm
  <1> QED
    BY <1>4, <1>5, <1>6 DEF ResultsAreOfTheirVm

LEMMA VmInitKeeps ==
  ASSUME CallsInv, NEW c \in Contexts, NEW a \in Addresses, NEW ok \in BOOLEAN, RuntimeVmInit(c, a, ok)
  PROVE  CallsInv'
  <1>1. ScriptCallsTypeOK /\ VmsAreKnown /\ ResultsAreOfTheirVm /\ ModsRanOnce
    BY DEF CallsInv
  <1>2. /\ c # "SERVER" /\ Made(c, a, ok) /\ ResetAsyncCalls(c)
        /\ binding' = [binding EXCEPT ![c] = a]
        /\ lifecycle' = [lifecycle EXCEPT ![c] = [owner |-> a, started |-> FALSE]]
        /\ UNCHANGED <<hook, refused, http, loads, handles>>
    BY DEF RuntimeVmInit
  <1>3. /\ vm[c].life = 0 /\ ~vm[c].ready /\ vm[c].at = NoVm
        /\ vm' \in [Contexts -> Life \cup {NoLife}]
        /\ vm'[c].at = a /\ vm'[c].life = lives + 1 /\ vm'[c].ready = ok
        /\ \A d \in Contexts \ {c} : vm'[d] = vm[d] /\ vm[d].at # a
        /\ lives' = lives + 1 /\ lives' \in 0..MaxLives /\ lives \in Nat /\ a # NoVm
        /\ modInits' = [modInits EXCEPT ![c] = 0] /\ modInits' \in [Contexts -> Nat]
    BY <1>2, MadeVm
  <1>4. /\ binding \in [Contexts -> Addresses \cup {NoVm}]
        /\ lifecycle \in [Contexts -> [owner: Addresses \cup {NoVm}, started: BOOLEAN]]
        /\ loads \subseteq Result /\ lives' \in Nat /\ lives' >= lives
    BY <1>1, <1>3 DEF ScriptCallsTypeOK
  <1>5. PICK o : o = [owner |-> a, started |-> FALSE]
    OBVIOUS
  <1>6. /\ o.owner = a /\ o \in [owner: Addresses \cup {NoVm}, started: BOOLEAN]
        /\ lifecycle' = [lifecycle EXCEPT ![c] = o]
    BY <1>2, <1>5
  <1>7. /\ binding'[c] = a /\ lifecycle'[c] = o
        /\ \A d \in Contexts \ {c} : binding'[d] = binding[d] /\ lifecycle'[d] = lifecycle[d]
        /\ binding' \in [Contexts -> Addresses \cup {NoVm}]
        /\ lifecycle' \in [Contexts -> [owner: Addresses \cup {NoVm}, started: BOOLEAN]]
    BY <1>2, <1>4, <1>6
  <1>8. ScriptCallsTypeOK'
    BY <1>1, <1>2, <1>3, <1>7, ResetCalls DEF ScriptCallsTypeOK
  <1>9. VmsAreKnown'
    <2>1. \A d \in Contexts : vm'[d].life <= lives'
      BY <1>1, <1>3, VmTypes DEF VmsAreKnown
    <2> QED
      BY <1>1, <1>2, <1>3, <1>6, <1>7, <2>1 DEF VmsAreKnown
  <1>10. ResultsAreOfTheirVm'
    <2>1. \A m \in loads' : m.context # c
      BY <1>1, <1>2, <1>3 DEF ResultsAreOfTheirVm
    <2> QED
      BY <1>2, <1>3, <1>4, <2>1, ResetKeepsResults
  <1>11. ModsRanOnce'
    <2>1. "SERVER" \in Contexts =>
             /\ vm'["SERVER"] = vm["SERVER"] /\ lifecycle'["SERVER"] = lifecycle["SERVER"]
             /\ modInits'["SERVER"] = modInits["SERVER"]
      BY <1>1, <1>2, <1>3, <1>7 DEF ScriptCallsTypeOK
    <2> QED
      BY <1>1, <2>1 DEF ModsRanOnce
  <1> QED
    BY <1>8, <1>9, <1>10, <1>11 DEF CallsInv

LEMMA UnhookedVmKeeps ==
  ASSUME CallsInv, "SERVER" \in Contexts, NEW a \in Addresses, UnhookedServerVm(a)
  PROVE  CallsInv'
  <1>1. ScriptCallsTypeOK /\ VmsAreKnown /\ ResultsAreOfTheirVm /\ ModsRanOnce
    BY DEF CallsInv
  <1>2. /\ Made("SERVER", a, FALSE) /\ UNCHANGED <<hook, binding, lifecycle, refused>>
        /\ UNCHANGED <<generation, queue, http, loads, handles>>
    BY DEF UnhookedServerVm, callVars
  <1>3. /\ vm["SERVER"].life = 0 /\ ~vm["SERVER"].ready /\ vm["SERVER"].at = NoVm
        /\ vm' \in [Contexts -> Life \cup {NoLife}]
        /\ vm'["SERVER"].at = a /\ vm'["SERVER"].life = lives + 1 /\ vm'["SERVER"].ready = FALSE
        /\ \A d \in Contexts \ {"SERVER"} : vm'[d] = vm[d] /\ vm[d].at # a
        /\ lives' = lives + 1 /\ lives' \in 0..MaxLives /\ lives \in Nat /\ a # NoVm
        /\ modInits' = [modInits EXCEPT !["SERVER"] = 0] /\ modInits' \in [Contexts -> Nat]
    BY <1>2, MadeVm
  <1>4. ScriptCallsTypeOK'
    BY <1>1, <1>2, <1>3 DEF ScriptCallsTypeOK
  <1>5. VmsAreKnown'
    <2>1. \A d \in Contexts : vm'[d].life <= lives'
      BY <1>1, <1>3, VmTypes DEF VmsAreKnown
    <2>2. lifecycle["SERVER"].owner = NoVm
      BY <1>1, <1>3 DEF VmsAreKnown
    <2>3. binding["SERVER"] # NoVm => refused
      BY <1>1, <1>3 DEF VmsAreKnown
    <2> QED
      BY <1>1, <1>2, <1>3, <2>1, <2>2, <2>3 DEF VmsAreKnown
  <1>6. ResultsAreOfTheirVm'
    <2>1. http \subseteq Result /\ loads \subseteq Result
      BY <1>1 DEF ScriptCallsTypeOK
    <2>2. ASSUME NEW m \in http
          PROVE  /\ m.life <= lives' /\ m.generation <= generation[m.context]
                 /\ vm'[m.context].life = m.life <=> m.generation = generation[m.context]
                 /\ vm'[m.context].life = m.life => vm'[m.context].ready /\ vm'[m.context].at = m.at
      <3>1. m.context \in Contexts /\ m.life \in Nat /\ m.life >= 1
        BY <2>1, ResultTypes
      <3>2. /\ m.life <= lives /\ m.generation <= generation[m.context]
            /\ vm[m.context].life = m.life <=> m.generation = generation[m.context]
            /\ vm[m.context].life = m.life => vm[m.context].ready /\ vm[m.context].at = m.at
        BY <1>1 DEF ResultsAreOfTheirVm
      <3> QED
        BY <1>3, <3>1, <3>2
    <2>3. \A m \in loads : m.context \in Contexts \ {"SERVER"}
      BY <1>1, <1>3, <2>1, ResultTypes DEF ResultsAreOfTheirVm
    <2>4. Elements(queue["SERVER"]) = {}
      BY <1>1, <1>3 DEF ResultsAreOfTheirVm
    <2>5. ASSUME NEW m \in loads
          PROVE  vm'[m.context].life = m.life /\ vm'[m.context].at = m.at /\ vm'[m.context].ready
      <3>1. vm[m.context].life = m.life /\ vm[m.context].at = m.at /\ vm[m.context].ready
        BY <1>1 DEF ResultsAreOfTheirVm
      <3> QED
        BY <1>3, <2>3, <3>1
    <2>6. ASSUME NEW c \in Contexts, NEW m \in Elements(queue[c])
          PROVE  m.context = c /\ vm'[c].life = m.life /\ vm'[c].at = m.at /\ vm'[c].ready
      <3>1. m.context = c /\ vm[c].life = m.life /\ vm[c].at = m.at /\ vm[c].ready
        BY <1>1 DEF ResultsAreOfTheirVm
      <3>2. c # "SERVER"
        BY <2>4
      <3> QED
        BY <1>3, <3>1, <3>2
    <2>7. http' = http /\ loads' = loads /\ queue' = queue /\ generation' = generation
      BY <1>2
    <2> QED
      BY <2>2, <2>5, <2>6, <2>7 DEF ResultsAreOfTheirVm, Elements
  <1>7. ModsRanOnce'
    BY <1>1, <1>3 DEF ModsRanOnce, ScriptCallsTypeOK
  <1> QED
    BY <1>4, <1>5, <1>6, <1>7 DEF CallsInv

LEMMA ServerVmInitKeeps ==
  ASSUME CallsInv, "SERVER" \in Contexts, NEW a \in Addresses, NEW read \in BOOLEAN,
         NEW ok \in BOOLEAN, RuntimeServerVmInit(a, read, ok)
  PROVE  CallsInv'
  <1>1. ScriptCallsTypeOK /\ VmsAreKnown /\ ResultsAreOfTheirVm /\ ModsRanOnce
    BY DEF CallsInv
  <1>2. PICK o : o = [owner |-> IF read THEN a ELSE NoVm, started |-> FALSE]
    OBVIOUS
  <1>3. PICK ready \in BOOLEAN : ready = (read /\ ok)
    OBVIOUS
  <1>4. /\ Made("SERVER", a, ready) /\ ResetAsyncCalls("SERVER")
        /\ binding' = [binding EXCEPT !["SERVER"] = a]
        /\ lifecycle' = [lifecycle EXCEPT !["SERVER"] = o]
        /\ refused' = (refused \/ ~read)
        /\ UNCHANGED <<hook, http, loads, handles>>
    BY <1>2, <1>3 DEF RuntimeServerVmInit
  <1>5. /\ vm["SERVER"].life = 0 /\ ~vm["SERVER"].ready /\ vm["SERVER"].at = NoVm
        /\ vm' \in [Contexts -> Life \cup {NoLife}]
        /\ vm'["SERVER"].at = a /\ vm'["SERVER"].life = lives + 1 /\ vm'["SERVER"].ready = ready
        /\ \A d \in Contexts \ {"SERVER"} : vm'[d] = vm[d] /\ vm[d].at # a
        /\ lives' = lives + 1 /\ lives' \in 0..MaxLives /\ lives \in Nat /\ a # NoVm
        /\ modInits' = [modInits EXCEPT !["SERVER"] = 0] /\ modInits' \in [Contexts -> Nat]
    BY <1>4, MadeVm
  <1>6. /\ binding \in [Contexts -> Addresses \cup {NoVm}]
        /\ lifecycle \in [Contexts -> [owner: Addresses \cup {NoVm}, started: BOOLEAN]]
        /\ loads \subseteq Result /\ lives' \in Nat /\ lives' >= lives
        /\ refused' \in BOOLEAN /\ (refused => refused') /\ (~read => refused')
    <2>1. refused \in BOOLEAN
      BY <1>1 DEF ScriptCallsTypeOK
    <2>2. refused' \in BOOLEAN /\ (refused => refused') /\ (~read => refused')
      BY <1>4, <2>1, Zenon
    <2> QED
      BY <1>1, <1>5, <2>2 DEF ScriptCallsTypeOK
  <1>7. /\ o \in [owner: Addresses \cup {NoVm}, started: BOOLEAN]
        /\ o.owner \in {a, NoVm} /\ (ready => o.owner = a) /\ (read => o.owner = a)
    BY <1>2, <1>3
  <1>8. /\ binding'["SERVER"] = a /\ lifecycle'["SERVER"] = o
        /\ \A d \in Contexts \ {"SERVER"} : binding'[d] = binding[d] /\ lifecycle'[d] = lifecycle[d]
        /\ binding' \in [Contexts -> Addresses \cup {NoVm}]
        /\ lifecycle' \in [Contexts -> [owner: Addresses \cup {NoVm}, started: BOOLEAN]]
    BY <1>4, <1>6, <1>7
  <1>9. ScriptCallsTypeOK'
    BY <1>1, <1>4, <1>5, <1>6, <1>8, ResetCalls DEF ScriptCallsTypeOK
  <1>10. VmsAreKnown'
    <2>1. \A d \in Contexts : vm'[d].life <= lives'
      BY <1>1, <1>5, VmTypes DEF VmsAreKnown
    <2>2. \A d, e \in Contexts : vm'[d].at = vm'[e].at /\ vm'[d].at # NoVm => d = e
      BY <1>1, <1>5 DEF VmsAreKnown
    <2>3. ASSUME NEW d \in Contexts \ {"SERVER"}
          PROVE  /\ vm'[d].ready => lifecycle'[d].owner = vm'[d].at /\ binding'[d] = vm'[d].at
                 /\ lifecycle'[d].owner # NoVm => vm'[d].at = lifecycle'[d].owner
                 /\ binding'[d] # NoVm => lifecycle'[d].owner = binding'[d]
                 /\ lifecycle'[d].owner = vm'[d].at
      BY <1>1, <1>5, <1>8 DEF VmsAreKnown
    <2>4. /\ vm'["SERVER"].ready => lifecycle'["SERVER"].owner = vm'["SERVER"].at
                                    /\ binding'["SERVER"] = vm'["SERVER"].at
          /\ lifecycle'["SERVER"].owner # NoVm => vm'["SERVER"].at = lifecycle'["SERVER"].owner
      BY <1>5, <1>7, <1>8
    <2>5. binding'["SERVER"] # NoVm => lifecycle'["SERVER"].owner = binding'["SERVER"] \/ refused'
      BY <1>6, <1>7, <1>8
    <2> QED
      BY <2>1, <2>2, <2>3, <2>4, <2>5 DEF VmsAreKnown
  <1>11. ResultsAreOfTheirVm'
    <2>1. \A m \in loads' : m.context # "SERVER"
      BY <1>1, <1>4, <1>5 DEF ResultsAreOfTheirVm
    <2> QED
      BY <1>4, <1>5, <1>6, <2>1, ResetKeepsResults
  <1>12. ModsRanOnce'
    BY <1>1, <1>5 DEF ModsRanOnce, ScriptCallsTypeOK
  <1> QED
    BY <1>9, <1>10, <1>11, <1>12 DEF CallsInv

LEMMA ReleaseKeeps ==
  ASSUME CallsInv, NEW c \in Contexts, Release(c)
  PROVE  CallsInv'
  <1>1. ScriptCallsTypeOK /\ VmsAreKnown /\ ResultsAreOfTheirVm /\ ModsRanOnce
    BY DEF CallsInv
  <1>2. /\ vm[c] # NoLife /\ vm' = [vm EXCEPT ![c] = NoLife]
        /\ UNCHANGED <<lives, hook, modInits, http, handles, refused>>
    BY DEF Release
  <1>3. /\ vm \in [Contexts -> Life \cup {NoLife}] /\ loads \subseteq Result
        /\ http \subseteq Result /\ lives \in Nat
        /\ binding \in [Contexts -> Addresses \cup {NoVm}]
        /\ lifecycle \in [Contexts -> [owner: Addresses \cup {NoVm}, started: BOOLEAN]]
        /\ vm[c].at # NoVm
    BY <1>1, <1>2, VmTypes DEF ScriptCallsTypeOK
  <1>4. /\ vm' \in [Contexts -> Life \cup {NoLife}]
        /\ vm'[c].at = NoVm /\ vm'[c].life = 0 /\ ~vm'[c].ready
        /\ \A d \in Contexts \ {c} : vm'[d] = vm[d]
    BY <1>2, <1>3 DEF NoLife
  <1>5. CASE lifecycle[c].owner = vm[c].at
    <2>1. /\ ResetAsyncCalls(c) /\ binding' = Unbound(vm[c].at)
          /\ loads' = LoadsBut(vm[c].at) /\ lifecycle' = [lifecycle EXCEPT ![c] = NoOwner]
      BY <1>5 DEF Release, DropPendingLoads
    <2>2. /\ NoOwner.owner = NoVm /\ NoOwner \in [owner: Addresses \cup {NoVm}, started: BOOLEAN]
      BY DEF NoOwner
    <2>3. /\ lifecycle'[c].owner = NoVm /\ \A d \in Contexts \ {c} : lifecycle'[d] = lifecycle[d]
          /\ lifecycle' \in [Contexts -> [owner: Addresses \cup {NoVm}, started: BOOLEAN]]
          /\ binding' \in [Contexts -> Addresses \cup {NoVm}]
          /\ \A d \in Contexts : binding'[d] = (IF binding[d] = vm[c].at THEN NoVm ELSE binding[d])
          /\ loads' \subseteq loads /\ \A m \in loads' : m.at # vm[c].at
      BY <1>3, <2>1, <2>2 DEF Unbound, LoadsBut
    <2>4. ScriptCallsTypeOK'
      BY <1>1, <1>2, <1>3, <1>4, <2>1, <2>3, ResetCalls DEF ScriptCallsTypeOK
    <2>5. VmsAreKnown'
      <3>1. \A d \in Contexts : vm'[d].life <= lives'
        BY <1>1, <1>2, <1>3, <1>4 DEF VmsAreKnown
      <3> QED
        BY <1>1, <1>2, <1>3, <1>4, <2>3, <3>1 DEF VmsAreKnown
    <2>6. ResultsAreOfTheirVm'
      <3>1. \A m \in loads' : m.context # c
        BY <1>1, <2>3 DEF ResultsAreOfTheirVm
      <3> QED
        BY <1>2, <1>3, <1>4, <2>1, <2>3, <3>1, ResetKeepsResults
    <2>7. ModsRanOnce'
      BY <1>1, <1>2, <1>4, <2>3 DEF ModsRanOnce
    <2> QED
      BY <2>4, <2>5, <2>6, <2>7 DEF CallsInv
  <1>6. CASE lifecycle[c].owner # vm[c].at
    <2>1. UNCHANGED <<generation, queue, binding, loads, lifecycle>>
      BY <1>6 DEF Release
    <2>2. ScriptCallsTypeOK'
      BY <1>1, <1>2, <1>4, <2>1 DEF ScriptCallsTypeOK
    <2>3. ~vm[c].ready /\ c = "SERVER" /\ lifecycle[c].owner = NoVm
      BY <1>1, <1>6 DEF VmsAreKnown
    <2>4. VmsAreKnown'
      <3>1. \A d \in Contexts : vm'[d].life <= lives'
        BY <1>1, <1>2, <1>3, <1>4 DEF VmsAreKnown
      <3>2. binding[c] # NoVm => refused
        BY <1>1, <2>3 DEF VmsAreKnown
      <3> QED
        BY <1>1, <1>2, <1>3, <1>4, <2>1, <2>3, <3>1, <3>2 DEF VmsAreKnown
    <2>5. ResultsAreOfTheirVm'
      <3>1. ASSUME NEW m \in http
            PROVE  /\ m.life <= lives /\ m.generation <= generation[m.context]
                   /\ vm'[m.context].life = m.life <=> m.generation = generation[m.context]
                   /\ vm'[m.context].life = m.life => vm'[m.context].ready /\ vm'[m.context].at = m.at
        <4>1. m.context \in Contexts /\ m.life \in Nat /\ m.life >= 1
          BY <1>3, ResultTypes
        <4>2. /\ m.life <= lives /\ m.generation <= generation[m.context]
              /\ vm[m.context].life = m.life <=> m.generation = generation[m.context]
              /\ vm[m.context].life = m.life => vm[m.context].ready /\ vm[m.context].at = m.at
          BY <1>1 DEF ResultsAreOfTheirVm
        <4> QED
          BY <1>4, <2>3, <4>1, <4>2
      <3>2. \A m \in loads : m.context \in Contexts \ {c}
        BY <1>1, <1>3, <2>3, ResultTypes DEF ResultsAreOfTheirVm
      <3>3. Elements(queue[c]) = {}
        BY <1>1, <2>3 DEF ResultsAreOfTheirVm
      <3> QED
        BY <1>1, <1>2, <1>4, <2>1, <3>1, <3>2, <3>3 DEF ResultsAreOfTheirVm
    <2>6. ModsRanOnce'
      BY <1>1, <1>2, <1>4, <2>1 DEF ModsRanOnce
    <2> QED
      BY <2>2, <2>4, <2>5, <2>6 DEF CallsInv
  <1> QED
    BY <1>5, <1>6

-----------------------------------------------------------------------------
(* The hooks, the scripts' requests and the results.                         *)

LEMMA HookKeeps ==
  ASSUME CallsInv, TryInstallServerVm
  PROVE  CallsInv'
  <1>1. /\ UNCHANGED <<vm, lives, binding, lifecycle, modInits, refused>>
        /\ UNCHANGED <<generation, queue, http, loads, handles>>
        /\ hook' \in {"untried", "installed", "exhausted"}
    BY DEF TryInstallServerVm, callVars
  <1> QED
    BY <1>1 DEF CallsInv, ScriptCallsTypeOK, VmsAreKnown, ResultsAreOfTheirVm, ModsRanOnce

LEMMA InitCallbackKeeps ==
  ASSUME CallsInv, NEW c \in Contexts, InitCallback(c)
  PROVE  CallsInv'
  <1>1. ScriptCallsTypeOK /\ VmsAreKnown /\ ResultsAreOfTheirVm /\ ModsRanOnce
    BY DEF CallsInv
  <1>2. /\ vm[c].ready /\ UNCHANGED <<vm, lives, hook, binding, generation, queue, http, handles, refused>>
        /\ loads' \subseteq loads
    BY DEF InitCallback, LoadsBut
  <1>3. /\ lifecycle \in [Contexts -> [owner: Addresses \cup {NoVm}, started: BOOLEAN]]
        /\ modInits \in [Contexts -> Nat]
    BY <1>1 DEF ScriptCallsTypeOK
  <1>4. /\ lifecycle' \in [Contexts -> [owner: Addresses \cup {NoVm}, started: BOOLEAN]]
        /\ modInits' \in [Contexts -> Nat]
        /\ \A d \in Contexts : lifecycle'[d].owner = lifecycle[d].owner
        /\ "SERVER" \in Contexts =>
              \/ UNCHANGED <<lifecycle["SERVER"], modInits["SERVER"]>>
              \/ /\ ~lifecycle["SERVER"].started /\ vm["SERVER"].ready
                 /\ lifecycle'["SERVER"].started
                 /\ modInits'["SERVER"] = modInits["SERVER"] + 1
    <2>1. CASE RunsMods(c)
      <3>1. PICK o : o = [lifecycle[c] EXCEPT !.started = TRUE]
        OBVIOUS
      <3>2. /\ o \in [owner: Addresses \cup {NoVm}, started: BOOLEAN]
            /\ o.owner = lifecycle[c].owner /\ o.started
        BY <1>3, <3>1
      <3>3. lifecycle' = [lifecycle EXCEPT ![c] = o] /\ modInits' = [modInits EXCEPT ![c] = @ + 1]
        BY <1>3, <2>1, <3>1 DEF InitCallback
      <3>4. c = "SERVER" => ~lifecycle["SERVER"].started
        BY <2>1 DEF RunsMods
      <3> QED
        BY <1>2, <1>3, <3>2, <3>3, <3>4
    <2>2. CASE ~RunsMods(c)
      BY <1>3, <2>2 DEF InitCallback
    <2> QED
      BY <2>1, <2>2
  <1>5. ScriptCallsTypeOK'
    BY <1>1, <1>2, <1>4 DEF ScriptCallsTypeOK
  <1>6. VmsAreKnown'
    BY <1>1, <1>2, <1>4 DEF VmsAreKnown
  <1>7. ResultsAreOfTheirVm'
    BY <1>1, <1>2 DEF ResultsAreOfTheirVm
  <1>8. ModsRanOnce'
    BY <1>1, <1>2, <1>3, <1>4 DEF ModsRanOnce
  <1> QED
    BY <1>5, <1>6, <1>7, <1>8 DEF CallsInv

LEMMA DrainKeeps ==
  ASSUME CallsInv, NEW c \in Contexts, DrainContext(c)
  PROVE  CallsInv'
  <1>1. ScriptCallsTypeOK /\ VmsAreKnown /\ ResultsAreOfTheirVm /\ ModsRanOnce
    BY DEF CallsInv
  <1>2. /\ UNCHANGED <<vm, lives, hook, binding, lifecycle, modInits, generation, http, handles, refused>>
        /\ loads' \subseteq loads /\ queue' = [queue EXCEPT ![c] = <<>>]
    BY DEF DrainContext, LoadsBut
  <1>3. queue' \in [Contexts -> Seq(Result)] /\ \A d \in Contexts : queue'[d] \in {<<>>, queue[d]}
    BY <1>1, <1>2, EmptyQueue DEF ScriptCallsTypeOK
  <1>4. ScriptCallsTypeOK'
    BY <1>1, <1>2, <1>3 DEF ScriptCallsTypeOK
  <1>5. VmsAreKnown' /\ ModsRanOnce'
    BY <1>1, <1>2 DEF VmsAreKnown, ModsRanOnce
  <1>6. ResultsAreOfTheirVm'
    <2>1. \A d \in Contexts : Elements(queue'[d]) \subseteq Elements(queue[d])
      BY <1>3, EmptyQueue
    <2> QED
      BY <1>1, <1>2, <2>1 DEF ResultsAreOfTheirVm
  <1> QED
    BY <1>4, <1>5, <1>6 DEF CallsInv

(* What a script of a living VM asks for.                                    *)
LEMMA AskedResult ==
  ASSUME CallsInv, NEW c \in Contexts, Asks(c)
  PROVE  /\ Asked(c) \in Result /\ Asked(c).context = c /\ Asked(c).life = vm[c].life
         /\ Asked(c).generation = generation[c] /\ Asked(c).at = vm[c].at
         /\ vm[c].ready /\ handles' \in 0..MaxHandles /\ vm[c].life <= lives
  <1>1. ScriptCallsTypeOK /\ VmsAreKnown /\ vm[c].ready /\ handles < MaxHandles
        /\ handles' = handles + 1
    BY DEF CallsInv, Asks
  <1>2. handles + 1 \in 1..MaxHandles /\ handles' \in 0..MaxHandles
    BY <1>1, ScriptAssumption DEF ScriptCallsTypeOK
  <1>3. vm[c].at \in Addresses /\ vm[c].life \in 1..MaxLives /\ generation[c] \in Nat
    BY <1>1, VmTypes
  <1> QED
    BY <1>1, <1>2, <1>3 DEF Asked, Result, VmsAreKnown

LEMMA MakeRequestKeeps ==
  ASSUME CallsInv, NEW c \in Contexts, MakeScriptHttpRequest(c)
  PROVE  CallsInv'
  <1>1. ScriptCallsTypeOK /\ VmsAreKnown /\ ResultsAreOfTheirVm /\ ModsRanOnce
    BY DEF CallsInv
  <1>2. PICK m : m = Asked(c)
    OBVIOUS
  <1>3. /\ UNCHANGED <<vm, lives, hook, binding, lifecycle, modInits, generation, queue, loads, refused>>
        /\ http' \in {http, http \cup {m}} /\ Asks(c)
    BY <1>2 DEF MakeScriptHttpRequest
  <1>4. /\ m \in Result /\ m.context = c /\ m.life = vm[c].life /\ m.generation = generation[c]
        /\ m.at = vm[c].at /\ vm[c].ready /\ handles' \in 0..MaxHandles /\ vm[c].life <= lives /\ generation[c] \in Nat
    BY <1>1, <1>2, <1>3, AskedResult, VmTypes
  <1>5. ScriptCallsTypeOK'
    BY <1>1, <1>3, <1>4 DEF ScriptCallsTypeOK
  <1>6. VmsAreKnown' /\ ModsRanOnce'
    BY <1>1, <1>3 DEF VmsAreKnown, ModsRanOnce
  <1>7. ResultsAreOfTheirVm'
    <2>1. /\ m.life <= lives /\ m.generation <= generation[m.context]
          /\ vm[m.context].life = m.life <=> m.generation = generation[m.context]
          /\ vm[m.context].ready /\ vm[m.context].at = m.at
      BY <1>4
    <2>2. \A k \in http' : k \in http \/ k = m
      BY <1>3
    <2> QED
      BY <1>1, <1>3, <2>1, <2>2 DEF ResultsAreOfTheirVm
  <1> QED
    BY <1>5, <1>6, <1>7 DEF CallsInv

LEMMA LoadFileKeeps ==
  ASSUME CallsInv, NEW c \in Contexts, LoadFile(c)
  PROVE  CallsInv'
  <1>1. ScriptCallsTypeOK /\ VmsAreKnown /\ ResultsAreOfTheirVm /\ ModsRanOnce
    BY DEF CallsInv
  <1>2. PICK m : m = Asked(c)
    OBVIOUS
  <1>3. /\ UNCHANGED <<vm, lives, hook, binding, lifecycle, modInits, generation, queue, http, refused>>
        /\ loads' = loads \cup {m} /\ Asks(c)
    BY <1>2 DEF LoadFile
  <1>4. /\ m \in Result /\ m.context = c /\ m.life = vm[c].life /\ m.at = vm[c].at
        /\ vm[c].ready /\ handles' \in 0..MaxHandles
    BY <1>1, <1>2, <1>3, AskedResult
  <1>5. ScriptCallsTypeOK'
    BY <1>1, <1>3, <1>4 DEF ScriptCallsTypeOK
  <1>6. VmsAreKnown' /\ ModsRanOnce'
    BY <1>1, <1>3 DEF VmsAreKnown, ModsRanOnce
  <1>7. ResultsAreOfTheirVm'
    BY <1>1, <1>3, <1>4 DEF ResultsAreOfTheirVm
  <1> QED
    BY <1>5, <1>6, <1>7 DEF CallsInv

LEMMA AppendedQueue ==
  ASSUME NEW q \in Seq(Result), NEW m \in Result
  PROVE  Append(q, m) \in Seq(Result) /\ Elements(Append(q, m)) = Elements(q) \cup {m}
  <1>1. /\ Append(q, m) \in Seq(Result) /\ Len(Append(q, m)) = Len(q) + 1 /\ Len(q) \in Nat
        /\ \A i \in 1..Len(q) : Append(q, m)[i] = q[i]
        /\ Append(q, m)[Len(q) + 1] = m
    BY AppendProperties, LenProperties
  <1>2. \A i \in 1..(Len(q) + 1) : i \in 1..Len(q) \/ i = Len(q) + 1
    BY <1>1
  <1>3. Elements(Append(q, m)) \subseteq Elements(q) \cup {m}
    BY <1>1, <1>2 DEF Elements
  <1>4. Elements(q) \cup {m} \subseteq Elements(Append(q, m))
    <2>1. Len(q) + 1 \in 1..Len(Append(q, m)) /\ \A i \in 1..Len(q) : i \in 1..Len(Append(q, m))
      BY <1>1
    <2> QED
      BY <1>1, <2>1 DEF Elements
  <1> QED
    BY <1>1, <1>3, <1>4

LEMMA HttpWorkerKeeps ==
  ASSUME CallsInv, NEW m \in http, ScriptHttpWorker(m)
  PROVE  CallsInv'
  <1>1. ScriptCallsTypeOK /\ VmsAreKnown /\ ResultsAreOfTheirVm /\ ModsRanOnce
    BY DEF CallsInv
  <1>2. /\ UNCHANGED <<vm, lives, hook, binding, lifecycle, modInits, generation, loads, handles, refused>>
        /\ http' \subseteq http
        /\ queue' = IF CurrentGeneration(m) THEN [queue EXCEPT ![m.context] = Append(@, m)] ELSE queue
    BY DEF ScriptHttpWorker
  <1>3. m \in Result /\ m.context \in Contexts
    BY <1>1, ResultTypes DEF ScriptCallsTypeOK
  <1>4. /\ queue' \in [Contexts -> Seq(Result)]
        /\ \A d \in Contexts : \A k \in Elements(queue'[d]) :
              k \in Elements(queue[d]) \/ (CurrentGeneration(m) /\ k = m /\ d = m.context)
    <2>1. queue \in [Contexts -> Seq(Result)] /\ queue[m.context] \in Seq(Result)
      BY <1>1, <1>3 DEF ScriptCallsTypeOK
    <2>2. CASE CurrentGeneration(m)
      <3>1. queue' = [queue EXCEPT ![m.context] = Append(queue[m.context], m)]
        BY <1>2, <2>2
      <3>2. Append(queue[m.context], m) \in Seq(Result)
            /\ Elements(Append(queue[m.context], m)) = Elements(queue[m.context]) \cup {m}
        BY <1>3, <2>1, AppendedQueue
      <3> QED
        BY <1>3, <2>1, <2>2, <3>1, <3>2
    <2>3. CASE ~CurrentGeneration(m)
      BY <1>2, <2>1, <2>3
    <2> QED
      BY <2>2, <2>3
  <1>5. ScriptCallsTypeOK'
    BY <1>1, <1>2, <1>4 DEF ScriptCallsTypeOK
  <1>6. VmsAreKnown' /\ ModsRanOnce'
    BY <1>1, <1>2 DEF VmsAreKnown, ModsRanOnce
  <1>7. CurrentGeneration(m) =>
          vm[m.context].life = m.life /\ vm[m.context].at = m.at /\ vm[m.context].ready
    BY <1>1 DEF ResultsAreOfTheirVm, CurrentGeneration
  <1>8. ResultsAreOfTheirVm'
    <2>1. \A d \in Contexts : \A k \in Elements(queue'[d]) :
             k.context = d /\ vm[d].life = k.life /\ vm[d].at = k.at /\ vm[d].ready
      BY <1>1, <1>3, <1>4, <1>7 DEF ResultsAreOfTheirVm
    <2> QED
      BY <1>1, <1>2, <2>1 DEF ResultsAreOfTheirVm
  <1> QED
    BY <1>5, <1>6, <1>8 DEF CallsInv

LEMMA CallsStepInv == CallsInv /\ [ScriptCallsNext]_scriptCallsVars => CallsInv'
  <1> SUFFICES ASSUME CallsInv, [ScriptCallsNext]_scriptCallsVars PROVE CallsInv'
    OBVIOUS
  <1>1. CASE UNCHANGED scriptCallsVars
    BY <1>1 DEF scriptCallsVars, CallsInv, ScriptCallsTypeOK, VmsAreKnown, ResultsAreOfTheirVm, ModsRanOnce
  <1>2. CASE ScriptCallsNext
    BY <1>2, HookKeeps, VmInitKeeps, UnhookedVmKeeps, ServerVmInitKeeps, InitCallbackKeeps,
       ReleaseKeeps, DrainKeeps, MakeRequestKeeps, LoadFileKeeps, HttpWorkerKeeps DEF ScriptCallsNext
  <1> QED
    BY <1>1, <1>2

-----------------------------------------------------------------------------
(* What follows.                                                             *)

LEMMA LifecycleFollows == CallsInv => LifecycleFollowsTheVm
  BY VmTypes, ScriptAssumption DEF CallsInv, VmsAreKnown, ModsRanOnce, LifecycleFollowsTheVm

LEMMA LifeAtAddress ==
  ASSUME CallsInv, NEW c \in Contexts, vm[c].at # NoVm
  PROVE  LifeAt(vm[c].at) = vm[c].life
  <1>1. \A d \in Contexts : vm[d].at = vm[c].at => d = c
    BY DEF CallsInv, VmsAreKnown
  <1>2. (CHOOSE d \in Contexts : vm[d].at = vm[c].at) = c
    BY <1>1
  <1> QED
    BY <1>2 DEF LifeAt

LEMMA DrainedAreTheVms ==
  ASSUME CallsInv, NEW c \in Contexts, binding[c] # NoVm, NEW m \in Drained(c)
  PROVE  LifeAt(binding[c]) = m.life
  <1>1. ScriptCallsTypeOK /\ VmsAreKnown /\ ResultsAreOfTheirVm
    BY DEF CallsInv
  <1>2. CASE m \in LoadsOf(binding[c])
    <2>1. m \in loads /\ m.at = binding[c] /\ m \in Result
      BY <1>1, <1>2 DEF LoadsOf, ScriptCallsTypeOK
    <2>2. /\ m.context \in Contexts /\ vm[m.context].life = m.life /\ vm[m.context].at = binding[c]
      BY <1>1, <2>1, ResultTypes DEF ResultsAreOfTheirVm
    <2> QED
      BY <2>2, LifeAtAddress
  <1>3. CASE m \in Elements(queue[c])
    <2>1. vm[c].life = m.life /\ vm[c].ready /\ vm[c].at = binding[c]
      BY <1>1, <1>3 DEF ResultsAreOfTheirVm, VmsAreKnown
    <2> QED
      BY <2>1, LifeAtAddress
  <1> QED
    BY <1>2, <1>3 DEF Drained

LEMMA CallbackLoadsAreTheVms ==
  ASSUME CallsInv, NEW c \in Contexts, vm[c].ready, NEW m \in LoadsOf(vm[c].at)
  PROVE  vm[c].life = m.life
  <1>1. ScriptCallsTypeOK /\ VmsAreKnown /\ ResultsAreOfTheirVm
    BY DEF CallsInv
  <1>2. m \in loads /\ m.at = vm[c].at /\ m \in Result
    BY <1>1 DEF LoadsOf, ScriptCallsTypeOK
  <1>3. /\ m.context \in Contexts /\ vm[m.context].life = m.life /\ vm[m.context].at = vm[c].at
        /\ m.at # NoVm
    BY <1>1, <1>2, ResultTypes DEF ResultsAreOfTheirVm
  <1> QED
    BY <1>1, <1>2, <1>3 DEF VmsAreKnown

(* A result that is under way for a VM stays so until the VM is gone or the  *)
(* result is delivered.                                                      *)
LEMMA ResultsStay ==
  ASSUME CallsInv, ScriptCallsNext, NEW m \in Outstanding, Alive(m), Alive(m)',
         ~ \E c \in Contexts : DrainContext(c) \/ InitCallback(c)
  PROVE  m \in Outstanding'
  <1>1. ScriptCallsTypeOK /\ VmsAreKnown /\ ResultsAreOfTheirVm
    BY DEF CallsInv
  <1>2. /\ http \subseteq Result /\ loads \subseteq Result
        /\ \A c \in Contexts : queue[c] \in Seq(Result) /\ Elements(queue[c]) \subseteq Result
    BY <1>1, QueueTypes DEF ScriptCallsTypeOK
  <1>3. /\ m \in http \/ m \in loads \/ \E c \in Contexts : m \in Elements(queue[c])
        /\ m \in Result /\ m.context \in Contexts /\ m.life \in Nat /\ m.life >= 1
    <2>1. m \in http \/ m \in loads \/ \E c \in Contexts : m \in Elements(queue[c])
      BY DEF Outstanding
    <2>2. m \in Result
      BY <1>2, <2>1
    <2> QED
      BY <2>1, <2>2, ResultTypes
  <1>4. \A c \in Contexts : m \in Elements(queue[c]) => c = m.context
    BY <1>1 DEF ResultsAreOfTheirVm
  <1>5. vm[m.context].life = m.life /\ vm'[m.context].life = m.life
    BY DEF Alive
  <1>6. /\ http \subseteq http' /\ loads \subseteq loads' /\ UNCHANGED queue => m \in Outstanding'
    BY <1>3 DEF Outstanding
  <1>7. ASSUME NEW c \in Contexts, c # m.context, http' = http, ResetAsyncCalls(c),
               m \in loads => m \in loads'
        PROVE  m \in Outstanding'
    <2>1. \A d \in Contexts \ {c} : queue'[d] = queue[d]
      BY <1>1, <1>7, ResetCalls
    <2> QED
      BY <1>3, <1>4, <1>7, <2>1 DEF Outstanding
  <1>8. ASSUME NEW c \in Contexts, NEW a \in Addresses, NEW ok \in BOOLEAN, Made(c, a, ok)
        PROVE  c # m.context
    BY <1>3, <1>5, <1>8, MadeVm
  <1>9. CASE TryInstallServerVm
    BY <1>6, <1>9 DEF TryInstallServerVm, callVars
  <1>10. ASSUME NEW c \in Contexts, NEW a \in Addresses, NEW ok \in BOOLEAN, RuntimeVmInit(c, a, ok)
         PROVE  m \in Outstanding'
    BY <1>7, <1>8, <1>10 DEF RuntimeVmInit
  <1>11. ASSUME NEW a \in Addresses, UnhookedServerVm(a) PROVE m \in Outstanding'
    BY <1>6, <1>11 DEF UnhookedServerVm, callVars
  <1>12. ASSUME "SERVER" \in Contexts, NEW a \in Addresses, NEW read \in BOOLEAN, NEW ok \in BOOLEAN,
                RuntimeServerVmInit(a, read, ok)
         PROVE  m \in Outstanding'
    <2>1. /\ Made("SERVER", a, read /\ ok) /\ ResetAsyncCalls("SERVER") /\ http' = http /\ loads' = loads
      BY <1>12 DEF RuntimeServerVmInit
    <2>2. (read /\ ok) \in BOOLEAN
      OBVIOUS
    <2> QED
      BY <1>7, <1>8, <1>12, <2>1, <2>2
  <1>13. ASSUME NEW c \in Contexts, Release(c) PROVE m \in Outstanding'
    <2>1. c # m.context
      <3>1. vm'[c].life = 0
        BY <1>1, <1>13 DEF Release, NoLife, ScriptCallsTypeOK
      <3> QED
        BY <1>3, <1>5, <3>1
    <2>2. http' = http
      BY <1>13 DEF Release
    <2>3. CASE lifecycle[c].owner = vm[c].at
      <3>1. ResetAsyncCalls(c) /\ loads' = LoadsBut(vm[c].at) /\ vm[c] # NoLife
        BY <1>13, <2>3 DEF Release, DropPendingLoads
      <3>2. m \in loads => m.at # vm[c].at
        <4>1. vm[c].at # NoVm
          BY <1>1, <3>1, VmTypes
        <4>2. m \in loads => vm[m.context].at = m.at
          BY <1>1 DEF ResultsAreOfTheirVm
        <4> QED
          BY <1>1, <1>3, <2>1, <4>1, <4>2 DEF VmsAreKnown
      <3> QED
        BY <1>7, <2>1, <2>2, <3>1, <3>2 DEF LoadsBut
    <2>4. CASE lifecycle[c].owner # vm[c].at
      BY <1>6, <1>13, <2>2, <2>4 DEF Release
    <2> QED
      BY <2>3, <2>4
  <1>14. ASSUME NEW c \in Contexts, MakeScriptHttpRequest(c) PROVE m \in Outstanding'
    BY <1>6, <1>14 DEF MakeScriptHttpRequest
  <1>15. ASSUME NEW c \in Contexts, LoadFile(c) PROVE m \in Outstanding'
    BY <1>6, <1>15 DEF LoadFile
  <1>16. ASSUME NEW k \in http, ScriptHttpWorker(k) PROVE m \in Outstanding'
    <2>1. /\ http' = http \ {k} /\ loads' = loads /\ k \in Result /\ k.context \in Contexts
          /\ queue' = IF CurrentGeneration(k) THEN [queue EXCEPT ![k.context] = Append(@, k)] ELSE queue
      BY <1>2, <1>16, ResultTypes DEF ScriptHttpWorker
    <2>2. queue \in [Contexts -> Seq(Result)]
      BY <1>1 DEF ScriptCallsTypeOK
    <2>3. CASE CurrentGeneration(k)
      <3>1. queue' = [queue EXCEPT ![k.context] = Append(queue[k.context], k)]
        BY <2>1, <2>3
      <3>2. Elements(Append(queue[k.context], k)) = Elements(queue[k.context]) \cup {k}
        BY <1>2, <2>1, AppendedQueue
      <3>3. /\ Elements(queue'[k.context]) = Elements(queue[k.context]) \cup {k}
            /\ \A d \in Contexts : Elements(queue[d]) \subseteq Elements(queue'[d])
        BY <2>1, <2>2, <3>1, <3>2
      <3> QED
        BY <1>3, <2>1, <3>3 DEF Outstanding
    <2>4. CASE ~CurrentGeneration(k)
      <3>1. queue' = queue
        BY <2>1, <2>4
      <3>2. m # k
        BY <1>1, <1>5, <2>4 DEF ResultsAreOfTheirVm, CurrentGeneration
      <3> QED
        BY <1>3, <2>1, <3>1, <3>2 DEF Outstanding
    <2> QED
      BY <2>3, <2>4
  <1> QED
    BY <1>9, <1>10, <1>11, <1>12, <1>13, <1>14, <1>15, <1>16 DEF ScriptCallsNext

LEMMA ResultsStepToTheAsker ==
  CallsInv /\ [ScriptCallsNext]_scriptCallsVars => [GoToTheAsker]_scriptCallsVars
  <1> SUFFICES ASSUME CallsInv, ScriptCallsNext PROVE GoToTheAsker
    OBVIOUS
  <1>1. ASSUME NEW c \in Contexts, DrainContext(c), NEW m \in Drained(c)
        PROVE  LifeAt(binding[c]) = m.life
    BY <1>1, DrainedAreTheVms DEF DrainContext
  <1>2. ASSUME NEW c \in Contexts, InitCallback(c), NEW m \in LoadsOf(vm[c].at)
        PROVE  vm[c].life = m.life
    BY <1>2, CallbackLoadsAreTheVms DEF InitCallback
  <1>3. ASSUME NEW m \in Outstanding, Alive(m), Alive(m)'
        PROVE  m \in Outstanding' \/ \E c \in Contexts : DrainContext(c) \/ InitCallback(c)
    BY <1>3, ResultsStay
  <1> QED
    BY <1>1, <1>2, <1>3 DEF GoToTheAsker

-----------------------------------------------------------------------------
(* Lists of servers.                                                       *)

IdsDiffer(list) == \A m, n \in 1..Len(list) : list[m].id = list[n].id => m = n
Falling(list) == \A m, n \in 1..Len(list) : m < n => list[m].players >= list[n].players

\* A list with a server put in: in the place of the one with its id, or behind.
Placed(S, s) == {s} \cup {x \in S : x.id # s.id}
PutIs(new, list, s) == new \in Seq(Servers) /\ IdsDiffer(new) /\ Listed(new) = Placed(Listed(list), s)

LEMMA PutServerIs ==
    ASSUME NEW list \in Seq(Servers), IdsDiffer(list), NEW s \in Servers
    PROVE  PutIs(PutServer(list, s), list, s)
  <1> DEFINE N == Len(list)
             Found(n) == /\ n > N \/ list[n].id = s.id
                         /\ \A m \in 1..(n - 1) : list[m].id # s.id
             H == {n \in 1..N : list[n].id = s.id} \cup {N + 1}
  <1>1. N \in Nat /\ DOMAIN list = 1..N /\ \A n \in 1..N : list[n] \in Servers
    BY ElementOfSeq
  <1>2. PICK k \in H : \A y \in H : k <= y
    <2>1. H \in SUBSET Nat /\ H # {}
      BY <1>1
    <2> HIDE DEF H
    <2>. QED
      BY <2>1, LeastOf
  <1>3. k \in 1..(N + 1) /\ Found(k)
    <2>1. k \in 1..(N + 1) /\ (k > N \/ list[k].id = s.id)
      BY <1>1, <1>2
    <2>2. ASSUME NEW m \in 1..(k - 1), list[m].id = s.id PROVE FALSE
      <3>1. m \in 1..N /\ m < k
        BY <1>1, <2>1
      <3>2. m \in H
        BY <2>2, <3>1
      <3>. QED
        BY <1>2, <2>1, <3>1, <3>2
    <2>. QED
      BY <2>1, <2>2
  <1>4. PICK p : p = PlaceOf(s, list)
    OBVIOUS
  <1>5. p \in 1..(N + 1) /\ Found(p)
    <2>1. p = CHOOSE n \in 1..(N + 1) : Found(n)
      BY <1>4 DEF PlaceOf
    <2> HIDE DEF Found
    <2>. QED
      BY <1>3, <2>1
  <1>6. PutServer(list, s) = IF p > N THEN Append(list, s) ELSE [list EXCEPT ![p] = s]
    BY <1>4 DEF PutServer
  <1>7. CASE p > N
    <2>1. p = N + 1 /\ \A m \in 1..N : list[m].id # s.id
      BY <1>1, <1>5, <1>7
    <2>2. PICK new : new = Append(list, s)
      OBVIOUS
    <2>3. /\ new \in Seq(Servers) /\ Len(new) = N + 1 /\ new[N + 1] = s
          /\ \A n \in 1..N : new[n] = list[n]
      BY <2>2
    <2>4. \A n \in 1..N + 1 : n = N + 1 \/ n \in 1..N
      BY <1>1
    <2>5. IdsDiffer(new)
      BY <2>1, <2>3, <2>4 DEF IdsDiffer
    <2>6. Listed(new) = Listed(list) \cup {s}
      <3>1. \A n \in 1..N : n \in 1..N + 1
        BY <1>1
      <3>2. N + 1 \in 1..N + 1
        BY <1>1
      <3>. QED
        BY <2>3, <2>4, <3>1, <3>2 DEF Listed
    <2>7. \A x \in Listed(list) : x.id # s.id
      BY <2>1 DEF Listed
    <2>. QED
      BY <1>6, <1>7, <2>2, <2>3, <2>5, <2>6, <2>7 DEF PutIs, Placed
  <1>8. CASE p <= N
    <2>1. p \in 1..N /\ list[p].id = s.id
      BY <1>1, <1>5, <1>8
    <2>2. PICK new : new = [list EXCEPT ![p] = s]
      OBVIOUS
    <2>3. /\ new \in Seq(Servers) /\ Len(new) = N
          /\ \A n \in 1..N : new[n] = IF n = p THEN s ELSE list[n]
      BY <1>1, <2>1, <2>2
    <2>4. \A n \in 1..N : new[n].id = list[n].id
      BY <2>1, <2>3
    <2>5. IdsDiffer(new)
      BY <2>3, <2>4 DEF IdsDiffer
    <2>6. \A n \in 1..N : n # p => list[n].id # s.id
      BY <2>1 DEF IdsDiffer
    <2>7. Listed(new) = Placed(Listed(list), s)
      BY <2>1, <2>3, <2>6 DEF Listed, Placed
    <2>8. ~(p > N)
      BY <1>1, <1>5, <1>8
    <2>. QED
      BY <1>6, <2>2, <2>3, <2>5, <2>7, <2>8 DEF PutIs
  <1>. QED
    BY <1>1, <1>5, <1>7, <1>8

LEMMA PutServersThere ==
    ASSUME NEW list \in Seq(Servers), IdsDiffer(list), NEW new \in Seq(Servers)
    PROVE  \E f : /\ PutServers(list, new) = f[Len(new)] /\ f[0] = list
                  /\ \A n \in 0..Len(new) : f[n] \in Seq(Servers) /\ IdsDiffer(f[n])
                  /\ \A n \in 1..Len(new) : f[n] = PutServer(f[n - 1], new[n])
  <1> DEFINE N == Len(new)
             C == {c \in Seq(Servers) : IdsDiffer(c)}
             step == [n \in 1..N |-> [c \in C |-> PutServer(c, new[n])]]
             Rec(g) == [n \in 0..N |-> IF n = 0 THEN list ELSE PutServer(g[n - 1], new[n])]
  <1>1. N \in Nat /\ list \in C /\ \A n \in 1..N : new[n] \in Servers
    BY ElementOfSeq
  <1>2. \A n \in 1..N, c \in C : step[n][c] = PutServer(c, new[n]) /\ PutServer(c, new[n]) \in C
    BY <1>1, PutServerIs DEF PutIs
  <1>3. step \in [1..N -> [C -> C]]
    BY <1>2
  <1>4. PICK f : Walked(C, f, list, step, N)
    <2> HIDE DEF step, N, C
    <2>. QED
      BY <1>1, <1>3, WalkThere
  <1>5. f = Rec(f)
    <2>1. ASSUME NEW n \in 0..N
          PROVE  f[n] = Rec(f)[n]
      <3>1. CASE n = 0
        BY <1>1, <1>4, <3>1 DEF Walked
      <3>2. CASE n # 0
        <4>1. n \in 1..N /\ n - 1 \in 0..N
          BY <1>1, <3>2
        <4>2. f[n] = step[n][f[n - 1]] /\ f[n - 1] \in C
          BY <1>4, <4>1 DEF Walked
        <4>. QED
          BY <1>1, <1>2, <3>2, <4>1, <4>2
      <3>. QED
        BY <3>1, <3>2
    <2>2. f = [n \in 0..N |-> f[n]]
      BY <1>4 DEF Walked
    <2>. QED
      BY <2>1, <2>2
  <1>6. PICK g : g = CHOOSE p : p = Rec(p)
    OBVIOUS
  <1>7. PutServers(list, new) = g[N]
    BY <1>6 DEF PutServers
  <1>8. g = Rec(g)
    <2> HIDE DEF Rec
    <2>. QED
      BY <1>5, <1>6, Zenon
  <1>9. \A n \in 0..N : g[n] = IF n = 0 THEN list ELSE PutServer(g[n - 1], new[n])
    <2>1. \A n \in 0..N : g[n] = Rec(g)[n]
      <3> HIDE DEF Rec
      <3>. QED
        BY <1>8, Zenon
    <2>. QED
      BY <2>1
  <1> HIDE DEF Rec, step, C
  <1>10. g[0] = list /\ \A n \in 1..N : g[n] = PutServer(g[n - 1], new[n])
    BY <1>1, <1>9
  <1>11. {n \in 0..N : g[n] \in C} = 0..N
    <2> DEFINE G == {n \in 0..N : g[n] \in C}
    <2>1. 0 \in G /\ G \in SUBSET (0..N)
      BY <1>1, <1>10
    <2>2. ASSUME NEW n \in 1..N, n - 1 \in G PROVE n \in G
      BY <1>2, <1>10, <2>2
    <2> HIDE DEF G
    <2>3. G = 0..N
      BY <1>1, <2>1, <2>2, FromBelow
    <2>. QED
      BY <2>3 DEF G
  <1>12. \A n \in 0..N : g[n] \in Seq(Servers) /\ IdsDiffer(g[n])
    BY <1>11 DEF C
  <1>. QED
    BY <1>7, <1>10, <1>12

\* Of the first n servers of an answer, the last with each id.
Lasts(new, n) == {new[k] : k \in {j \in 1..n : \A m \in 1..n : new[m].id = new[j].id => m <= j}}
\* The servers whose id is none of the first n of an answer.
Others(S, new, n) == {x \in S : \A k \in 1..n : new[k].id # x.id}

LEMMA LastsGrow ==
    ASSUME NEW new, NEW n \in Nat \ {0}, NEW S
    PROVE  Lasts(new, n) \cup Others(S, new, n) = Placed(Lasts(new, n - 1) \cup Others(S, new, n - 1), new[n])
  <1>1. \A k \in 1..n : k = n \/ k \in 1..n - 1
    OBVIOUS
  <1>2. n \in 1..n /\ \A k \in 1..n - 1 : k \in 1..n /\ k <= n /\ ~(n <= k)
    OBVIOUS
  <1>3. Lasts(new, n) = {new[n]} \cup {x \in Lasts(new, n - 1) : x.id # new[n].id}
    <2>1. new[n] \in Lasts(new, n)
      <3>1. \A m \in 1..n : m <= n
        OBVIOUS
      <3>. QED
        BY <1>2, <3>1 DEF Lasts
    <2>2. ASSUME NEW k \in 1..n - 1, \A m \in 1..n - 1 : new[m].id = new[k].id => m <= k, new[k].id # new[n].id
          PROVE  new[k] \in Lasts(new, n)
      BY <1>1, <1>2, <2>2 DEF Lasts
    <2>3. ASSUME NEW k \in 1..n, \A m \in 1..n : new[m].id = new[k].id => m <= k, k # n
          PROVE  new[k] \in Lasts(new, n - 1) /\ new[k].id # new[n].id
      BY <1>1, <1>2, <2>3 DEF Lasts
    <2>. QED
      BY <2>1, <2>2, <2>3 DEF Lasts
  <1>4. Others(S, new, n) = {x \in Others(S, new, n - 1) : x.id # new[n].id}
    BY <1>1, <1>2 DEF Others
  <1>. QED
    BY <1>3, <1>4 DEF Placed

\* The list with an answer put in: the answer's servers as it has them last, and
\* of the list those it does not speak of.
LEMMA PutServersAre ==
    ASSUME NEW list \in Seq(Servers), IdsDiffer(list), NEW new \in Seq(Servers)
    PROVE  /\ PutServers(list, new) \in Seq(Servers) /\ IdsDiffer(PutServers(list, new))
           /\ Listed(PutServers(list, new)) = Lasts(new, Len(new)) \cup Others(Listed(list), new, Len(new))
  <1> DEFINE N == Len(new)
  <1>1. N \in Nat /\ \A n \in 1..N : new[n] \in Servers
    BY ElementOfSeq
  <1>2. PICK f : /\ PutServers(list, new) = f[N] /\ f[0] = list
                 /\ \A n \in 0..N : f[n] \in Seq(Servers) /\ IdsDiffer(f[n])
                 /\ \A n \in 1..N : f[n] = PutServer(f[n - 1], new[n])
    BY PutServersThere
  <1> HIDE DEF N
  <1> DEFINE G == {n \in 0..N : Listed(f[n]) = Lasts(new, n) \cup Others(Listed(list), new, n)}
  <1>3. 0 \in G /\ G \in SUBSET (0..N)
    <2>1. 1..0 = {}
      OBVIOUS
    <2>2. Lasts(new, 0) = {} /\ Others(Listed(list), new, 0) = Listed(list)
      BY <2>1 DEF Lasts, Others
    <2>. QED
      BY <1>1, <1>2, <2>2
  <1>4. ASSUME NEW n \in 1..N, n - 1 \in G PROVE n \in G
    <2>1. n - 1 \in 0..N /\ n \in 0..N /\ n \in Nat \ {0}
      BY <1>1
    <2>2. PutIs(f[n], f[n - 1], new[n])
      BY <1>1, <1>2, <2>1, PutServerIs
    <2>3. Listed(f[n]) = Placed(Lasts(new, n - 1) \cup Others(Listed(list), new, n - 1), new[n])
      BY <1>4, <2>2 DEF PutIs
    <2>. QED
      BY <2>1, <2>3, LastsGrow
  <1> HIDE DEF G
  <1>5. G = 0..N
    BY <1>1, <1>3, <1>4, FromBelow
  <1>6. N \in 0..N
    BY <1>1
  <1>7. Listed(f[N]) = Lasts(new, N) \cup Others(Listed(list), new, N)
    BY <1>5, <1>6 DEF G
  <1>. QED
    BY <1>2, <1>6, <1>7 DEF N

-----------------------------------------------------------------------------
(* The sort.                                                               *)

\* A set of places with each earlier place of each of its own is an interval.
LEMMA FirstPlaces ==
    ASSUME NEW N \in Nat, NEW D \in SUBSET (1..N), \A m, n \in 1..N : m < n /\ n \in D => m \in D
    PROVE  Cardinality(D) \in 0..N /\ D = 1..Cardinality(D)
  <1> DEFINE H == ((1..N) \ D) \cup {N + 1}
  <1>1. PICK k \in H : \A y \in H : k <= y
    <2>1. H \in SUBSET Nat /\ H # {}
      OBVIOUS
    <2> HIDE DEF H
    <2>. QED
      BY <2>1, LeastOf
  <1>2. k \in 1..(N + 1)
    OBVIOUS
  <1>3. ASSUME NEW n \in 1..N, n < k PROVE n \in D
    BY <1>1, <1>2, <1>3
  <1>4. ASSUME NEW n \in 1..N, n >= k PROVE n \notin D
    BY <1>1, <1>2, <1>4
  <1>5. D = 1..(k - 1)
    <2>1. \A n \in 1..(k - 1) : n \in 1..N /\ n < k
      BY <1>2
    <2>2. \A n \in 1..N : n < k => n \in 1..(k - 1)
      BY <1>2
    <2>3. \A n \in 1..N : n < k \/ n >= k
      BY <1>2
    <2> HIDE DEF H
    <2>. QED
      BY <1>3, <1>4, <2>1, <2>2, <2>3
  <1>6. Cardinality(1..(k - 1)) = k - 1
    BY <1>2, FS_Interval
  <1>. QED
    BY <1>2, <1>5, <1>6

\* A list with something put in behind its first k elements.
PutBehind(list, k, s) == SubSeq(list, 1, k) \o <<s>> \o SubSeq(list, k + 1, Len(list))

PutBehindIs(new, list, k, s, T) ==
    /\ new \in Seq(T) /\ Len(new) = Len(list) + 1 /\ new[k + 1] = s
    /\ \A n \in 1..Len(list) + 1 : (n < k + 1 => new[n] = list[n]) /\ (n > k + 1 => new[n] = list[n - 1])

LEMMA PutAt ==
    ASSUME NEW T, NEW list \in Seq(T), NEW k \in 0..Len(list), NEW s \in T, NEW new, new = PutBehind(list, k, s)
    PROVE  PutBehindIs(new, list, k, s, T)
  <1>1. PICK N : N = Len(list) /\ N \in Nat /\ k \in 0..N
    OBVIOUS
  <1>2. \A n \in 1..N : list[n] \in T
    BY <1>1, ElementOfSeq
  <1>3. PICK pre : pre = SubSeq(list, 1, k)
    OBVIOUS
  <1>4. pre \in Seq(T) /\ Len(pre) = k /\ \A n \in 1..k : pre[n] = list[n]
    <2>1. k \in Int /\ 1 \in Int /\ \A n \in 1..k : list[n] \in T
      BY <1>1, <1>2
    <2>2. /\ SubSeq(list, 1, k) \in Seq(T) /\ Len(SubSeq(list, 1, k)) = IF 1 <= k THEN k - 1 + 1 ELSE 0
          /\ \A n \in 1..k - 1 + 1 : SubSeq(list, 1, k)[n] = list[1 + n - 1]
      BY ONLY <2>1, SubSeqProperties
    <2>3. k - 1 + 1 = k /\ (~(1 <= k) => k = 0) /\ \A n \in 1..k : 1 + n - 1 = n
      BY <1>1
    <2>. QED
      BY <1>3, <2>2, <2>3
  <1>5. PICK post : post = SubSeq(list, k + 1, N)
    OBVIOUS
  <1>6. post \in Seq(T) /\ Len(post) = N - k /\ \A n \in 1..N - k : post[n] = list[k + n]
    <2>1. k + 1 \in Int /\ N \in Int /\ \A n \in k + 1 .. N : list[n] \in T
      BY <1>1, <1>2
    <2>2. /\ SubSeq(list, k + 1, N) \in Seq(T)
          /\ Len(SubSeq(list, k + 1, N)) = IF k + 1 <= N THEN N - (k + 1) + 1 ELSE 0
          /\ \A n \in 1..N - (k + 1) + 1 : SubSeq(list, k + 1, N)[n] = list[(k + 1) + n - 1]
      BY ONLY <2>1, SubSeqProperties
    <2>3. N - (k + 1) + 1 = N - k /\ (~(k + 1 <= N) => N - k = 0) /\ \A n \in 1..N - k : (k + 1) + n - 1 = k + n
      BY <1>1
    <2>. QED
      BY <1>5, <2>2, <2>3
  <1>0. PICK one : one = <<s>>
    OBVIOUS
  <1>. one \in Seq(T) /\ Len(one) = 1 /\ one[1] = s
    BY <1>0
  <1>7. PICK mid : mid = pre \o one
    OBVIOUS
  <1>8. mid \in Seq(T) /\ Len(mid) = k + 1 /\ \A n \in 1..k + 1 : mid[n] = IF n <= k THEN pre[n] ELSE one[n - k]
    <2>1. /\ pre \o one \in Seq(T) /\ Len(pre \o one) = Len(pre) + Len(one)
          /\ \A n \in 1..Len(pre) + Len(one) : (pre \o one)[n] = IF n <= Len(pre) THEN pre[n] ELSE one[n - Len(pre)]
      BY <1>4, ConcatProperties
    <2>. QED
      BY <1>4, <1>7, <2>1
  <1>9. new = mid \o post
    BY <1>0, <1>1, <1>3, <1>5, <1>7 DEF PutBehind
  <1>10. /\ new \in Seq(T) /\ Len(new) = (k + 1) + (N - k)
         /\ \A n \in 1..(k + 1) + (N - k) : new[n] = IF n <= k + 1 THEN mid[n] ELSE post[n - (k + 1)]
    <2>1. /\ mid \o post \in Seq(T) /\ Len(mid \o post) = Len(mid) + Len(post)
          /\ \A n \in 1..Len(mid) + Len(post) : (mid \o post)[n] = IF n <= Len(mid) THEN mid[n] ELSE post[n - Len(mid)]
      BY <1>6, <1>8, ConcatProperties
    <2>. QED
      BY <1>6, <1>8, <1>9, <2>1
  <1>11. (k + 1) + (N - k) = N + 1
    BY <1>1
  <1>12. new[k + 1] = s
    <2>1. k + 1 \in 1..N + 1 /\ k + 1 \in 1..k + 1 /\ k + 1 <= k + 1 /\ ~(k + 1 <= k) /\ (k + 1) - k = 1
      BY <1>1
    <2>2. new[k + 1] = mid[k + 1]
      BY <1>10, <1>11, <2>1
    <2>3. mid[k + 1] = one[(k + 1) - k]
      BY <1>8, <2>1
    <2>. QED
      BY <2>1, <2>2, <2>3
  <1>13. ASSUME NEW n \in 1..N + 1, n < k + 1 PROVE new[n] = list[n]
    <2>1. n \in 1..k /\ n \in 1..k + 1 /\ n <= k + 1 /\ n <= k
      BY <1>1, <1>13
    <2>2. new[n] = mid[n]
      BY <1>10, <1>11, <2>1
    <2>3. mid[n] = pre[n]
      BY <1>8, <2>1
    <2>. QED
      BY <1>4, <2>1, <2>2, <2>3
  <1>14. ASSUME NEW n \in 1..N + 1, n > k + 1 PROVE new[n] = list[n - 1]
    <2>1. n - (k + 1) \in 1..N - k /\ k + (n - (k + 1)) = n - 1 /\ ~(n <= k + 1)
      BY <1>1, <1>14
    <2>2. new[n] = post[n - (k + 1)]
      BY <1>10, <1>11, <2>1
    <2>3. post[n - (k + 1)] = list[k + (n - (k + 1))]
      BY <1>6, <2>1
    <2>. QED
      BY <2>1, <2>2, <2>3
  <1>. QED
    BY <1>1, <1>10, <1>11, <1>12, <1>13, <1>14 DEF PutBehindIs

\* A list with a server put in by the number of its players.
SortedIs(new, list, s) ==
    /\ new \in Seq(Servers) /\ Len(new) = Len(list) + 1 /\ Falling(new)
    /\ Listed(new) = Listed(list) \cup {s}
    /\ IdsDiffer(list) /\ (\A x \in Listed(list) : x.id # s.id) => IdsDiffer(new)

LEMMA SortInIs ==
    ASSUME NEW list \in Seq(Servers), Falling(list), NEW s \in Servers
    PROVE  SortedIs(SortIn(list, s), list, s)
  <1> DEFINE N == Len(list)
             D == {n \in DOMAIN list : list[n].players >= s.players}
  <1>1. /\ N \in Nat /\ DOMAIN list = 1..N
        /\ \A n \in 1..N : list[n] \in Servers /\ list[n].players \in Nat
        /\ s.players \in Nat
    BY ElementOfSeq, BrowserAssumption DEF Servers
  <1>2. PICK k : k = Cardinality(D)
    OBVIOUS
  <1>3. k \in 0..N /\ D = 1..k
    <2>1. D \in SUBSET (1..N)
      BY <1>1
    <2>2. ASSUME NEW m \in 1..N, NEW n \in 1..N, m < n, n \in D PROVE m \in D
      BY <1>1, <2>2 DEF Falling
    <2> HIDE DEF D
    <2>. QED
      BY <1>1, <1>2, <2>1, <2>2, FirstPlaces
  <1>4. /\ \A n \in 1..k : list[n].players >= s.players
        /\ \A n \in 1..N : n > k => list[n].players <= s.players
    BY <1>1, <1>3
  <1>5. PICK new : new = PutBehind(list, k, s)
    OBVIOUS
  <1>6. SortIn(list, s) = new
    BY <1>2, <1>5 DEF SortIn, PutBehind
  <1> HIDE DEF D
  <1>7. /\ new \in Seq(Servers) /\ Len(new) = N + 1 /\ new[k + 1] = s
        /\ \A n \in 1..N + 1 : (n < k + 1 => new[n] = list[n]) /\ (n > k + 1 => new[n] = list[n - 1])
    <2>1. k \in 0..Len(list)
      BY <1>3
    <2>2. PutBehindIs(new, list, k, s, Servers)
      BY <1>5, <2>1, PutAt
    <2>. QED
      BY <2>2 DEF PutBehindIs
  <1> HIDE DEF N
  <1>8. \A n \in 1..N : (n < k + 1 => n \in 1..N + 1 /\ new[n] = list[n])
                        /\ (n >= k + 1 => n + 1 \in 1..N + 1 /\ new[n + 1] = list[n])
    <2> SUFFICES ASSUME NEW n \in 1..N
                 PROVE  (n < k + 1 => n \in 1..N + 1 /\ new[n] = list[n])
                        /\ (n >= k + 1 => n + 1 \in 1..N + 1 /\ new[n + 1] = list[n])
      OBVIOUS
    <2>1. n \in 1..N + 1 /\ n + 1 \in 1..N + 1 /\ (n >= k + 1 => n + 1 > k + 1) /\ (n + 1) - 1 = n
      BY <1>1, <1>3
    <2>. QED
      BY <1>7, <2>1
  <1>9. Falling(new)
    <2> SUFFICES ASSUME NEW m \in 1..N + 1, NEW n \in 1..N + 1, m < n
                 PROVE  new[m].players >= new[n].players
      BY <1>7 DEF Falling
    <2>0. m \in Int /\ n \in Int /\ k \in Int /\ N \in Nat /\ 1 <= m /\ n <= N + 1
      BY <1>1, <1>3
    <2>1. CASE n < k + 1
      <3>1. m \in 1..N /\ n \in 1..N /\ m < k + 1
        BY <1>3, <2>0, <2>1
      <3>. QED
        BY <1>7, <2>1, <3>1 DEF Falling, N
    <2>2. CASE n = k + 1
      <3>1. m \in 1..k /\ m < k + 1
        BY <2>0, <2>2
      <3>. QED
        BY <1>4, <1>7, <2>2, <3>1
    <2>3. CASE n > k + 1 /\ m = k + 1
      <3>1. n - 1 \in 1..N /\ n - 1 > k
        BY <1>3, <2>0, <2>3
      <3>2. list[n - 1].players <= s.players /\ list[n - 1].players \in Nat
        BY <1>1, <1>4, <3>1
      <3>3. new[m] = s /\ new[n] = list[n - 1]
        BY <1>7, <2>3
      <3>. QED
        BY <1>1, <3>2, <3>3
    <2>4. CASE n > k + 1 /\ m < k + 1
      <3>1. m \in 1..N /\ n - 1 \in 1..N /\ (m < n - 1 \/ m = n - 1)
        BY <1>3, <2>0, <2>4
      <3>2. list[m].players >= list[n - 1].players
        BY <1>1, <3>1 DEF Falling, N
      <3>. QED
        BY <1>7, <2>4, <3>2
    <2>5. CASE n > k + 1 /\ m > k + 1
      <3>1. m - 1 \in 1..N /\ n - 1 \in 1..N /\ m - 1 < n - 1
        BY <1>3, <2>0, <2>5
      <3>2. list[m - 1].players >= list[n - 1].players
        BY <3>1 DEF Falling, N
      <3>. QED
        BY <1>7, <2>5, <3>2
    <2>. QED
      BY <2>0, <2>1, <2>2, <2>3, <2>4, <2>5
  <1>10. ASSUME NEW n \in 1..N + 1
         PROVE  \/ n = k + 1
                \/ n < k + 1 /\ n \in 1..N /\ new[n] = list[n]
                \/ n > k + 1 /\ n - 1 \in 1..N /\ new[n] = list[n - 1]
    <2>0. k \in Int /\ N \in Int /\ 0 <= k /\ k <= N /\ n \in Int /\ 1 <= n /\ n <= N + 1
      BY <1>1, <1>3
    <2>1. n = k + 1 \/ (n < k + 1 /\ n \in 1..N) \/ (n > k + 1 /\ n - 1 \in 1..N)
      BY <2>0
    <2>. QED
      BY <1>7, <2>1
  <1>11. Listed(new) = Listed(list) \cup {s}
    <2>1. \A n \in 1..N + 1 : new[n] \in Listed(list) \cup {s}
      BY <1>7, <1>10 DEF Listed, N
    <2>2. s \in Listed(new)
      <3>1. k + 1 \in 1..N + 1
        BY <1>1, <1>3
      <3>. QED
        BY <1>7, <3>1 DEF Listed
    <2>3. ASSUME NEW n \in 1..N PROVE list[n] \in Listed(new)
      <3>1. n < k + 1 \/ n >= k + 1
        BY <1>1, <1>3
      <3>. QED
        BY <1>7, <1>8, <3>1 DEF Listed
    <2>. QED
      BY <1>7, <2>1, <2>2, <2>3 DEF Listed, N
  <1>12. ASSUME IdsDiffer(list), \A x \in Listed(list) : x.id # s.id
         PROVE  IdsDiffer(new)
    <2>1. \A n \in 1..N : list[n].id # s.id
      BY <1>12 DEF Listed, N
    <2>2. \A m, n \in 1..N : list[m].id = list[n].id => m = n
      BY <1>12 DEF IdsDiffer, N
    <2> SUFFICES ASSUME NEW m \in 1..N + 1, NEW n \in 1..N + 1, new[m].id = new[n].id
                 PROVE  m = n
      BY <1>7 DEF IdsDiffer
    <2>3. m \in Int /\ n \in Int /\ k \in Int
      BY <1>1, <1>3
    <2>4. CASE m = k + 1
      BY <1>7, <1>10, <2>1, <2>4
    <2>5. CASE n = k + 1
      BY <1>7, <1>10, <2>1, <2>5
    <2>6. CASE m # k + 1 /\ n # k + 1
      <3> DEFINE Was(x) == IF x < k + 1 THEN x ELSE x - 1
      <3>1. ASSUME NEW x \in 1..N + 1, x # k + 1 PROVE Was(x) \in 1..N /\ list[Was(x)] = new[x]
        <4>1. (x < k + 1 /\ x \in 1..N /\ new[x] = list[x]) \/ (x > k + 1 /\ x - 1 \in 1..N /\ new[x] = list[x - 1])
          BY <1>10, <3>1, Zenon
        <4>2. x > k + 1 => ~(x < k + 1)
          BY <2>3
        <4>. QED
          BY <4>1, <4>2
      <3>2. Was(m) = Was(n)
        <4>1. Was(m) \in 1..N /\ Was(n) \in 1..N /\ list[Was(m)] = new[m] /\ list[Was(n)] = new[n]
          BY <2>6, <3>1
        <4> HIDE DEF Was
        <4>. QED
          BY <2>2, <4>1
      <3>. QED
        BY <2>3, <2>6, <3>2
    <2>. QED
      BY <2>4, <2>5, <2>6
  <1>. QED
    BY <1>6, <1>7, <1>9, <1>11, <1>12 DEF SortedIs, N

FirstOf(list, n) == {list[k] : k \in 1..n}

LEMMA SortedThere ==
    ASSUME NEW list \in Seq(Servers)
    PROVE  \E f : /\ Sorted(list) = f[Len(list)] /\ f[0] = <<>>
                  /\ \A n \in 0..Len(list) : f[n] \in Seq(Servers) /\ Falling(f[n])
                  /\ \A n \in 1..Len(list) : f[n] = SortIn(f[n - 1], list[n])
  <1> DEFINE N == Len(list)
             C == {c \in Seq(Servers) : Falling(c)}
             step == [n \in 1..N |-> [c \in C |-> SortIn(c, list[n])]]
             Rec(g) == [n \in 0..N |-> IF n = 0 THEN <<>> ELSE SortIn(g[n - 1], list[n])]
  <1>1. N \in Nat /\ <<>> \in C /\ \A n \in 1..N : list[n] \in Servers
    <2>1. Falling(<<>>)
      BY DEF Falling
    <2>. QED
      BY <2>1, ElementOfSeq
  <1>2. \A n \in 1..N, c \in C : step[n][c] = SortIn(c, list[n]) /\ SortIn(c, list[n]) \in C
    BY <1>1, SortInIs DEF SortedIs
  <1>3. step \in [1..N -> [C -> C]]
    BY <1>2
  <1>4. PICK f : Walked(C, f, <<>>, step, N)
    <2> HIDE DEF step, N, C
    <2>. QED
      BY <1>1, <1>3, WalkThere
  <1>5. f = Rec(f)
    <2>1. ASSUME NEW n \in 0..N
          PROVE  f[n] = Rec(f)[n]
      <3>1. CASE n = 0
        BY <1>1, <1>4, <3>1 DEF Walked
      <3>2. CASE n # 0
        <4>1. n \in 1..N /\ n - 1 \in 0..N
          BY <1>1, <3>2
        <4>2. f[n] = step[n][f[n - 1]] /\ f[n - 1] \in C
          BY <1>4, <4>1 DEF Walked
        <4>. QED
          BY <1>1, <1>2, <3>2, <4>1, <4>2
      <3>. QED
        BY <3>1, <3>2
    <2>2. f = [n \in 0..N |-> f[n]]
      BY <1>4 DEF Walked
    <2>. QED
      BY <2>1, <2>2
  <1>6. PICK g : g = CHOOSE p : p = Rec(p)
    OBVIOUS
  <1>7. Sorted(list) = g[N]
    BY <1>6 DEF Sorted
  <1>8. g = Rec(g)
    <2> HIDE DEF Rec
    <2>. QED
      BY <1>5, <1>6, Zenon
  <1>9. \A n \in 0..N : g[n] = IF n = 0 THEN <<>> ELSE SortIn(g[n - 1], list[n])
    <2>1. \A n \in 0..N : g[n] = Rec(g)[n]
      <3> HIDE DEF Rec
      <3>. QED
        BY <1>8, Zenon
    <2>. QED
      BY <2>1
  <1> HIDE DEF Rec, step, C
  <1>10. g[0] = <<>> /\ \A n \in 1..N : g[n] = SortIn(g[n - 1], list[n])
    BY <1>1, <1>9
  <1>11. {n \in 0..N : g[n] \in C} = 0..N
    <2> DEFINE G == {n \in 0..N : g[n] \in C}
    <2>1. 0 \in G /\ G \in SUBSET (0..N)
      BY <1>1, <1>10
    <2>2. ASSUME NEW n \in 1..N, n - 1 \in G PROVE n \in G
      BY <1>2, <1>10, <2>2
    <2> HIDE DEF G
    <2>3. G = 0..N
      BY <1>1, <2>1, <2>2, FromBelow
    <2>. QED
      BY <2>3 DEF G
  <1>12. \A n \in 0..N : g[n] \in Seq(Servers) /\ Falling(g[n])
    BY <1>11 DEF C
  <1>. QED
    BY <1>7, <1>10, <1>12

\* The sort loses nothing, adds nothing and puts the most players first.
LEMMA SortedAre ==
    ASSUME NEW list \in Seq(Servers), IdsDiffer(list)
    PROVE  /\ Sorted(list) \in Seq(Servers) /\ Falling(Sorted(list)) /\ IdsDiffer(Sorted(list))
           /\ Len(Sorted(list)) = Len(list) /\ Listed(Sorted(list)) = Listed(list)
  <1>1. PICK f : /\ Sorted(list) = f[Len(list)] /\ f[0] = <<>>
                 /\ \A n \in 0..Len(list) : f[n] \in Seq(Servers) /\ Falling(f[n])
                 /\ \A n \in 1..Len(list) : f[n] = SortIn(f[n - 1], list[n])
    BY SortedThere
  <1>2. PICK N : N = Len(list) /\ N \in Nat
    OBVIOUS
  <1> DEFINE G == {n \in 0..N : Len(f[n]) = n /\ Listed(f[n]) = FirstOf(list, n) /\ IdsDiffer(f[n])}
  <1>3. 0 \in G /\ G \in SUBSET (0..N)
    <2>1. PICK none : none = <<>>
      OBVIOUS
    <2>2. Len(none) = 0 /\ 1..0 = {}
      BY <2>1
    <2>3. Listed(none) = {} /\ IdsDiffer(none) /\ FirstOf(list, 0) = {}
      BY <2>2 DEF Listed, IdsDiffer, FirstOf
    <2>4. f[0] = none /\ 0 \in 0..N
      BY <1>1, <1>2, <2>1
    <2>. QED
      BY <2>2, <2>3, <2>4
  <1>4. ASSUME NEW n \in 1..N, n - 1 \in G PROVE n \in G
    <2>1. n - 1 \in 0..N /\ n \in 0..N /\ n \in 1..Len(list)
      BY <1>2
    <2>2. SortedIs(f[n], f[n - 1], list[n])
      <3>1. f[n - 1] \in Seq(Servers) /\ Falling(f[n - 1]) /\ list[n] \in Servers /\ f[n] = SortIn(f[n - 1], list[n])
        BY <1>1, <1>2, <2>1, ElementOfSeq
      <3>. QED
        BY <3>1, SortInIs
    <2>3. Len(f[n - 1]) = n - 1 /\ Listed(f[n - 1]) = FirstOf(list, n - 1) /\ IdsDiffer(f[n - 1])
      BY <1>4
    <2>4. \A x \in FirstOf(list, n - 1) : x.id # list[n].id
      <3> SUFFICES ASSUME NEW k \in 1..n - 1 PROVE list[k].id # list[n].id
        BY DEF FirstOf
      <3>1. k \in 1..Len(list) /\ k # n
        BY <1>2
      <3>. QED
        BY <2>1, <3>1 DEF IdsDiffer
    <2>5. FirstOf(list, n) = FirstOf(list, n - 1) \cup {list[n]}
      <3>1. 1..n = (1..n - 1) \cup {n}
        BY <1>2
      <3>. QED
        BY <3>1 DEF FirstOf
    <2>6. Len(f[n]) = n
      <3>1. Len(f[n]) = n - 1 + 1
        BY <2>2, <2>3 DEF SortedIs
      <3>. QED
        BY <1>2, <3>1
    <2>7. Listed(f[n]) = FirstOf(list, n) /\ IdsDiffer(f[n])
      BY <2>2, <2>3, <2>4, <2>5 DEF SortedIs
    <2>. QED
      BY <2>1, <2>6, <2>7
  <1>5. N \in G
    <2> HIDE DEF G
    <2>1. G = 0..N
      BY <1>2, <1>3, <1>4, FromBelow
    <2>. QED
      BY <1>2, <2>1
  <1>6. FirstOf(list, N) = Listed(list)
    BY <1>2 DEF FirstOf, Listed
  <1>7. N \in 0..Len(list)
    BY <1>2
  <1>. QED
    BY <1>1, <1>2, <1>5, <1>6, <1>7

\* The list after a merge: the answer's servers as it has them last, and of the
\* list those it does not speak of; most players first, and no id twice.
MergedIs(list, into, new) ==
    /\ list \in Seq(Servers) /\ IdsDiffer(list) /\ Falling(list)
    /\ Listed(list) = Lasts(new, Len(new)) \cup Others(Listed(into), new, Len(new))

LEMMA MergeIs ==
    ASSUME NEW into \in Seq(Servers), IdsDiffer(into), NEW new \in Seq(Servers)
    PROVE  MergedIs(MergeServerList(into, new), into, new)
  BY PutServersAre, SortedAre DEF MergedIs, MergeServerList

-----------------------------------------------------------------------------
(* The server browser (ServerBrowser).                                      *)

\* A request is under way as long as its worker is, and nothing else.
WorkersRequest ==
    /\ fetchState \in {"idle", "requesting", "ready"}
    /\ listWorker \in [at: {"none", "started", "cleared", "answered"}, answer: Answers]
    /\ fetchState = "requesting" <=> listWorker.at # "none"

\* What the worker is about to hand over, and what it has, is its answer's,
\* unless the request failed to start.
HandedOverWhole ==
    /\ listWorker.at = "answered" =>
          fetched = Parsed(listWorker.answer) /\ fetchOk = Parses(listWorker.answer)
    /\ Taken /\ fetchOk =>
          fetched = Parsed(listWorker.answer) /\ Parses(listWorker.answer)

\* The script was shown the list as it is, and nothing can change that yet.
ShownAsListed == current => servers = shown /\ fetchState = "idle"

BrowserInv == WorkersRequest /\ HandedOverWhole /\ ShownAsListed

LEMMA BrowserInitInv == BrowserInit => BrowserInv
  <1> SUFFICES ASSUME BrowserInit PROVE BrowserInv
    OBVIOUS
  <1>1. NoAnswer \in Answers
    <2>1. \E a \in Answers : ~a.got
      <3>1. [got |-> FALSE, root |-> "", items |-> <<>>, closed |-> FALSE] \in Answers
        BY DEF Answers
      <3> QED
        BY <3>1
    <2> QED
      BY <2>1 DEF NoAnswer
  <1>2. WorkersRequest
    BY <1>1 DEF BrowserInit, WorkersRequest
  <1> QED
    BY <1>2 DEF BrowserInit, BrowserInv, HandedOverWhole, ShownAsListed, Taken

LEMMA WorkerStepsKeep == BrowserInv /\ WorkerSteps => BrowserInv'
  <1> SUFFICES ASSUME BrowserInv, WorkerSteps PROVE BrowserInv'
    OBVIOUS
  <1> USE DEF BrowserInv, WorkersRequest, HandedOverWhole, ShownAsListed, Taken
  <1>1. CASE WorkerClears
    BY <1>1 DEF WorkerClears
  <1>2. ASSUME NEW a \in Answers, WorkerParses(a) PROVE BrowserInv'
    BY <1>2 DEF WorkerParses
  <1>3. CASE WorkerHandsOver
    BY <1>3 DEF WorkerHandsOver
  <1> QED
    BY <1>1, <1>2, <1>3 DEF WorkerSteps

LEMMA RequestServersKeeps ==
  ASSUME BrowserInv, NEW starts \in BOOLEAN, RequestServers(starts) PROVE BrowserInv'
  <1> USE DEF BrowserInv, WorkersRequest, HandedOverWhole, ShownAsListed, Taken
  <1>1. CASE StateNow # "idle"
    BY <1>1 DEF RequestServers, PublishFetchedServers, StateNow
  <1>2. CASE StateNow = "idle" /\ starts
    BY <1>2 DEF RequestServers, StateNow
  <1>3. CASE StateNow = "idle" /\ ~starts
    BY <1>3 DEF RequestServers, StateNow
  <1> QED
    BY <1>1, <1>2, <1>3

LEMMA NativesKeep ==
  ASSUME BrowserInv,
         PollList \/ ClearServers \/ GameServers \/ \E n \in 1..Len(ListNow) : TryRemoteAuth(n)
  PROVE  BrowserInv'
  <1> USE DEF BrowserInv, WorkersRequest, HandedOverWhole, ShownAsListed, Taken, StateNow
  <1>1. CASE PollList
    BY <1>1 DEF PollList, ListNow
  <1>2. CASE ClearServers
    BY <1>2 DEF ClearServers, PublishFetchedServers
  <1>3. CASE GameServers
    BY <1>3 DEF GameServers, PublishFetchedServers, ListGiven
  <1>4. ASSUME NEW n \in 1..Len(ListNow), TryRemoteAuth(n) PROVE BrowserInv'
    BY <1>4 DEF TryRemoteAuth, PublishFetchedServers, ListNow
  <1> QED
    BY <1>1, <1>2, <1>3, <1>4

LEMMA BrowserStepInv == BrowserInv /\ [BrowserNext]_browserVars => BrowserInv'
  <1> SUFFICES ASSUME BrowserInv, [BrowserNext]_browserVars PROVE BrowserInv'
    OBVIOUS
  <1>1. CASE UNCHANGED browserVars
    BY <1>1 DEF browserVars, BrowserInv, WorkersRequest, HandedOverWhole, ShownAsListed, Taken
  <1>2. CASE BrowserNext
    BY <1>2, WorkerStepsKeep, RequestServersKeeps, NativesKeep DEF BrowserNext, WorkerSteps
  <1> QED
    BY <1>1, <1>2

LEMMA BrowserStepJoins ==
  BrowserInv /\ [BrowserNext]_browserVars =>
      [\A n \in DOMAIN shown : TryRemoteAuth(n) /\ current => joined'.id = shown[n].id]_browserVars
  <1> SUFFICES ASSUME BrowserInv, NEW n \in DOMAIN shown, TryRemoteAuth(n), current
               PROVE  joined'.id = shown[n].id
    OBVIOUS
  <1>1. ListNow = shown
    BY DEF BrowserInv, ShownAsListed, ListNow, Taken
  <1> QED
    BY <1>1 DEF TryRemoteAuth

-----------------------------------------------------------------------------
(* What the list holds (ServerBrowser).                                     *)

ListInv == BrowserTypeOK /\ IdsDiffer(servers) /\ Falling(servers)

LEMMA NoServers == <<>> \in Seq(Servers) /\ IdsDiffer(<<>>) /\ Falling(<<>>)
  <1>1. PICK none : none = <<>>
    OBVIOUS
  <1>2. none \in Seq(Servers) /\ Len(none) = 0
    BY <1>1
  <1>3. IdsDiffer(none) /\ Falling(none)
    BY <1>2 DEF IdsDiffer, Falling
  <1>. QED
    BY <1>1, <1>2, <1>3

\* What the worker parsed is a list of servers.
LEMMA ParsedType == ASSUME NEW a \in Answers PROVE Parsed(a) \in Seq(Servers)
  <1>1. CASE Parses(a)
    <2>1. a.items \in BoundedSeq(Items, MaxItems)
      <3> DEFINE Kept == BoundedSeq(Items, MaxItems)
      <3>1. a.root = "["
        BY <1>1 DEF Parses
      <3>5. Answers = {[got |-> FALSE, root |-> "", items |-> <<>>, closed |-> FALSE],
                       [got |-> TRUE, root |-> "{", items |-> <<>>, closed |-> TRUE]}
                      \cup [got: {TRUE}, root: {"["}, items: Kept, closed: BOOLEAN]
        BY DEF Answers
      <3> HIDE DEF Kept
      <3>2. \/ a = [got |-> FALSE, root |-> "", items |-> <<>>, closed |-> FALSE]
            \/ a = [got |-> TRUE, root |-> "{", items |-> <<>>, closed |-> TRUE]
            \/ a \in [got: {TRUE}, root: {"["}, items: Kept, closed: BOOLEAN]
        <4> DEFINE Broken == [got |-> FALSE, root |-> "", items |-> <<>>, closed |-> FALSE]
                   Single == [got |-> TRUE, root |-> "{", items |-> <<>>, closed |-> TRUE]
                   Arrays == [got: {TRUE}, root: {"["}, items: Kept, closed: BOOLEAN]
        <4>1. a \in {Broken, Single} \cup Arrays
          BY <3>5
        <4> HIDE DEF Broken, Single, Arrays
        <4>2. a = Broken \/ a = Single \/ a \in Arrays
          BY <4>1
        <4>. QED
          BY <4>2 DEF Broken, Single, Arrays
      <3>3. a \in [got: {TRUE}, root: {"["}, items: Kept, closed: BOOLEAN]
        <4>1. ASSUME a = [got |-> FALSE, root |-> "", items |-> <<>>, closed |-> FALSE] PROVE FALSE
          <5>1. a.root = ""
            BY <4>1
          <5>. QED
            BY <3>1, <5>1
        <4>2. ASSUME a = [got |-> TRUE, root |-> "{", items |-> <<>>, closed |-> TRUE] PROVE FALSE
          <5>1. a.root = "{"
            BY <4>2
          <5>. QED
            BY <3>1, <5>1
        <4>. QED
          BY <3>2, <4>1, <4>2, Zenon
      <3>4. a.items \in Kept
        BY <3>3
      <3>. QED
        BY <3>4 DEF Kept
    <2>2. a.items \in Seq(Items)
      BY <2>1, BrowserAssumption DEF BoundedSeq, SeqOf
    <2>3. PICK list : list = a.items
      OBVIOUS
    <2>4. Only(list, Servers) \in Seq(Items \cap Servers)
      BY <2>2, <2>3, OnlyType
    <2>5. Items \cap Servers = Servers
      BY DEF Servers
    <2>. QED
      BY <1>1, <2>3, <2>4, <2>5 DEF Parsed
  <1>2. CASE ~Parses(a)
    BY <1>2 DEF Parsed
  <1>. QED
    BY <1>1, <1>2

LEMMA ListNowHolds ==
    ListInv => ListNow \in Seq(Servers) /\ IdsDiffer(ListNow) /\ Falling(ListNow)
  <1> SUFFICES ASSUME ListInv
               PROVE  ListNow \in Seq(Servers) /\ IdsDiffer(ListNow) /\ Falling(ListNow)
    OBVIOUS
  <1>1. /\ servers \in Seq(Servers) /\ IdsDiffer(servers) /\ Falling(servers)
        /\ fetched \in Seq(Servers)
    BY DEF ListInv, BrowserTypeOK
  <1>2. MergedIs(MergeServerList(servers, fetched), servers, fetched)
    BY <1>1, MergeIs
  <1>. QED
    BY <1>1, <1>2 DEF MergedIs, ListNow

LEMMA ListInitInv == BrowserInit => ListInv
  <1> SUFFICES ASSUME BrowserInit PROVE ListInv
    OBVIOUS
  <1>1. listWorker.at = "none" /\ listWorker.answer \in Answers
    BY BrowserInitInv DEF BrowserInit, BrowserInv, WorkersRequest
  <1>2. joined.id = ""
    BY DEF BrowserInit
  <1>3. 0 \in 0..MaxListRequests
    BY BrowserAssumption
  <1>. QED
    BY <1>1, <1>2, <1>3, NoServers DEF BrowserInit, ListInv, BrowserTypeOK

\* What each step leaves the list and the variables it is handed over in.
LEMMA WorkerStepsList == BrowserInv /\ ListInv /\ WorkerSteps => ListInv'
  <1> SUFFICES ASSUME BrowserInv, ListInv, WorkerSteps PROVE ListInv'
    OBVIOUS
  <1>1. UNCHANGED <<servers, reachable, shown, current, joined, listRequests>>
    BY DEF WorkerSteps, WorkerClears, WorkerParses, WorkerHandsOver
  <1>2. IdsDiffer(servers') /\ Falling(servers')
    BY <1>1 DEF ListInv
  <1>3. fetched' \in Seq(Servers)
    <2>1. CASE WorkerClears
      BY <2>1, NoServers DEF WorkerClears
    <2>2. ASSUME NEW a \in Answers, WorkerParses(a) PROVE fetched' \in Seq(Servers)
      BY <2>2, ParsedType DEF WorkerParses
    <2>3. CASE WorkerHandsOver
      BY <2>3 DEF WorkerHandsOver, ListInv, BrowserTypeOK
    <2>. QED
      BY <2>1, <2>2, <2>3 DEF WorkerSteps
  <1>4. fetchOk' \in BOOLEAN
    <2>1. CASE WorkerClears
      BY <2>1 DEF WorkerClears
    <2>2. ASSUME NEW a \in Answers, WorkerParses(a) PROVE fetchOk' \in BOOLEAN
      <3>1. Parses(a) \in BOOLEAN
        BY DEF Parses
      <3>. QED
        BY <2>2, <3>1 DEF WorkerParses
    <2>3. CASE WorkerHandsOver
      BY <2>3 DEF WorkerHandsOver, ListInv, BrowserTypeOK
    <2>. QED
      BY <2>1, <2>2, <2>3 DEF WorkerSteps
  <1>5. WorkersRequest'
    BY WorkerStepsKeep DEF BrowserInv
  <1>. QED
    BY <1>1, <1>2, <1>3, <1>4, <1>5 DEF ListInv, BrowserTypeOK, WorkersRequest

LEMMA PublishingList ==
    ASSUME ListInv, PublishFetchedServers PROVE fetched' \in Seq(Servers) /\ reachable' \in {"unknown", "yes", "no"}
  BY NoServers DEF PublishFetchedServers, ListInv, BrowserTypeOK

LEMMA RequestServersList ==
  ASSUME BrowserInv, ListInv, NEW starts \in BOOLEAN, RequestServers(starts) PROVE ListInv'
  <1>1. PublishFetchedServers /\ servers' = ListNow /\ current' = FALSE /\ UNCHANGED <<shown, joined>>
    BY DEF RequestServers
  <1>2. servers' \in Seq(Servers) /\ IdsDiffer(servers') /\ Falling(servers')
    BY <1>1, ListNowHolds
  <1>3. fetchOk' \in BOOLEAN /\ listRequests' \in 0..MaxListRequests
    <2>1. fetchOk \in BOOLEAN /\ listRequests \in 0..MaxListRequests
      BY DEF ListInv, BrowserTypeOK
    <2>2. listRequests < MaxListRequests => listRequests + 1 \in 0..MaxListRequests
      BY <2>1, BrowserAssumption
    <2>. QED
      BY <2>1, <2>2 DEF RequestServers
  <1>4. WorkersRequest'
    BY RequestServersKeeps DEF BrowserInv
  <1>5. fetched' \in Seq(Servers) /\ reachable' \in {"unknown", "yes", "no"}
    BY <1>1, PublishingList
  <1>. QED
    BY <1>1, <1>2, <1>3, <1>4, <1>5 DEF ListInv, BrowserTypeOK, WorkersRequest

LEMMA NativesList ==
  ASSUME BrowserInv, ListInv,
         PollList \/ ClearServers \/ GameServers \/ \E n \in 1..Len(ListNow) : TryRemoteAuth(n)
  PROVE  ListInv'
  <1>1. PublishFetchedServers /\ UNCHANGED <<fetchOk, listRequests>>
    BY DEF PollList, ClearServers, GameServers, TryRemoteAuth
  <1>2. servers' \in Seq(Servers) /\ IdsDiffer(servers') /\ Falling(servers')
    <2>1. servers' = ListNow \/ servers' = <<>>
      BY DEF PollList, ClearServers, GameServers, TryRemoteAuth
    <2>2. CASE servers' = ListNow
      BY <2>2, ListNowHolds
    <2>3. CASE servers' = <<>>
      BY <2>3, NoServers
    <2>. QED
      BY <2>1, <2>2, <2>3
  <1>3. shown' \in Seq(Servers) /\ current' \in BOOLEAN
    <2>1. shown' = shown \/ shown' = ListNow
      BY DEF PollList, ClearServers, GameServers, TryRemoteAuth, ListGiven
    <2>2. current' = current \/ current' = FALSE \/ current' = (StateNow = "idle")
      BY DEF PollList, ClearServers, GameServers, TryRemoteAuth
    <2>. QED
      BY <2>1, <2>2, ListNowHolds DEF ListInv, BrowserTypeOK
  <1>4. joined'.id \in {i.id : i \in Items} \cup {""}
    <2>1. CASE joined' = joined
      BY <2>1 DEF ListInv, BrowserTypeOK
    <2>2. ASSUME NEW n \in 1..Len(ListNow), TryRemoteAuth(n) PROVE joined'.id \in {i.id : i \in Items} \cup {""}
      <3>1. ListNow[n] \in Items
        <4>1. ListNow[n] \in Servers
          BY ListNowHolds, ElementOfSeq
        <4>. QED
          BY <4>1 DEF Servers
      <3>2. joined'.id = ListNow[n].id
        BY <2>2 DEF TryRemoteAuth
      <3>. QED
        BY <3>1, <3>2
    <2>3. joined' = joined \/ \E n \in 1..Len(ListNow) : TryRemoteAuth(n)
      BY DEF PollList, ClearServers, GameServers
    <2>. QED
      BY <2>1, <2>2, <2>3
  <1>5. WorkersRequest'
    BY NativesKeep DEF BrowserInv
  <1>6. fetched' \in Seq(Servers) /\ reachable' \in {"unknown", "yes", "no"}
    BY <1>1, PublishingList
  <1>. QED
    BY <1>1, <1>2, <1>3, <1>4, <1>5, <1>6 DEF ListInv, BrowserTypeOK, WorkersRequest

LEMMA ListStepInv == BrowserInv /\ ListInv /\ [BrowserNext]_browserVars => ListInv'
  <1> SUFFICES ASSUME BrowserInv, ListInv, [BrowserNext]_browserVars PROVE ListInv'
    OBVIOUS
  <1>1. CASE UNCHANGED browserVars
    BY <1>1 DEF browserVars, ListInv, BrowserTypeOK
  <1>2. CASE BrowserNext
    BY <1>2, WorkerStepsList, RequestServersList, NativesList DEF BrowserNext, WorkerSteps
  <1>. QED
    BY <1>1, <1>2

LEMMA ListSorted == ListInv => ListIsSorted
  <1> SUFFICES ASSUME ListInv, NEW m \in 1..Len(servers), NEW n \in 1..Len(servers), m < n
               PROVE  servers[m].id # servers[n].id /\ servers[m].players >= servers[n].players
    BY DEF ListIsSorted
  <1>1. m # n
    OBVIOUS
  <1>. QED
    BY <1>1 DEF ListInv, IdsDiffer, Falling

LEMMA ListStepTakesWhole ==
  BrowserInv /\ ListInv /\ [BrowserNext]_browserVars => [TakesWhole]_browserVars
  <1> SUFFICES ASSUME BrowserInv, ListInv, Taken, PollList \/ GameServers PROVE TakesWhole
    BY DEF TakesWhole
  <1>1. PICK new : new = Parsed(listWorker.answer)
    OBVIOUS
  <1>2. servers' = IF fetchOk THEN MergeServerList(servers, new) ELSE servers
    BY <1>1 DEF BrowserInv, HandedOverWhole, PollList, GameServers, ListNow
  <1>3. CASE ~fetchOk
    BY <1>2, <1>3 DEF TakesWhole
  <1>4. CASE fetchOk
    <2>1. new \in Seq(Servers)
      BY <1>1, ParsedType DEF BrowserInv, WorkersRequest
    <2>2. MergedIs(servers', servers, new)
      BY <1>2, <1>4, <2>1, MergeIs DEF ListInv, BrowserTypeOK
    <2> DEFINE NewOf(id) == {n \in 1..Len(new) : new[n].id = id}
    <2>3. Lasts(new, Len(new)) = {new[n] : n \in {k \in 1..Len(new) : \A m \in NewOf(new[k].id) : m <= k}}
      BY DEF Lasts
    <2>4. Others(Listed(servers), new, Len(new)) = {s \in Listed(servers) : NewOf(s.id) = {}}
      BY DEF Others
    <2>5. Listed(servers') = Lasts(new, Len(new)) \cup Others(Listed(servers), new, Len(new))
      BY <2>2 DEF MergedIs
    <2>6. Listed(servers') = {new[n] : n \in {k \in 1..Len(new) : \A m \in NewOf(new[k].id) : m <= k}}
                             \cup {s \in Listed(servers) : NewOf(s.id) = {}}
      BY <2>3, <2>4, <2>5
    <2>. QED
      BY <1>1, <1>4, <2>6 DEF TakesWhole
  <1>. QED
    BY <1>3, <1>4

-----------------------------------------------------------------------------
(* The parts side by side.  Whichever of them runs, each starts as its own *)
(* specification says and each step is one of its own or leaves it alone.  *)

LEMMA RequestPartsStart == RequestsInit => Init /\ ScriptCallsInit /\ BrowserInit
  BY DEF RequestsInit

LEMMA RequestPartsStep ==
    [RequestsNext]_requestsVars =>
        [Next]_vars /\ [ScriptCallsNext]_scriptCallsVars /\ [BrowserNext]_browserVars
  <1>1. CASE RequestsNext
    BY <1>1 DEF RequestsNext
  <1>2. CASE UNCHANGED requestsVars
    BY <1>2 DEF requestsVars
  <1> QED
    BY <1>1, <1>2

\* JoinsAsOneself: the identity is one account's whenever nobody writes it, a
\* record holds its account's save, and a connect carries the account Atlas made
\* its token for, for any accounts, helpers, tokens, pushes and requests
\* (runtime_server_join.inl, runtime_auth.inl, runtime_signin.inl).
THEOREM OneJoinsAsOneself == RequestsSpec => JoinsAsOneself
  <1>1. RequestsInit => JoinInv
    BY RequestPartsStart, JoinInitInv
  <1>2. JoinInv /\ [RequestsNext]_requestsVars => JoinInv'
    BY RequestPartsStep, JoinStepInv
  <1>3. JoinInv => (part = "join" => IdentityWhole /\ RecordsOwnSave)
    BY JoinSound
  <1>4. JoinInv /\ [RequestsNext]_requestsVars =>
            [CompleteAuth => platformUid' = serverFilter' \/ changed["join"]]_vars
    BY RequestPartsStep, StepConnects
  <1> QED
    BY <1>1, <1>2, <1>3, <1>4, PTL DEF RequestsSpec, JoinsAsOneself, ConnectsAsAuthenticated

\* CallsReachTheAsker: no binding outlives its VM and the server's mods are
\* initialized once per VM; a result is called into the VM that asked for it and
\* no other, and is not lost while that VM lives, for any contexts, addresses,
\* VMs and requests (runtime_http_script.inl, runtime_save_files.inl,
\* runtime_vm_lifecycle.inl).
THEOREM CallsReachTheirAsker == RequestsSpec => CallsReachTheAsker
  <1>1. RequestsInit => CallsInv
    BY RequestPartsStart, CallsInitInv
  <1>2. CallsInv /\ [RequestsNext]_requestsVars => CallsInv'
    BY RequestPartsStep, CallsStepInv
  <1>3. CallsInv => (part = "calls" => LifecycleFollowsTheVm)
    BY LifecycleFollows
  <1>4. CallsInv /\ [RequestsNext]_requestsVars => [GoToTheAsker]_scriptCallsVars
    BY RequestPartsStep, ResultsStepToTheAsker
  <1> QED
    BY <1>1, <1>2, <1>3, <1>4, PTL DEF RequestsSpec, CallsReachTheAsker, ResultsGoToTheAsker

\* RequestsTypeOK: the types of what the joins, the scripts' calls and the
\* server list keep, for any values of the constants.
THEOREM RequestsAreTyped == RequestsSpec => []RequestsTypeOK
  <1>1. RequestsInit => JoinInv /\ CallsInv /\ BrowserInv /\ ListInv
    BY RequestPartsStart, JoinInitInv, CallsInitInv, BrowserInitInv, ListInitInv
  <1>2. JoinInv /\ CallsInv /\ BrowserInv /\ ListInv /\ [RequestsNext]_requestsVars =>
            JoinInv' /\ CallsInv' /\ BrowserInv' /\ ListInv'
    BY RequestPartsStep, JoinStepInv, CallsStepInv, BrowserStepInv, ListStepInv
  <1>3. JoinInv /\ CallsInv /\ ListInv => RequestsTypeOK
    BY DEF JoinInv, CallsInv, ListInv, RequestsTypeOK
  <1> QED
    BY <1>1, <1>2, <1>3, PTL DEF RequestsSpec

\* BrowserSound: the list has every server once, the fullest first; a native
\* lists the servers of a good answer as that answer has them, keeps the others,
\* and changes nothing after a bad one, although the worker and the UI share
\* `fetched` without a lock; and as long as the script asked for nothing since
\* it was given the list, a join by place goes to the server it was shown there.
\* For any servers, answers and number of requests, in any order of their steps
\* (runtime_server_list.inl, server_list.h, runtime_server_join.inl).
THEOREM TheListIsSound == RequestsSpec => BrowserSound
  <1>1. RequestsInit => BrowserInv /\ ListInv
    BY RequestPartsStart, BrowserInitInv, ListInitInv
  <1>2. BrowserInv /\ ListInv /\ [RequestsNext]_requestsVars => BrowserInv' /\ ListInv'
    BY RequestPartsStep, BrowserStepInv, ListStepInv
  <1>3. ListInv => (part = "list" => ListIsSorted)
    BY ListSorted
  <1>4. BrowserInv /\ ListInv /\ [RequestsNext]_requestsVars => [TakesWhole]_browserVars
    BY RequestPartsStep, ListStepTakesWhole
  <1>5. BrowserInv /\ [RequestsNext]_requestsVars =>
            [\A n \in DOMAIN shown : TryRemoteAuth(n) /\ current => joined'.id = shown[n].id]_browserVars
    BY RequestPartsStep, BrowserStepJoins
  <1> QED
    BY <1>1, <1>2, <1>3, <1>4, <1>5, PTL
    DEF RequestsSpec, BrowserSound, BrowserAnswers, AnswersAreTakenWhole, JoinsTheServerShown

=============================================================================
