--------------------------- MODULE AtlasIdentity ---------------------------
(***************************************************************************)
(* The Atlas identity of the console: its account, player token and the    *)
(* PC helper it is paired with. The sign-in listener replaces it when a    *)
(* helper pushes one; a request worker whose token Atlas refused replaces  *)
(* the token by one the helper mints. Both hold g_atlasRefreshBusy while   *)
(* they write, but the workers read without it. A text that is being       *)
(* overwritten reads as Torn. The requests themselves are in ServerJoin.   *)
(***************************************************************************)
EXTENDS Naturals, FiniteSets

CONSTANTS
    Accounts,        \* EA accounts
    Helpers,         \* token helpers, each on a PC of its own
    MaxTokens,       \* bound: player tokens Atlas mints
    MaxPushes,       \* bound: sign-in pushes the listener reads
    Owner,           \* the account of the identity file the game starts with
    kMaxWrongCodes,  \* refused codes after which no code is looked at
    Torn, Nobody, NoToken, NoHelper, NoFile

Token == [owner: Accounts, n: 1..MaxTokens]

ASSUME IdentityAssumption ==
    /\ MaxTokens \in Nat \ {0} /\ MaxPushes \in Nat /\ Owner \in Accounts
    /\ kMaxWrongCodes \in Nat \ {0}
    /\ {Torn, Nobody} \cap Accounts = {} /\ Torn # Nobody /\ NoHelper \notin Helpers
    /\ {Torn, NoToken} \cap Token = {}

VARIABLES
    atlas,         \* Atlas: the token that is valid for each account
    minted,        \* how many tokens were minted
    uid, token,    \* g_atlasUid, g_atlasToken
    paired,        \* g_atlasRefreshUrl and g_atlasRefreshKey: whose they are
    identityState, \* g_atlasIdentityState
    file,          \* atlas_identity.json
    busy,          \* g_atlasRefreshBusy
    listener,      \* the listener thread: where it is and the push it applies
    wrongCodes,    \* g_wrongCodes
    pushes

identityVars == <<uid, token, paired, identityState, file, busy>>
outsideVars == <<atlas, minted>>
listenerVars == <<listener, wrongCodes, pushes>>

Identity == [uid: Accounts, token: Token, paired: Helpers \cup {NoHelper}]
NoPush == [uid |-> Nobody, token |-> NoToken, paired |-> NoHelper]
ListenerSteps == {"Idle", "Lock", "StoreUid", "StoreToken", "Save"}
ListenerStates == [pc: ListenerSteps, push: Identity \cup {NoPush}]

IdentityTypeOK ==
    /\ atlas \in [Accounts -> Token \cup {NoToken}]
    /\ minted \in 0..MaxTokens
    /\ uid \in Accounts \cup {Torn, Nobody}
    /\ token \in Token \cup {Torn, NoToken}
    /\ paired \in Helpers \cup {NoHelper}
    /\ identityState \in {"Missing", "Incomplete", "Ready"}
    /\ file \in Identity \cup {NoFile} \cup [uid: Accounts, token: {NoToken}, paired: {NoHelper}]
    /\ busy \in BOOLEAN
    /\ listener \in ListenerStates
    /\ wrongCodes \in 0..kMaxWrongCodes
    /\ pushes \in 0..MaxPushes

(* What an overwrite leaves for readers until it is done. *)
Overwriting(old, new) == IF old = new THEN old ELSE Torn

(* ApplyAtlasIdentity: what the file makes of the identity at startup. A    *)
(* file with a uid and no token is Incomplete; an unreadable one (Malformed)*)
(* differs from none in its message only.                                   *)
IdentityOf(f) ==
    IF f = NoFile THEN [uid |-> Nobody, token |-> NoToken, paired |-> NoHelper, state |-> "Missing"]
    ELSE [uid |-> f.uid, token |-> f.token, paired |-> f.paired,
          state |-> IF f.token = NoToken THEN "Incomplete" ELSE "Ready"]

(* The file a token helper or an earlier session left, if any.              *)
FirstToken(a) == [owner |-> a, n |-> 1]
IdentityInit ==
    /\ \/ file = NoFile
       \/ file = [uid |-> Owner, token |-> NoToken, paired |-> NoHelper]
       \/ \E p \in Helpers \cup {NoHelper} :
             file = [uid |-> Owner, token |-> FirstToken(Owner), paired |-> p]
    /\ LET i == IdentityOf(file)
       IN /\ uid = i.uid /\ token = i.token /\ paired = i.paired /\ identityState = i.state
          /\ atlas = [a \in Accounts |-> IF i.token # NoToken /\ a = i.uid THEN i.token ELSE NoToken]
          /\ minted = IF i.token = NoToken THEN 0 ELSE 1
    /\ busy = FALSE
    /\ listener = [pc |-> "Idle", push |-> NoPush]
    /\ wrongCodes = 0 /\ pushes = 0

AtlasIdentityReady == identityState = "Ready"

----------------------------------------------------------------------------
(* Outside the repository: Atlas and the helpers.                          *)

(* The next token of an account; its predecessor is no longer valid.       *)
Mint(a) == [owner |-> a, n |-> minted + 1]
CanMint == minted < MaxTokens
Minted(a) == /\ minted' = minted + 1
             /\ atlas' = [atlas EXCEPT ![a] = Mint(a)]

(* Signing in somewhere else with the same account; before the account has  *)
(* a token that may be held here, it makes no difference.                    *)
SignInElsewhere(a) == /\ atlas[a] # NoToken /\ CanMint /\ Minted(a)
                      /\ UNCHANGED <<identityVars, listenerVars>>

AtlasKnows(u, t) == u \in Accounts /\ t # NoToken /\ t = atlas[u]

----------------------------------------------------------------------------
(* The sign-in listener (namespace signin).                                 *)

(* CheckSignInPush: this machine and the paired helper need no code; after  *)
(* kMaxWrongCodes refusals nobody else is let in.                           *)
CheckSignInPush(fromThisMachine, h, rightCode) ==
    \/ fromThisMachine
    \/ h = paired
    \/ wrongCodes < kMaxWrongCodes /\ rightCode
(* A plausible bug: the limit is not looked at.                             *)
CountsWithoutLimit(fromThisMachine, h, rightCode) ==
    ~fromThisMachine /\ h # paired /\ ~rightCode
CountsAsWrong(fromThisMachine, h, rightCode) ==
    ~fromThisMachine /\ h # paired /\ wrongCodes < kMaxWrongCodes /\ ~rightCode

(* Serve: a push of a helper, with a token it minted for the account it is  *)
(* signed in to; to be applied, or refused. Requests that are malformed or  *)
(* for another path change nothing.                                          *)
Serve(h, a, fromThisMachine, rightCode) ==
    /\ listener.pc = "Idle"
    /\ IF CheckSignInPush(fromThisMachine, h, rightCode)
       THEN /\ pushes < MaxPushes /\ pushes' = pushes + 1
            /\ CanMint /\ Minted(a)
            /\ listener' = [pc |-> "Lock", push |-> [uid |-> a, token |-> Mint(a), paired |-> h]]
            /\ UNCHANGED wrongCodes
       ELSE /\ wrongCodes' = IF CountsAsWrong(fromThisMachine, h, rightCode)
                             THEN wrongCodes + 1 ELSE wrongCodes
            /\ UNCHANGED <<listener, pushes, outsideVars>>
    /\ UNCHANGED identityVars

(* ApplyPushedIdentity: the lock, the uid, the token, the rest, the file.   *)
PushLocks ==
    /\ listener.pc = "Lock" /\ ~busy
    /\ busy' = TRUE
    /\ uid' = Overwriting(uid, listener.push.uid)
    /\ listener' = [listener EXCEPT !.pc = "StoreUid"]
    /\ UNCHANGED <<outsideVars, token, paired, identityState, file, wrongCodes, pushes>>
PushStoresUid ==
    /\ listener.pc = "StoreUid"
    /\ uid' = listener.push.uid
    /\ token' = Overwriting(token, listener.push.token)
    /\ listener' = [listener EXCEPT !.pc = "StoreToken"]
    /\ UNCHANGED <<outsideVars, paired, identityState, file, busy, wrongCodes, pushes>>
PushStoresToken ==
    /\ listener.pc = "StoreToken"
    /\ token' = listener.push.token
    /\ paired' = listener.push.paired
    /\ identityState' = "Ready"
    /\ listener' = [listener EXCEPT !.pc = "Save"]
    /\ UNCHANGED <<outsideVars, uid, file, busy, wrongCodes, pushes>>

(* The file is written beside the old one and renamed over it: a failure   *)
(* at any step leaves the old one.                                          *)
Saved(identity) == file' \in {file, identity}
PushSaves ==
    /\ listener.pc = "Save"
    /\ Saved(listener.push)
    /\ busy' = FALSE
    /\ listener' = [pc |-> "Idle", push |-> NoPush]
    /\ UNCHANGED <<outsideVars, uid, token, paired, identityState, wrongCodes, pushes>>

ListenerStep == PushLocks \/ PushStoresUid \/ PushStoresToken \/ PushSaves

----------------------------------------------------------------------------
(* RefreshAtlasToken, for a worker that holds the lock.                     *)

(* A plausible bug: the account of the reply is not compared.               *)
AcceptAnyAccount(reply, used) == reply.token # used
(* AcceptRefreshedToken: only the same account's, and not the refused one.  *)
AcceptRefreshedToken(reply, used) == reply.uid = uid /\ reply.token # used

(* What the helper can answer: a token it mints for the account it is       *)
(* signed in to now, or the one that was just refused.                      *)
HelperMints(a, reply) == /\ CanMint /\ Minted(a)
                         /\ reply = [uid |-> a, token |-> Mint(a)]
HelperRepeats(a, used, reply) == /\ reply = [uid |-> a, token |-> used]
                                 /\ UNCHANGED outsideVars

=============================================================================
