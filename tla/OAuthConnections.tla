-------------------------- MODULE OAuthConnections --------------------------
(***************************************************************************)
(* One OAuth connection: the row of integration_credentials, the consent   *)
(* flow that fills it (tools/oauth_tools.rs, routes/oauth.rs), the         *)
(* background refresher (oauth_refresh.rs) and its revocation.             *)
(*                                                                         *)
(* Nothing locks the row: a refresh is a read, a request to the provider   *)
(* and a write, and a user may revoke or reconnect in between.  Refresh    *)
(* tokens are numbers in the order the provider issued them.               *)
(***************************************************************************)
EXTENDS Naturals

CONSTANTS
  Consents,    \* consent flows (state tokens) a user may start
  MaxTokens,   \* refresh tokens the provider issues in a run of the model
  NoReply,     \* a refresh whose answer is not there
  Rejected     \* an answer that refuses the token

VARIABLES
  connStatus,  \* status of the row, "none" before the tool created it
  refresh,     \* its refresh_token, 0 is NULL
  due,         \* its token_expires_at is set and near
  started,     \* consents ever started
  states,      \* rows of oauth_states
  exchanging,  \* callbacks between the DELETE of the state and the write
  code,        \* per consent: what the exchange brought, 0 for no refresh token
  exchanges,   \* per consent: how often its code was sent to the provider
  issued,      \* tokens the provider issued
  accepted,    \* those it still accepts
  refreshing,  \* the token of the refresh under way, 0 for none
  refreshed,   \* its answer: Rejected, 0 (token kept) or a new token
  blemished    \* an answer was lost, or a revocation overlapped a refresh

oauthVars == <<connStatus, refresh, due, started, states, exchanging, code,
               exchanges, issued, accepted, refreshing, refreshed, blemished>>

row == <<connStatus, refresh, due>>
consent == <<started, states, exchanging, code, exchanges>>
provider == <<issued, accepted>>
refresher == <<refreshing, refreshed>>

Init ==
  /\ connStatus = "none" /\ refresh = 0 /\ due = FALSE
  /\ started = {} /\ states = {} /\ exchanging = {}
  /\ code = [s \in Consents |-> NoReply]
  /\ exchanges = [s \in Consents |-> 0]
  /\ issued = 0 /\ accepted = {}
  /\ refreshing = 0 /\ refreshed = NoReply
  /\ blemished = FALSE

\* initiate_oauth inserts a pending row without tokens.
InitiateOAuth ==
  /\ connStatus = "none"
  /\ connStatus' = "pending"
  /\ UNCHANGED <<refresh, due, consent, provider, refresher, blemished>>

\* The start route stores a state token and sends the browser away.
StartConsent(s) ==
  /\ connStatus # "none" /\ s \notin started
  /\ started' = started \union {s}
  /\ states' = states \union {s}
  /\ UNCHANGED <<exchanging, code, exchanges, row, provider, refresher,
                 blemished>>

StateExpires(s) ==
  /\ s \in states
  /\ states' = states \ {s}
  /\ UNCHANGED <<started, exchanging, code, exchanges, row, provider,
                 refresher, blemished>>

\* The provider's redirect: a state is taken out by the first that brings it.
Callback(s) ==
  /\ s \in states
  /\ states' = states \ {s}
  /\ exchanging' = exchanging \union {s}
  /\ UNCHANGED <<started, code, exchanges, row, provider, refresher, blemished>>

\* The code is exchanged; the provider may give no refresh token.
Exchange(s) ==
  /\ s \in exchanging /\ code[s] = NoReply
  /\ exchanges' = [exchanges EXCEPT ![s] = @ + 1]
  /\ \/ /\ issued < MaxTokens
        /\ issued' = issued + 1
        /\ accepted' = accepted \union {issued'}
        /\ code' = [code EXCEPT ![s] = issued']
     \/ /\ code' = [code EXCEPT ![s] = 0]
        /\ UNCHANGED provider
  /\ UNCHANGED <<started, states, exchanging, row, refresher, blemished>>

\* Any refusal or error ends the callback; the row stays as it is.
ExchangeFails(s) ==
  /\ s \in exchanging
  /\ exchanging' = exchanging \ {s}
  /\ exchanges' = [exchanges EXCEPT ![s] = @ + IF code[s] = NoReply THEN 1 ELSE 0]
  /\ UNCHANGED <<started, states, code, row, provider, refresher, blemished>>

\* One UPDATE by id: COALESCE keeps the old refresh token, and the row is
\* active whatever it was.
CallbackWrites(s) ==
  /\ s \in exchanging /\ code[s] # NoReply
  /\ exchanging' = exchanging \ {s}
  /\ connStatus' = "active"
  /\ refresh' = IF code[s] = 0 THEN refresh ELSE code[s]
  /\ due' = FALSE
  /\ UNCHANGED <<started, states, code, exchanges, provider, refresher,
                 blemished>>

\* The access token nears its end.
TokenAges ==
  /\ connStatus = "active" /\ ~due
  /\ due' = TRUE
  /\ UNCHANGED <<connStatus, refresh, consent, provider, refresher, blemished>>

\* The tick reads a due row, with its token.
ProcessDue ==
  /\ refreshing = 0
  /\ connStatus = "active" /\ refresh # 0 /\ due
  /\ refreshing' = refresh
  /\ UNCHANGED <<refreshed, row, consent, provider, blemished>>

\* The provider keeps the token or replaces it.
ProviderRefreshes ==
  /\ refreshing \in accepted /\ refreshed = NoReply
  /\ \/ refreshed' = 0 /\ UNCHANGED provider
     \/ /\ issued < MaxTokens
        /\ issued' = issued + 1
        /\ accepted' = (accepted \ {refreshing}) \union {issued'}
        /\ refreshed' = issued'
  /\ UNCHANGED <<refreshing, row, consent, blemished>>

\* It refuses a token it does not accept, and any when it is in trouble.
ProviderRejects ==
  /\ refreshing # 0 /\ refreshed = NoReply
  /\ refreshed' = Rejected
  /\ UNCHANGED <<refreshing, row, consent, provider, blemished>>

RefreshEnds == refreshing' = 0 /\ refreshed' = NoReply

\* The answer is written by id: new tokens leave the status alone, a refusal
\* of any kind sets it to expired.
RefreshOne ==
  /\ refreshing # 0 /\ refreshed # NoReply
  /\ \/ /\ refreshed = Rejected
        /\ connStatus' = "expired"
        /\ UNCHANGED <<refresh, due>>
     \/ /\ refreshed # Rejected
        /\ refresh' = IF refreshed = 0 THEN refresh ELSE refreshed
        /\ due' = FALSE
        /\ UNCHANGED connStatus
  /\ RefreshEnds
  /\ UNCHANGED <<consent, provider, blemished>>

\* A network error, a failed UPDATE or a restart: a rotated token is lost.
RefreshLost ==
  /\ refreshing # 0
  /\ RefreshEnds
  /\ blemished' = (blemished \/ refreshed \notin {NoReply, 0, Rejected})
  /\ UNCHANGED <<row, consent, provider>>

\* Mutant of RevokeConnection: the refresh token stays.
RevokeKeepsRefresh ==
  /\ connStatus # "none"
  /\ connStatus' = "revoked" /\ due' = FALSE
  /\ UNCHANGED refresh
  /\ blemished' = (blemished \/ refreshing # 0)
  /\ UNCHANGED <<consent, provider, refresher>>

RevokeConnection ==
  /\ connStatus # "none"
  /\ connStatus' = "revoked" /\ refresh' = 0 /\ due' = FALSE
  /\ blemished' = (blemished \/ refreshing # 0)
  /\ UNCHANGED <<consent, provider, refresher>>

Next ==
  \/ InitiateOAuth \/ TokenAges \/ RevokeConnection
  \/ ProcessDue \/ ProviderRefreshes \/ ProviderRejects \/ RefreshOne
  \/ RefreshLost
  \/ \E s \in Consents :
       \/ StartConsent(s) \/ StateExpires(s) \/ Callback(s) \/ Exchange(s)
       \/ ExchangeFails(s) \/ CallbackWrites(s)

Spec == Init /\ [][Next]_oauthVars

TypeOK ==
  /\ connStatus \in {"none", "pending", "active", "expired", "revoked"}
  /\ refresh \in 0 .. MaxTokens /\ due \in BOOLEAN
  /\ states \subseteq started /\ exchanging \subseteq started
  /\ started \subseteq Consents
  /\ code \in [Consents -> (0 .. MaxTokens) \union {NoReply}]
  /\ exchanges \in [Consents -> 0 .. 2]
  /\ issued \in 0 .. MaxTokens /\ accepted \subseteq 1 .. issued
  /\ refreshing \in 0 .. MaxTokens
  /\ refreshed \in (0 .. MaxTokens) \union {NoReply, Rejected}
  /\ blemished \in BOOLEAN

\* A consent is worth one exchange, however often the browser brings its state
\* back (routes/oauth.rs, callback: DELETE ... RETURNING).
ConsentUsedOnce == \A s \in Consents : exchanges[s] <= 1

\* An active row's refresh token is one the provider takes, across rotation,
\* reconnection and refusals, unless an answer was lost or a revocation came
\* between a refresh and its write; a row at rest keeps working.
ActiveCanRefresh ==
  connStatus = "active" /\ refreshing = 0 /\ ~blemished
    => refresh \in accepted \union {0}

\* A revoked row holds no token a call could use: only a refresh that was under
\* way brings one back (oauth_tools.rs: "access_token and refresh_token are
\* cleared"; the executor never looks at the status).
RevokedIsEmpty == connStatus = "revoked" /\ ~blemished => refresh = 0
=============================================================================
