------------------------- MODULE RelayRegistration --------------------------
(***************************************************************************)
(* Registration of a local agent with the relay (relay_registration.rs),   *)
(* called by the tools that claim and submit bounties: look in the row,    *)
(* register, write the identity into the row.  Calls for one agent overlap *)
(* and nothing locks the row; the relay refuses a wallet it knows.         *)
(***************************************************************************)
EXTENDS Naturals, FiniteSets

CONSTANTS
  Callers,        \* calls of ensure_registered_with_relay for one agent
  MaxLosses       \* answers or cache writes lost in a run of the model

VARIABLES
  wallet,      \* the row has a wallet address
  identity,    \* what relay_agent_id holds: 0 is NULL
  registered,  \* the identity the relay gave the wallet, 0 for none
  stage,       \* of each call
  answer,      \* what each call holds or returned
  losses       \* answers and writes lost so far

registrationVars == <<wallet, identity, registered, stage, answer, losses>>

Stages == {"idle", "missed", "given", "ok", "error"}

Init ==
  /\ wallet = FALSE
  /\ identity = 0 /\ registered = 0
  /\ stage = [c \in Callers |-> "idle"]
  /\ answer = [c \in Callers |-> 0]
  /\ losses = 0

\* A wallet is set outside (provisioning, an operator).
SetWallet ==
  /\ ~wallet /\ wallet' = TRUE
  /\ UNCHANGED <<identity, registered, stage, answer, losses>>

Moves(c, to, id) ==
  /\ stage' = [stage EXCEPT ![c] = to]
  /\ answer' = [answer EXCEPT ![c] = id]

\* The SELECT: a cached identity is the answer, no wallet is an error.
LookUp(c) ==
  /\ stage[c] \in {"idle", "ok", "error"}
  /\ \/ identity # 0 /\ Moves(c, "ok", identity)
     \/ identity = 0 /\ ~wallet /\ Moves(c, "error", 0)
     \/ identity = 0 /\ wallet /\ Moves(c, "missed", 0)
  /\ UNCHANGED <<wallet, identity, registered, losses>>

\* POST register: one identity per wallet.
Register(c) ==
  /\ stage[c] = "missed" /\ registered = 0
  /\ registered' = 1
  /\ Moves(c, "given", 1)
  /\ UNCHANGED <<wallet, identity, losses>>

\* 409: the body is not read for the identity, the call fails.
Conflict(c) ==
  /\ stage[c] = "missed" /\ registered # 0
  /\ Moves(c, "error", 0)
  /\ UNCHANGED <<wallet, identity, registered, losses>>

\* The relay was not reached.
RegisterFails(c) ==
  /\ stage[c] = "missed" /\ losses < MaxLosses
  /\ Moves(c, "error", 0)
  /\ losses' = losses + 1
  /\ UNCHANGED <<wallet, identity, registered>>

\* The relay registered, its answer never came.
AnswerLost(c) ==
  /\ stage[c] = "missed" /\ registered = 0 /\ losses < MaxLosses
  /\ registered' = 1
  /\ Moves(c, "error", 0)
  /\ losses' = losses + 1
  /\ UNCHANGED <<wallet, identity>>

Cache(c) ==
  /\ stage[c] = "given"
  /\ identity' = answer[c]
  /\ Moves(c, "ok", answer[c])
  /\ UNCHANGED <<wallet, registered, losses>>

\* The UPDATE fails: so does the call, although the relay registered.
CacheFails(c) ==
  /\ stage[c] = "given" /\ losses < MaxLosses
  /\ Moves(c, "error", 0)
  /\ losses' = losses + 1
  /\ UNCHANGED <<wallet, identity, registered>>

Next ==
  \/ SetWallet
  \/ \E c \in Callers :
       \/ LookUp(c) \/ Register(c) \/ Conflict(c) \/ RegisterFails(c)
       \/ AnswerLost(c) \/ Cache(c) \/ CacheFails(c)

Spec == Init /\ [][Next]_registrationVars

TypeOK ==
  /\ wallet \in BOOLEAN
  /\ identity \in 0 .. 1 /\ registered \in 0 .. 1
  /\ stage \in [Callers -> Stages]
  /\ answer \in [Callers -> 0 .. 1]
  /\ losses \in 0 .. MaxLosses

\* However the calls overlap, all that succeed return the same identity, the one
\* the relay knows, and so does the row (ensure_registered_with_relay).
OneIdentity ==
  /\ identity \in {0, registered}
  /\ \A c \in Callers : stage[c] = "ok" => answer[c] = registered

\* An agent can be stuck (registered, nothing cached, every later call refused)
\* only after an answer or a cache write was lost: overlapping calls alone never
\* lead there, the one the relay answered still holds the identity.
StuckOnlyByLoss ==
  registered # 0 /\ identity = 0 /\ losses = 0
    => \E c \in Callers : stage[c] = "given"
=============================================================================
