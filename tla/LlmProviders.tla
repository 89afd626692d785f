---------------------------- MODULE LlmProviders ----------------------------
(***************************************************************************)
(* The model providers a customer brings a key for, and the keys in the    *)
(* vault (routes/llm_providers.rs, routes/credentials.rs, the settings     *)
(* route and inject_llm_provider of routes/agent_proxy.rs). No key is ever *)
(* deleted, only revoked; a partial unique index allows one active         *)
(* provider.                                                               *)
(***************************************************************************)
EXTENDS Naturals, FiniteSets

CONSTANTS
  Providers,      \* rows of llm_providers
  SeededProviders,  \* those of the migration, without a key
  VaultKeys,           \* rows of credential_vault, each stored once
  NoKey,          \* credential_id is null
  AdminCalls,     \* callers of the routes, and chat requests
  SharedBedrock   \* whether the shared model is available

VARIABLES
  rowsLlm,     \* per provider: [exists, key, active]
  vault,       \* per key: "unused", "active" or "revoked"
  mode,        \* llm_provider_mode
  adminCalls,  \* per caller: [step, provider, old, new, auto]
  cutOff       \* keys revoked by the vault's own route, or by a call that then failed

llmVars == <<rowsLlm, vault, mode, adminCalls, cutOff>>

Idle == [step |-> "none", provider |-> {}, old |-> NoKey, new |-> NoKey,
         auto |-> FALSE]
Absent == [exists |-> FALSE, key |-> NoKey, active |-> FALSE]

Init ==
  /\ rowsLlm = [p \in Providers |-> [Absent EXCEPT !.exists = p \in SeededProviders]]
  /\ vault = [k \in VaultKeys |-> "unused"]
  /\ mode = IF SharedBedrock THEN "shared_bedrock" ELSE "byok"
  /\ adminCalls = [c \in AdminCalls |-> Idle]
  /\ cutOff = {}

Rows == {p \in Providers : rowsLlm[p].exists}
Active == {p \in Rows : rowsLlm[p].active}
Call(c, new) == adminCalls' = [adminCalls EXCEPT ![c] = new]
Done(c) == Call(c, Idle)

\* store_api_key_in_vault comes first, then the count of providers.
CreateProvider(c, p, k) ==
  /\ adminCalls[c].step = "none" /\ p \notin Rows \union SeededProviders
  /\ vault[k] = "unused"
  /\ vault' = [vault EXCEPT ![k] = "active"]
  /\ Call(c, [Idle EXCEPT !.step = "insert", !.provider = {p}, !.new = k,
                          !.auto = Rows = {}])
  /\ UNCHANGED <<rowsLlm, mode, cutOff>>

\* A second active row is refused by the index; its key stays in the vault.
InsertProvider(c) ==
  /\ adminCalls[c].step = "insert" /\ Done(c)
  /\ \E p \in adminCalls[c].provider :
       rowsLlm' = IF rowsLlm[p].exists \/ (adminCalls[c].auto /\ Active # {}) THEN rowsLlm
                  ELSE [rowsLlm EXCEPT ![p] = [exists |-> TRUE,
                          key |-> adminCalls[c].new, active |-> adminCalls[c].auto]]
  /\ UNCHANGED <<vault, mode, cutOff>>

\* A new key for a provider: the old one is read, ...
UpdateProvider(c, p) ==
  /\ adminCalls[c].step = "none" /\ p \in Rows
  /\ Call(c, [Idle EXCEPT !.step = "revoke", !.provider = {p}, !.old = rowsLlm[p].key])
  /\ UNCHANGED <<rowsLlm, vault, mode, cutOff>>

Revoked(keys) == [k \in VaultKeys |-> IF k \in keys /\ vault[k] = "active" THEN "revoked"
                                 ELSE vault[k]]

\* ... revoked, ...
RevokeOld(c) ==
  /\ adminCalls[c].step = "revoke"
  /\ vault' = Revoked({adminCalls[c].old})
  /\ Call(c, [adminCalls[c] EXCEPT !.step = "store"])
  /\ UNCHANGED <<rowsLlm, mode, cutOff>>

\* ... the new one is stored ...
StoreKey(c, k) ==
  /\ adminCalls[c].step = "store" /\ vault[k] = "unused"
  /\ vault' = [vault EXCEPT ![k] = "active"]
  /\ Call(c, [adminCalls[c] EXCEPT !.step = "set", !.new = k])
  /\ UNCHANGED <<rowsLlm, mode, cutOff>>

\* ... or cannot be, and the provider keeps the key that is revoked.
StoreFails(c) ==
  /\ adminCalls[c].step = "store" /\ Done(c)
  /\ cutOff' = cutOff \union ({adminCalls[c].old} \ {NoKey})
  /\ UNCHANGED <<rowsLlm, vault, mode>>

SetKey(c) ==
  /\ adminCalls[c].step = "set"
  /\ rowsLlm' = [p \in Providers |->
       IF p \in adminCalls[c].provider /\ rowsLlm[p].exists
         THEN [rowsLlm[p] EXCEPT !.key = adminCalls[c].new] ELSE rowsLlm[p]]
  /\ Call(c, [adminCalls[c] EXCEPT !.step = "auto", !.auto = Active = {}])
  /\ UNCHANGED <<vault, mode, cutOff>>

\* Mutant of AutoActivate: no unique index.
ActivateAnyway(c) ==
  /\ adminCalls[c].step = "auto" /\ Done(c)
  /\ rowsLlm' = [p \in Providers |->
       IF p \in adminCalls[c].provider /\ rowsLlm[p].exists /\ adminCalls[c].auto
         THEN [rowsLlm[p] EXCEPT !.active = TRUE] ELSE rowsLlm[p]]
  /\ UNCHANGED <<vault, mode, cutOff>>

\* With no active provider when it counted, the call activates this one; the
\* mode stays as it is.
AutoActivate(c) ==
  /\ adminCalls[c].step = "auto" /\ Done(c)
  /\ rowsLlm' = [p \in Providers |->
       IF p \in adminCalls[c].provider /\ rowsLlm[p].exists /\ adminCalls[c].auto
            /\ Active \subseteq {p}
         THEN [rowsLlm[p] EXCEPT !.active = TRUE] ELSE rowsLlm[p]]
  /\ UNCHANGED <<vault, mode, cutOff>>

ActivateProvider(c, p) ==
  /\ adminCalls[c].step = "none" /\ p \in Rows /\ rowsLlm[p].key # NoKey
  /\ Call(c, [Idle EXCEPT !.step = "activate", !.provider = {p}])
  /\ UNCHANGED <<rowsLlm, vault, mode, cutOff>>

\* One transaction; a provider deleted meanwhile leaves none active.
SwitchOver(c) ==
  /\ adminCalls[c].step = "activate" /\ Done(c)
  /\ rowsLlm' = [p \in Providers |-> [rowsLlm[p] EXCEPT !.active =
                   rowsLlm[p].exists /\ p \in adminCalls[c].provider]]
  /\ mode' = "byok"
  /\ UNCHANGED <<vault, cutOff>>

DeleteProvider(c, p) ==
  /\ adminCalls[c].step = "none" /\ p \in Rows
  /\ Call(c, [Idle EXCEPT !.step = "drop", !.provider = {p}, !.old = rowsLlm[p].key])
  /\ UNCHANGED <<rowsLlm, vault, mode, cutOff>>

DropKey(c) ==
  /\ adminCalls[c].step = "drop"
  /\ vault' = Revoked({adminCalls[c].old})
  /\ Call(c, [adminCalls[c] EXCEPT !.step = "delete"])
  /\ UNCHANGED <<rowsLlm, mode, cutOff>>

DropRow(c) ==
  /\ adminCalls[c].step = "delete" /\ Done(c)
  /\ rowsLlm' = [p \in Providers |->
       IF p \in adminCalls[c].provider THEN Absent ELSE rowsLlm[p]]
  /\ UNCHANGED <<vault, mode, cutOff>>

RevokeCredential(k) ==
  /\ vault[k] = "active"
  /\ vault' = Revoked({k})
  /\ cutOff' = cutOff \union {k}
  /\ UNCHANGED <<rowsLlm, mode, adminCalls>>

UpdateSettings(m) ==
  /\ m = "shared_bedrock" => SharedBedrock
  /\ mode' = m
  /\ UNCHANGED <<rowsLlm, vault, adminCalls, cutOff>>

\* A chat request looks the active provider up ...
InjectProvider(c) ==
  /\ adminCalls[c].step = "none" /\ mode = "byok"
  /\ \E p \in Active : rowsLlm[p].key # NoKey /\
       Call(c, [Idle EXCEPT !.step = "decrypt", !.old = rowsLlm[p].key])
  /\ UNCHANGED <<rowsLlm, vault, mode, cutOff>>

\* ... and its key, if that is still active; otherwise the body goes out as it is.
Decrypt(c) ==
  /\ adminCalls[c].step = "decrypt" /\ Done(c)
  /\ UNCHANGED <<rowsLlm, vault, mode, cutOff>>

Next ==
  \/ \E m \in {"shared_bedrock", "byok"} : UpdateSettings(m)
  \/ \E k \in VaultKeys : RevokeCredential(k)
  \/ \E c \in AdminCalls :
       \/ InsertProvider(c) \/ RevokeOld(c) \/ StoreFails(c) \/ SetKey(c)
       \/ AutoActivate(c) \/ SwitchOver(c) \/ DropKey(c) \/ DropRow(c)
       \/ InjectProvider(c) \/ Decrypt(c)
       \/ \E k \in VaultKeys : StoreKey(c, k)
       \/ \E p \in Providers :
            \/ UpdateProvider(c, p) \/ ActivateProvider(c, p) \/ DeleteProvider(c, p)
            \/ \E k \in VaultKeys : CreateProvider(c, p, k)

Spec == Init /\ [][Next]_llmVars

TypeOK ==
  /\ rowsLlm \in [Providers -> [exists : BOOLEAN, key : VaultKeys \union {NoKey},
                                active : BOOLEAN]]
  /\ vault \in [VaultKeys -> {"unused", "active", "revoked"}]
  /\ mode \in {"shared_bedrock", "byok"}
  /\ \A c \in AdminCalls : adminCalls[c].new \in VaultKeys \union {NoKey}

\* At most one provider is active, though activations, new keys and new providers
\* each look before they write (idx_llm_providers_active).
OneActive == Cardinality(Active) <= 1

\* The active provider has a key (activate_provider, update_provider,
\* create_provider): a chat request never finds one without.
ActiveHasKey == \A p \in Active : rowsLlm[p].key # NoKey

\* The key of a provider is revoked only while a call that replaces or deletes
\* it is under way, or after the key was revoked by itself or the new one could
\* not be stored: whoever wins, the key that is set last works (update_provider).
KeysWork ==
  \A p \in Rows : rowsLlm[p].key # NoKey /\ vault[rowsLlm[p].key] = "revoked" =>
    \/ rowsLlm[p].key \in cutOff
    \/ \E c \in AdminCalls : p \in adminCalls[c].provider
                               /\ adminCalls[c].old = rowsLlm[p].key
=============================================================================
