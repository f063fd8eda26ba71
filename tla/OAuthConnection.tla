-------------------------- MODULE OAuthConnection --------------------------
(***************************************************************************)
(* The life of one OAuth connection: the console authorizes it, edits it   *)
(* and revokes it (console-provider-oauth.ts, db/src/providers.ts), the    *)
(* gateways refresh its token under a row lock that they hold across the   *)
(* call to the provider (gateway-provider-credentials.ts), the workers'    *)
(* jobs refresh it without one (worker-provider-connection-probe.ts,       *)
(* worker-provider-quota-probe.ts, worker-model-refresh.ts), and the quota *)
(* probe keeps a summary row of it (provider-quota.ts).                    *)
(*                                                                         *)
(* A token is its refresh token (a number, those in idp.live are the ones  *)
(* the provider accepts), whether its access token is still good, whether  *)
(* it names a resource_url, and the seal that tells one ciphertext from    *)
(* another.  What a probe finds about health is in ConnectionHealth.       *)
(***************************************************************************)
EXTENDS Integers, FiniteSets

CONSTANTS
  Refreshers,     \* gateways
  Probers,        \* runs of probe jobs
  QuotaProbers,   \* those of them that probe the quota
  Listers,        \* those that list the models of the provider
  Tabs,           \* console pages that poll a device authorization
  MaxTokens       \* bound: tokens the provider issues

ASSUME OAuthAssumption ==
  /\ QuotaProbers \subseteq Probers /\ Listers \subseteq Probers \ QuotaProbers
  /\ "console" \notin Refreshers /\ MaxTokens \in Nat \ {0}

VARIABLES
  conn,       \* the row of provider_oauth
  rowLock,    \* who holds its lock across several steps, {} if nobody
  quotaRow,   \* provider_quota_summary has a row of it
  gate,       \* per gateway: the request that needs the token
  probing,    \* per probe run
  tabs,       \* per console page
  removal,    \* the revocation under way
  idp,        \* the provider: the refresh tokens it accepts, how many tokens
              \* it issued, whether a refresh rotates the refresh token
  excused     \* whether a crash, a lost write or an operator lost a token

oauthVars == <<conn, rowLock, quotaRow, gate, probing, tabs, removal, idp, excused>>

Token == [refresh : 1..MaxTokens, fresh : BOOLEAN, resource : BOOLEAN, seal : 1..MaxTokens]
NoToken == [refresh |-> 0, fresh |-> FALSE, resource |-> FALSE, seal |-> 0]
Nobody == [pc |-> "idle", token |-> NoToken]
NoProbe == [pc |-> "idle", token |-> NoToken, seal |-> 0]
Resolved == [NoProbe EXCEPT !.pc = "resolved"]
NewConnection == [stage |-> "none", flow |-> "code", enabled |-> TRUE, quotaProbe |-> TRUE, token |-> NoToken]

OAuthTypeOK ==
  /\ conn.stage \in {"none", "pending", "completed", "deleted"} /\ {conn.enabled, conn.quotaProbe} \subseteq BOOLEAN
  /\ conn.token \in Token <=> conn.stage = "completed"
  /\ conn.token \in Token \/ conn.token = NoToken
  /\ rowLock \subseteq Refreshers \cup {"console"} /\ Cardinality(rowLock) <= 1
  /\ \A g \in Refreshers :
       /\ gate[g].pc \in {"idle", "expired", "locked", "answered"}
       /\ gate[g].pc \in {"locked", "answered"} <=> g \in rowLock
       /\ gate[g].token \in Token \cup {NoToken}
  /\ \A p \in Probers :
       /\ probing[p].pc \in {"idle", "read", "called", "resolved", "found", "missed"}
       /\ probing[p].token \in Token \cup {NoToken}
  /\ \A c \in Tabs : tabs[c].pc \in {"idle", "code", "device", "got"}
  /\ removal \in {"none", "read", "revoked", "deleting", "cleared"}
  /\ idp.issued \in 0..MaxTokens /\ idp.live \subseteq 1..idp.issued /\ idp.rotates \in BOOLEAN
  /\ quotaRow \in BOOLEAN /\ excused \in BOOLEAN

OAuthInit ==
  /\ conn = NewConnection /\ rowLock = {} /\ quotaRow = FALSE
  /\ gate = [g \in Refreshers |-> Nobody]
  /\ probing = [p \in Probers |-> NoProbe]
  /\ tabs = [c \in Tabs |-> Nobody]
  /\ removal = "none" /\ excused = FALSE
  /\ idp \in [live : {{}}, issued : {0}, rotates : BOOLEAN]

(***************************************************************************)
(* The provider.                                                           *)
(***************************************************************************)
\* It issues a token, for a code or in exchange for the refresh token "old"; one
\* that does not rotate sends no refresh_token, and the old one is kept.
Issues(old, token) ==
  LET new == old = 0 \/ idp.rotates
      next == idp.issued + 1
  IN /\ idp.issued < MaxTokens
     /\ token.seal = next /\ token.fresh /\ token.refresh = IF new THEN next ELSE old
     /\ idp' = [idp EXCEPT !.issued = next, !.live = IF new THEN (@ \ {old}) \cup {next} ELSE @]

(***************************************************************************)
(* Authorization.                                                          *)
(***************************************************************************)
\* start for a provider with authorization codes; one with device codes asks the
\* provider first and then replaces its pending attempts in one transaction; pages
\* that poll a replaced one find it gone.
StartCode ==
  /\ conn.stage = "none"
  /\ conn' = [NewConnection EXCEPT !.stage = "pending", !.flow = "code"]
  /\ UNCHANGED <<rowLock, quotaRow, gate, probing, tabs, removal, idp, excused>>

StartDevice ==
  /\ \/ conn.stage = "none"
     \/ conn.stage = "pending" /\ conn.flow = "device"
  /\ conn' = [NewConnection EXCEPT !.stage = "pending", !.flow = "device"]
  /\ tabs' = [c \in Tabs |-> Nobody]
  /\ UNCHANGED <<rowLock, quotaRow, gate, probing, removal, idp, excused>>

\* A page reads the pending row, without a lock.
ReadPending(c) ==
  /\ tabs[c].pc = "idle" /\ conn.stage = "pending"
  /\ tabs' = [tabs EXCEPT ![c].pc = conn.flow]
  /\ UNCHANGED <<conn, rowLock, quotaRow, gate, probing, removal, idp, excused>>

Receives(c) ==
  \E token \in Token : Issues(0, token) /\ tabs' = [tabs EXCEPT ![c].pc = "got", ![c].token = token]

\* It exchanges the code the operator pasted; a code is good for one exchange,
\* and one that is expired or does not belong to this attempt is refused.
ExchangeCode(c) ==
  /\ tabs[c].pc = "code"
  /\ \/ tabs' = [tabs EXCEPT ![c] = Nobody] /\ UNCHANGED idp
     \/ idp.issued = 0 /\ Receives(c)
  /\ UNCHANGED <<conn, rowLock, quotaRow, gate, probing, removal, excused>>

\* It polls the provider: approved, not yet, or not any more.
PollDevice(c) ==
  /\ tabs[c].pc = "device"
  /\ \/ tabs' = [tabs EXCEPT ![c] = Nobody] /\ UNCHANGED idp
     \/ Receives(c)
  /\ UNCHANGED <<conn, rowLock, quotaRow, gate, probing, removal, excused>>

\* completeProviderOAuthConnection.  With device codes the first page stores its
\* token, and another one finds the connection complete and drops its own.
StoreToken(c) ==
  LET lands == conn.stage \in {"pending"} \cup IF conn.flow = "code" THEN {"completed"} ELSE {}
  IN /\ tabs[c].pc = "got" /\ rowLock = {}
     /\ conn' = IF lands THEN [conn EXCEPT !.stage = "completed", !.token = tabs[c].token] ELSE conn
     /\ tabs' = [tabs EXCEPT ![c] = Nobody]
     /\ UNCHANGED <<rowLock, quotaRow, gate, probing, removal, idp, excused>>

(***************************************************************************)
(* Edits and revocation.                                                   *)
(***************************************************************************)
\* Enable, disable, settings, and the switch of the quota probe.  A probe that
\* has refreshed meanwhile will find the connection disabled.
EditConnection ==
  /\ conn.stage \in {"pending", "completed"} /\ rowLock = {}
  /\ \E enabled, quotaProbe \in BOOLEAN :
       /\ conn' = [conn EXCEPT !.enabled = enabled, !.quotaProbe = quotaProbe]
       /\ excused' = (excused \/ (~enabled /\ \E p \in Probers : probing[p].pc = "called"))
  /\ UNCHANGED <<rowLock, quotaRow, gate, probing, tabs, removal, idp>>

\* revokeProviderOAuthConnection reads the token and asks the provider to revoke
\* it; most providers have no such call.
ReadForRevoke ==
  /\ removal = "none" /\ conn.stage = "completed"
  /\ removal' = "read"
  /\ UNCHANGED <<conn, rowLock, quotaRow, gate, probing, tabs, idp, excused>>

\* It revokes the token, has nothing to revoke, or fails, and nothing is deleted.
Revoke ==
  /\ removal = "read"
  /\ \/ removal' = "revoked" /\ UNCHANGED <<idp, excused>>
     \/ removal' = "revoked" /\ idp' = [idp EXCEPT !.live = @ \ {conn.token.refresh}] /\ excused' = TRUE
     \/ removal' = "none" /\ UNCHANGED <<idp, excused>>
  /\ UNCHANGED <<conn, rowLock, quotaRow, gate, probing, tabs>>

\* deleteProviderOAuthConnection: the row first, then the quota summary, in one
\* transaction.  Until it commits others see the old row, locked.
DeleteRow ==
  /\ removal = "revoked" /\ rowLock = {}
  /\ removal' = "deleting" /\ rowLock' = {"console"}
  /\ UNCHANGED <<conn, quotaRow, gate, probing, tabs, idp, excused>>

\* What the delete of the summary row finds is what was committed before it.
ClearsQuota ==
  /\ removal = "deleting"
  /\ removal' = "cleared"
  /\ quotaRow' = FALSE
  /\ UNCHANGED <<conn, rowLock, gate, probing, tabs, idp, excused>>

DeleteCommits ==
  /\ removal = "cleared"
  /\ removal' = "none" /\ rowLock' = {}
  /\ conn' = [conn EXCEPT !.stage = "deleted", !.enabled = FALSE, !.token = NoToken]
  /\ UNCHANGED <<quotaRow, gate, probing, tabs, idp, excused>>

(***************************************************************************)
(* A gateway.                                                              *)
(***************************************************************************)
\* A request reads the enabled, completed connections without a lock; with an
\* expired token it goes on here, and without one it is served.
ReadForRequest(g) ==
  /\ gate[g].pc = "idle"
  /\ conn.stage = "completed" /\ conn.enabled
  /\ ~conn.token.fresh
  /\ gate' = [gate EXCEPT ![g] = [pc |-> "expired", token |-> conn.token]]
  /\ UNCHANGED <<conn, rowLock, quotaRow, probing, tabs, removal, idp, excused>>

\* Mutation: the token that was read before the lock is refreshed.
CurrentUnlocked(g) == gate[g].token

\* What is decrypted under the lock.
Current(g) == conn.token

\* refreshProviderOAuthTokenWithLock: select for update, and another look.
LockRow(g) ==
  /\ gate[g].pc = "expired" /\ rowLock = {}
  /\ \/ /\ conn.stage = "completed" /\ Current(g).fresh
        /\ gate' = [gate EXCEPT ![g] = Nobody]
        /\ UNCHANGED rowLock
     \/ /\ conn.stage = "completed" /\ ~Current(g).fresh
        /\ gate' = [gate EXCEPT ![g] = [pc |-> "locked", token |-> Current(g)]]
        /\ rowLock' = {g}
     \/ /\ conn.stage # "completed"
        /\ gate' = [gate EXCEPT ![g] = Nobody]
        /\ UNCHANGED rowLock
  /\ UNCHANGED <<conn, quotaRow, probing, tabs, removal, idp, excused>>

\* The provider answers inside the transaction; an answer without resource_url
\* keeps the one the row has.  A refusal rolls back.
Refreshed(g) ==
  /\ gate[g].pc = "locked"
  /\ \/ /\ gate[g].token.refresh \in idp.live
        /\ \E token \in Token :
             /\ Issues(gate[g].token.refresh, token)
             /\ gate' = [gate EXCEPT ![g] = [pc |-> "answered",
                  token |-> [token EXCEPT !.resource = @ \/ gate[g].token.resource]]]
        /\ UNCHANGED rowLock
     \/ /\ gate' = [gate EXCEPT ![g] = Nobody]
        /\ rowLock' = {}
        /\ UNCHANGED idp
  /\ UNCHANGED <<conn, quotaRow, probing, tabs, removal, excused>>

\* The update commits.  Or the answer did not arrive, the update failed or the
\* gateway died: then the new token is gone and the old one is stored.
StoreRefreshed(g) ==
  /\ gate[g].pc = "answered"
  /\ rowLock' = {}
  /\ \/ /\ conn' = [conn EXCEPT !.token = gate[g].token]
        /\ gate' = [gate EXCEPT ![g] = Nobody]
        /\ UNCHANGED excused
     \/ /\ gate' = [gate EXCEPT ![g] = Nobody]
        /\ excused' = TRUE
        /\ UNCHANGED conn
  /\ UNCHANGED <<quotaRow, probing, tabs, removal, idp>>

\* Time passes: the access token is within a minute of its end.
TokenExpires ==
  /\ conn.stage = "completed" /\ conn.token.fresh /\ idp.issued < MaxTokens
  /\ conn' = [conn EXCEPT !.token.fresh = FALSE]
  /\ UNCHANGED <<rowLock, quotaRow, gate, probing, tabs, removal, idp, excused>>

(***************************************************************************)
(* The probes of a worker.                                                 *)
(***************************************************************************)
\* The handler reads an enabled, completed connection, for the quota only with
\* its switch on; what it finds disabled cancels the job.
ReadForProbe(p) ==
  /\ probing[p].pc = "idle"
  /\ conn.stage = "completed" /\ conn.enabled /\ (p \in QuotaProbers => conn.quotaProbe)
  /\ probing' = [probing EXCEPT ![p] =
       IF conn.token.fresh THEN Resolved ELSE [pc |-> "read", token |-> conn.token, seal |-> conn.token.seal]]
  /\ UNCHANGED <<conn, rowLock, quotaRow, gate, tabs, removal, idp, excused>>

\* The expired token is refreshed without a lock, and the answer is taken as it
\* is; a refusal ends as a failure to read the credential.
RefreshForProbe(p) ==
  /\ probing[p].pc = "read"
  /\ \/ /\ probing[p].token.refresh \in idp.live
        /\ \E token \in Token : /\ Issues(probing[p].token.refresh, token)
                                /\ probing' = [probing EXCEPT ![p].pc = "called", ![p].token = token]
        /\ excused' = (excused \/ ~conn.enabled)
     \/ /\ probing' = [probing EXCEPT ![p] = Resolved]
        /\ UNCHANGED <<idp, excused>>
  /\ UNCHANGED <<conn, rowLock, quotaRow, gate, tabs, removal>>

\* A probe replaces the ciphertext that it read, if the connection is enabled; a
\* model refresh replaces whatever there is.
MayReplace(p) ==
  /\ conn.stage = "completed"
  /\ p \notin Listers => conn.enabled /\ conn.token.seal = probing[p].seal

\* The conditional update; a row that changed cancels the job, and an update that
\* fails is a failure to read the credential.
StoreForProbe(p) ==
  /\ probing[p].pc = "called" /\ rowLock = {}
  /\ \/ /\ MayReplace(p)
        /\ conn' = [conn EXCEPT !.token = probing[p].token]
        /\ probing' = [probing EXCEPT ![p] = Resolved]
        /\ UNCHANGED excused
     \/ /\ ~MayReplace(p)
        /\ probing' = [probing EXCEPT ![p] = NoProbe]
        /\ UNCHANGED <<conn, excused>>
     \/ /\ probing' = [probing EXCEPT ![p] = Resolved]
        /\ excused' = TRUE
        /\ UNCHANGED conn
  /\ UNCHANGED <<rowLock, quotaRow, gate, tabs, removal, idp>>

\* With the credential the quota is asked for, or not; either way there is a
\* result to keep.  A connection probe ends here.
Observe(p) ==
  /\ probing[p].pc = "resolved"
  /\ probing' = [probing EXCEPT ![p] = IF p \in QuotaProbers THEN [@ EXCEPT !.pc = "found"] ELSE NoProbe]
  /\ UNCHANGED <<conn, rowLock, quotaRow, gate, tabs, removal, idp, excused>>

\* recordProviderQuota under the advisory lock of the connection: an existing row
\* is updated; one that a transaction is deleting is waited for, and is gone then.
UpdateQuota(p) ==
  /\ probing[p].pc = "found"
  /\ \A q \in Probers \ {p} : probing[q].pc # "missed"
  /\ probing' = [probing EXCEPT ![p] = IF quotaRow THEN NoProbe ELSE [@ EXCEPT !.pc = "missed"]]
  /\ UNCHANGED <<conn, rowLock, quotaRow, gate, tabs, removal, idp, excused>>

\* lockLiveConnectionRow waits for whoever holds the row.
LiveLocked == rowLock = {} /\ conn.stage \in {"pending", "completed"}
GoneLocked == rowLock = {} /\ conn.stage \notin {"pending", "completed"}

\* A miss inserts a row for a connection that is live.
InsertQuota(p) ==
  /\ probing[p].pc = "missed"
  /\ \/ LiveLocked /\ quotaRow' = TRUE
     \/ GoneLocked /\ UNCHANGED quotaRow
  /\ probing' = [probing EXCEPT ![p] = NoProbe]
  /\ UNCHANGED <<conn, rowLock, gate, tabs, removal, idp, excused>>

OAuthNext ==
  \/ StartCode \/ StartDevice \/ EditConnection \/ TokenExpires
  \/ ReadForRevoke \/ Revoke \/ DeleteRow \/ ClearsQuota \/ DeleteCommits
  \/ \E c \in Tabs : ReadPending(c) \/ ExchangeCode(c) \/ PollDevice(c) \/ StoreToken(c)
  \/ \E g \in Refreshers : ReadForRequest(g) \/ LockRow(g) \/ Refreshed(g) \/ StoreRefreshed(g)
  \/ \E p \in Probers : \/ ReadForProbe(p) \/ RefreshForProbe(p) \/ StoreForProbe(p)
                        \/ Observe(p) \/ UpdateQuota(p) \/ InsertQuota(p)

OAuthSpec == OAuthInit /\ [][OAuthNext]_oauthVars

(***************************************************************************)
(* Properties.                                                             *)
(***************************************************************************)
\* The stored refresh token is one the provider accepts, or the one that replaces
\* it is in the hands of whoever is about to store it: however gateways, probes
\* and pages interleave, only a crash, a failed write or an operator loses it.
\* And a gateway that holds the row's lock presents the token of the row, so that
\* no gateway is refused for what another has just refreshed.
TokensKept ==
  /\ conn.stage = "completed" /\ ~excused =>
       \/ conn.token.refresh \in idp.live
       \/ \E g \in Refreshers : gate[g].pc = "answered" /\ gate[g].token.refresh \in idp.live
       \/ \E p \in Probers : /\ probing[p].pc = "called" /\ probing[p].token.refresh \in idp.live
                             /\ MayReplace(p)
  /\ \A g \in Refreshers : gate[g].pc = "locked" => gate[g].token = conn.token

\* A summary of the quota exists only for a connection that does: a probe that
\* ends while the connection is deleted does not bring the row back.
QuotaRowsAreLive == quotaRow => conn.stage \in {"pending", "completed"}

\* Interleaved refreshes, probes and deletions lose no token and leave no summary
\* of a quota behind.
CredentialsKept == TokensKept /\ QuotaRowsAreLive

\* A refresh whose answer names no resource_url keeps the one the connection has
\* (gateway-provider-credentials.ts, progress.md).
KeepsResourceUrl ==
  [][conn.token.resource /\ conn'.stage = "completed" => conn'.token.resource]_oauthVars
=============================================================================
