--------------------------- MODULE Records_proofs ----------------------------
(***************************************************************************)
(* The records of the system side by side: each keeper keeps what its own  *)
(* module of proofs says, whatever the others do.                          *)
(*                                                                         *)
(* And what OAuthConnection guarantees for any number of gateways, probes and  *)
(* pages, whether the provider rotates refresh tokens or not: only a       *)
(* crash, a failed write or an operator loses the token of a connection,   *)
(* a gateway presents the token of the row it has locked, and no summary   *)
(* of a quota outlives its connection.                                     *)
(*                                                                         *)
(* The invariant tells the refresh tokens that are known, to the row or to *)
(* those who have read it, from the new ones, each in the hand of the one  *)
(* who asked for it and will store it.  Only a known token is presented,   *)
(* so with rotation a new one is accepted until it is stored.              *)
(***************************************************************************)
EXTENDS Records, GatewayRequests_proofs, Catalog_proofs, FiniteSetTheorems, TLAPS

----------------------------------------------------------------------------
(* The invariant. *)

Tokens == Token \cup {NoToken}
Conn == [stage : {"none", "pending", "completed", "deleted"}, flow : {"code", "device"},
         enabled : BOOLEAN, quotaProbe : BOOLEAN, token : Tokens]
Gate == [pc : {"idle", "expired", "locked", "answered"}, token : Tokens]
Probe == [pc : {"idle", "read", "called", "resolved", "found", "missed"}, token : Tokens, seal : 0..MaxTokens]
Tab == [pc : {"idle", "code", "device", "got"}, token : Tokens]
Provider == [live : SUBSET (1..MaxTokens), issued : 0..MaxTokens, rotates : BOOLEAN]

\* Who has got further than the row has a token.
OAuthTypeInv ==
  /\ conn \in Conn /\ (conn.token \in Token <=> conn.stage = "completed")
  /\ gate \in [Refreshers -> Gate] /\ \A g \in Refreshers : gate[g].pc # "idle" => gate[g].token \in Token
  /\ probing \in [Probers -> Probe]
  /\ \A p \in Probers : probing[p].pc \in {"read", "called"} => probing[p].token \in Token
  /\ tabs \in [Tabs -> Tab] /\ \A c \in Tabs : tabs[c].pc = "got" => tabs[c].token \in Token
  /\ removal \in {"none", "read", "revoked", "deleting", "cleared"}
  /\ idp \in Provider /\ idp.live \subseteq 1..idp.issued
  /\ quotaRow \in BOOLEAN /\ excused \in BOOLEAN

\* Who holds the row, and what it finds there.
LockInv ==
  /\ rowLock = {} \/ rowLock = {"console"} \/ \E g \in Refreshers : rowLock = {g}
  /\ \A g \in Refreshers : gate[g].pc \in {"locked", "answered"} <=> g \in rowLock
  /\ removal \in {"deleting", "cleared"} <=> "console" \in rowLock
  /\ \A g \in Refreshers :
       /\ gate[g].pc = "answered" => conn.stage = "completed"
       /\ gate[g].pc = "locked" => conn.stage = "completed" /\ ~ conn.token.fresh /\ gate[g].token = conn.token

QuotaInv == QuotaRowsAreLive /\ (removal = "cleared" => ~ quotaRow)

\* The new refresh token in each hand, 0 if there is none.
Hands == ({"gate"} \X Refreshers) \cup ({"probe"} \X Probers) \cup ({"tab"} \X Tabs)

New(hand) ==
  CASE hand[1] = "gate" -> IF gate[hand[2]].pc = "answered" THEN gate[hand[2]].token.refresh ELSE 0
    [] hand[1] = "probe" -> IF probing[hand[2]].pc = "called" THEN probing[hand[2]].token.refresh ELSE 0
    [] OTHER -> IF tabs[hand[2]].pc = "got" THEN tabs[hand[2]].token.refresh ELSE 0

\* The refresh tokens that were read, or may be.
KnownTokens ==
  {n \in Int : conn.stage = "completed" /\ conn.token.refresh = n}
  \cup {gate[g].token.refresh : g \in {g \in Refreshers : gate[g].pc \in {"expired", "locked"}}}
  \cup {probing[p].token.refresh : p \in {p \in Probers : probing[p].pc = "read"}}

Distinct ==
  \A a \in Hands : New(a) # 0 => New(a) \notin KnownTokens /\ \A b \in Hands \ {a} : New(b) # New(a)

HandInv ==
  /\ (\A a \in Hands : New(a) \in 0..idp.issued) /\ KnownTokens \subseteq 1..idp.issued
  /\ idp.rotates => Distinct
  /\ ~ excused => \A a \in Hands : New(a) # 0 => New(a) \in idp.live
  /\ ~ excused /\ ~ idp.rotates => KnownTokens \subseteq idp.live

\* With rotation a token's seal is that of its refresh token.
SealInv ==
  idp.rotates =>
    /\ conn.stage = "completed" => conn.token.seal = conn.token.refresh
    /\ \A g \in Refreshers : gate[g].pc = "answered" => gate[g].token.seal = gate[g].token.refresh
    /\ \A p \in Probers :
         /\ probing[p].pc = "read" => probing[p].seal = probing[p].token.refresh
         /\ probing[p].pc = "called" => probing[p].token.seal = probing[p].token.refresh
    /\ \A c \in Tabs : tabs[c].pc = "got" => tabs[c].token.seal = tabs[c].token.refresh

\* The token of the connection is not lost.
Kept ==
  conn.stage = "completed" /\ ~ excused =>
    \/ conn.token.refresh \in idp.live
    \/ \E g \in Refreshers : gate[g].pc = "answered"
    \/ \E p \in Probers : probing[p].pc = "called" /\ MayReplace(p)

OAuthInv == OAuthTypeInv /\ LockInv /\ QuotaInv /\ HandInv /\ SealInv /\ Kept

----------------------------------------------------------------------------
(* Types. *)

LEMMA NoTokenIs == NoToken \in Tokens /\ NoToken \notin Token
BY DEF Tokens, NoToken, Token

LEMMA NobodyIs == Nobody \in Gate /\ Nobody \in Tab /\ Nobody.pc = "idle"
BY NoTokenIs DEF Nobody, Gate, Tab

LEMMA ProbesAre ==
  /\ NoProbe \in Probe /\ NoProbe.pc = "idle"
  /\ Resolved \in Probe /\ Resolved.pc = "resolved"
BY NoTokenIs, OAuthAssumption DEF NoProbe, Resolved, Probe

LEMMA TypeInit == OAuthInit => OAuthTypeInv
<1> SUFFICES ASSUME OAuthInit PROVE OAuthTypeInv
  OBVIOUS
<1>1. conn \in Conn /\ (conn.token \in Token <=> conn.stage = "completed")
  BY NoTokenIs DEF OAuthInit, NewConnection, Conn
<1>2. /\ gate \in [Refreshers -> Gate] /\ \A g \in Refreshers : gate[g].pc = "idle"
      /\ probing \in [Probers -> Probe] /\ \A p \in Probers : probing[p].pc = "idle"
      /\ tabs \in [Tabs -> Tab] /\ \A c \in Tabs : tabs[c].pc = "idle"
  BY NobodyIs, ProbesAre DEF OAuthInit
<1>3. idp.live = {} /\ idp.issued = 0 /\ idp \in Provider
  BY OAuthAssumption DEF OAuthInit, Provider
<1> QED BY <1>1, <1>2, <1>3 DEF OAuthInit, OAuthTypeInv

LEMMA IssuesType ==
  ASSUME OAuthTypeInv, NEW old, NEW token \in Token, Issues(old, token)
  PROVE  /\ idp' \in Provider /\ idp'.live \subseteq 1..idp'.issued
         /\ idp'.issued = idp.issued + 1 /\ idp'.rotates = idp.rotates
         /\ idp'.live \subseteq idp.live \cup {idp.issued + 1}
         /\ idp.live \ {old} \subseteq idp'.live
         /\ IF old = 0 \/ idp.rotates
            THEN token.refresh = idp.issued + 1 /\ idp.issued + 1 \in idp'.live
            ELSE token.refresh = old /\ idp'.live = idp.live
         /\ token.seal = idp.issued + 1
<1> DEFINE next == idp.issued + 1
           live == IF old = 0 \/ idp.rotates THEN (idp.live \ {old}) \cup {next} ELSE idp.live
<1>1. /\ idp \in Provider /\ idp.live \subseteq 1..idp.issued /\ idp.issued < MaxTokens
      /\ token.seal = next /\ token.refresh = IF old = 0 \/ idp.rotates THEN next ELSE old
      /\ idp' = [idp EXCEPT !.issued = next, !.live = live]
  BY DEF OAuthTypeInv, Issues
<1>2. next \in 0..MaxTokens /\ live \subseteq 1..next /\ live \subseteq 1..MaxTokens
  BY <1>1, OAuthAssumption DEF Provider
<1>3. idp' \in Provider /\ idp'.live = live /\ idp'.issued = next /\ idp'.rotates = idp.rotates
  BY <1>1, <1>2 DEF Provider
<1> QED BY <1>1, <1>2, <1>3

LEMMA TypeStep == OAuthInv /\ OAuthNext => OAuthTypeInv'
<1> SUFFICES ASSUME OAuthTypeInv, LockInv, OAuthNext PROVE OAuthTypeInv'
  BY DEF OAuthInv
<1> USE DEF OAuthTypeInv, Conn
<1>1. CASE StartCode BY <1>1, NoTokenIs DEF StartCode, NewConnection
<1>2. CASE StartDevice BY <1>2, NoTokenIs, NobodyIs DEF StartDevice, NewConnection
<1>3. CASE EditConnection BY <1>3 DEF EditConnection
<1>4. CASE TokenExpires BY <1>4 DEF TokenExpires, Token, Tokens, NoToken
<1>5. CASE ReadForRevoke BY <1>5 DEF ReadForRevoke
<1>6. CASE Revoke
  <2>1. CASE UNCHANGED <<idp, excused>>
    BY <1>6, <2>1 DEF Revoke
  <2>2. CASE idp' = [idp EXCEPT !.live = @ \ {conn.token.refresh}] /\ excused' = TRUE
    <3>1. /\ idp' \in Provider /\ idp'.live = idp.live \ {conn.token.refresh}
          /\ idp'.issued = idp.issued
      BY <2>2 DEF Provider
    <3> QED BY <1>6, <2>2, <3>1 DEF Revoke
  <2> QED BY <1>6, <2>1, <2>2 DEF Revoke
<1>7. CASE DeleteRow BY <1>7 DEF DeleteRow
<1>8. CASE ClearsQuota BY <1>8 DEF ClearsQuota
<1>9. CASE DeleteCommits BY <1>9, NoTokenIs DEF DeleteCommits
<1>10. ASSUME NEW c \in Tabs, ReadPending(c) PROVE OAuthTypeInv'
  BY <1>10 DEF ReadPending, Tab
<1>11. ASSUME NEW c \in Tabs, ExchangeCode(c) PROVE OAuthTypeInv'
  <2>1. CASE UNCHANGED idp /\ tabs' = [tabs EXCEPT ![c] = Nobody]
    BY <1>11, <2>1, NobodyIs DEF ExchangeCode
  <2>2. ASSUME NEW token \in Token, Issues(0, token),
               tabs' = [tabs EXCEPT ![c].pc = "got", ![c].token = token]
        PROVE OAuthTypeInv'
    BY <1>11, <2>2, IssuesType DEF ExchangeCode, Tab, Tokens
  <2> QED BY <1>11, <2>1, <2>2 DEF ExchangeCode, Receives
<1>12. ASSUME NEW c \in Tabs, PollDevice(c) PROVE OAuthTypeInv'
  <2>1. CASE UNCHANGED idp /\ tabs' = [tabs EXCEPT ![c] = Nobody]
    BY <1>12, <2>1, NobodyIs DEF PollDevice
  <2>2. ASSUME NEW token \in Token, Issues(0, token),
               tabs' = [tabs EXCEPT ![c].pc = "got", ![c].token = token]
        PROVE OAuthTypeInv'
    BY <1>12, <2>2, IssuesType DEF PollDevice, Tab, Tokens
  <2> QED BY <1>12, <2>1, <2>2 DEF PollDevice, Receives
<1>13. ASSUME NEW c \in Tabs, StoreToken(c) PROVE OAuthTypeInv'
  BY <1>13, NobodyIs DEF StoreToken, Tokens
<1>14. ASSUME NEW g \in Refreshers, ReadForRequest(g) PROVE OAuthTypeInv'
  BY <1>14 DEF ReadForRequest, Gate
<1>15. ASSUME NEW g \in Refreshers, LockRow(g) PROVE OAuthTypeInv'
  BY <1>15, NobodyIs DEF LockRow, Current, Gate
<1>16. ASSUME NEW g \in Refreshers, Refreshed(g) PROVE OAuthTypeInv'
  <2>1. CASE UNCHANGED idp /\ gate' = [gate EXCEPT ![g] = Nobody]
    BY <1>16, <2>1, NobodyIs DEF Refreshed
  <2>2. ASSUME NEW token \in Token, Issues(gate[g].token.refresh, token),
               gate' = [gate EXCEPT ![g] = [pc |-> "answered",
                  token |-> [token EXCEPT !.resource = @ \/ gate[g].token.resource]]]
        PROVE OAuthTypeInv'
    <3> DEFINE kept == [token EXCEPT !.resource = @ \/ gate[g].token.resource]
    <3>1. (token.resource \/ gate[g].token.resource) \in BOOLEAN
      BY Zenon
    <3>2. kept \in Token
      BY <3>1 DEF Token
    <3> QED BY <1>16, <2>2, <3>2, IssuesType DEF Refreshed, Gate, Tokens
  <2> QED BY <1>16, <2>1, <2>2 DEF Refreshed
<1>17. ASSUME NEW g \in Refreshers, StoreRefreshed(g) PROVE OAuthTypeInv'
  BY <1>17, NobodyIs DEF StoreRefreshed, LockInv, Tokens
<1>18. ASSUME NEW p \in Probers, ReadForProbe(p) PROVE OAuthTypeInv'
  <2>1. [pc |-> "read", token |-> conn.token, seal |-> conn.token.seal] \in Probe /\ conn.token \in Token
    BY <1>18 DEF ReadForProbe, Probe, Tokens, Token
  <2> QED BY <1>18, <2>1, ProbesAre DEF ReadForProbe
<1>19. ASSUME NEW p \in Probers, RefreshForProbe(p) PROVE OAuthTypeInv'
  <2>1. CASE UNCHANGED <<idp, excused>> /\ probing' = [probing EXCEPT ![p] = Resolved]
    BY <1>19, <2>1, ProbesAre DEF RefreshForProbe
  <2>2. ASSUME NEW token \in Token, Issues(probing[p].token.refresh, token),
               probing' = [probing EXCEPT ![p].pc = "called", ![p].token = token],
               excused' = (excused \/ ~ conn.enabled)
        PROVE OAuthTypeInv'
    <3>1. excused' \in BOOLEAN
      BY <2>2, Zenon
    <3>2. idp' \in Provider /\ idp'.live \subseteq 1..idp'.issued
      BY <2>2, IssuesType
    <3>3. [probing[p] EXCEPT !.pc = "called", !.token = token] \in Probe
      BY DEF Probe, Tokens
    <3>4. probing' = [probing EXCEPT ![p] = [probing[p] EXCEPT !.pc = "called", !.token = token]]
      BY <2>2
    <3>5. /\ probing' \in [Probers -> Probe] /\ probing'[p].token \in Token
          /\ \A q \in Probers \ {p} : probing'[q] = probing[q]
      BY <3>3, <3>4
    <3> QED BY <1>19, <3>1, <3>2, <3>5 DEF RefreshForProbe
  <2> QED BY <1>19, <2>1, <2>2 DEF RefreshForProbe
<1>20. ASSUME NEW p \in Probers, StoreForProbe(p) PROVE OAuthTypeInv'
  BY <1>20, ProbesAre DEF StoreForProbe, MayReplace, Tokens
<1>21. ASSUME NEW p \in Probers, Observe(p) PROVE OAuthTypeInv'
  BY <1>21, ProbesAre DEF Observe, Probe
<1>22. ASSUME NEW p \in Probers, UpdateQuota(p) PROVE OAuthTypeInv'
  BY <1>22, ProbesAre DEF UpdateQuota, Probe
<1>23. ASSUME NEW p \in Probers, InsertQuota(p) PROVE OAuthTypeInv'
  BY <1>23, ProbesAre DEF InsertQuota
<1> QED
  BY <1>1, <1>2, <1>3, <1>4, <1>5, <1>6, <1>7, <1>8, <1>9, <1>10, <1>11, <1>12, <1>13, <1>14, <1>15,
     <1>16, <1>17, <1>18, <1>19, <1>20, <1>21, <1>22, <1>23 DEF OAuthNext

----------------------------------------------------------------------------
(* The lock of the row, and the summary of the quota. *)

LEMMA LockStep == OAuthInv /\ OAuthNext => LockInv'
<1> SUFFICES ASSUME OAuthTypeInv, LockInv, OAuthNext PROVE LockInv'
  BY DEF OAuthInv
<1> USE OAuthAssumption DEF OAuthTypeInv, LockInv
<1>1. CASE StartCode BY <1>1 DEF StartCode, NewConnection
<1>2. CASE StartDevice BY <1>2 DEF StartDevice, NewConnection
<1>3. CASE EditConnection BY <1>3 DEF EditConnection, Conn
<1>4. CASE TokenExpires BY <1>4 DEF TokenExpires, Conn
<1>5. CASE ReadForRevoke BY <1>5 DEF ReadForRevoke
<1>6. CASE Revoke BY <1>6 DEF Revoke
<1>7. CASE DeleteRow BY <1>7 DEF DeleteRow
<1>8. CASE ClearsQuota BY <1>8 DEF ClearsQuota
<1>9. CASE DeleteCommits BY <1>9 DEF DeleteCommits, Conn
<1>10. ASSUME NEW c \in Tabs, ReadPending(c) \/ ExchangeCode(c) \/ PollDevice(c) PROVE LockInv'
  BY <1>10 DEF ReadPending, ExchangeCode, PollDevice
<1>11. ASSUME NEW c \in Tabs, StoreToken(c) PROVE LockInv'
  BY <1>11 DEF StoreToken
<1>12. ASSUME NEW g \in Refreshers, ReadForRequest(g) PROVE LockInv'
  BY <1>12 DEF ReadForRequest
<1>13. ASSUME NEW g \in Refreshers, LockRow(g) PROVE LockInv'
  BY <1>13, NobodyIs DEF LockRow, Current
<1>14. ASSUME NEW g \in Refreshers, Refreshed(g) PROVE LockInv'
  BY <1>14, NobodyIs DEF Refreshed
<1>15. ASSUME NEW g \in Refreshers, StoreRefreshed(g) PROVE LockInv'
  BY <1>15, NobodyIs DEF StoreRefreshed, Conn
<1>16. ASSUME NEW p \in Probers,
              \/ ReadForProbe(p) \/ RefreshForProbe(p)
              \/ Observe(p) \/ UpdateQuota(p) \/ InsertQuota(p)
       PROVE  LockInv'
  BY <1>16 DEF ReadForProbe, RefreshForProbe, Observe, UpdateQuota, InsertQuota
<1>17. ASSUME NEW p \in Probers, StoreForProbe(p) PROVE LockInv'
  BY <1>17 DEF StoreForProbe
<1> QED
  BY <1>1, <1>2, <1>3, <1>4, <1>5, <1>6, <1>7, <1>8, <1>9, <1>10, <1>11, <1>12, <1>13, <1>14, <1>15,
     <1>16, <1>17 DEF OAuthNext

LEMMA QuotaStep == OAuthInv /\ OAuthNext => QuotaInv'
<1> SUFFICES ASSUME OAuthTypeInv, LockInv, QuotaInv, OAuthNext PROVE QuotaInv'
  BY DEF OAuthInv
<1> USE OAuthAssumption DEF QuotaInv, QuotaRowsAreLive
<1>1. CASE StartCode BY <1>1 DEF StartCode, NewConnection
<1>2. CASE StartDevice BY <1>2 DEF StartDevice, NewConnection
<1>3. CASE EditConnection \/ TokenExpires
  <2>1. conn'.stage = conn.stage
    BY <1>3 DEF EditConnection, TokenExpires, OAuthTypeInv, Conn
  <2>2. UNCHANGED <<quotaRow, removal>>
    BY <1>3 DEF EditConnection, TokenExpires
  <2> QED BY <2>1, <2>2
<1>4. CASE ReadForRevoke \/ Revoke \/ DeleteRow
  BY <1>4 DEF ReadForRevoke, Revoke, DeleteRow
<1>5. CASE ClearsQuota BY <1>5 DEF ClearsQuota
<1>6. CASE DeleteCommits BY <1>6 DEF DeleteCommits
<1>7. ASSUME NEW c \in Tabs, ReadPending(c) \/ ExchangeCode(c) \/ PollDevice(c) PROVE QuotaInv'
  BY <1>7 DEF ReadPending, ExchangeCode, PollDevice
<1>8. ASSUME NEW c \in Tabs, StoreToken(c) PROVE QuotaInv'
  BY <1>8 DEF StoreToken, OAuthTypeInv, Conn
<1>9. ASSUME NEW g \in Refreshers, ReadForRequest(g) \/ LockRow(g) \/ Refreshed(g) PROVE QuotaInv'
  BY <1>9 DEF ReadForRequest, LockRow, Refreshed
<1>10. ASSUME NEW g \in Refreshers, StoreRefreshed(g) PROVE QuotaInv'
  BY <1>10 DEF StoreRefreshed, OAuthTypeInv, Conn
<1>11. ASSUME NEW p \in Probers, ReadForProbe(p) \/ RefreshForProbe(p) \/ Observe(p) \/ UpdateQuota(p)
       PROVE  QuotaInv'
  BY <1>11 DEF ReadForProbe, RefreshForProbe, Observe, UpdateQuota
<1>12. ASSUME NEW p \in Probers, StoreForProbe(p) PROVE QuotaInv'
  BY <1>12 DEF StoreForProbe, OAuthTypeInv, Conn
<1>13. ASSUME NEW p \in Probers, InsertQuota(p) PROVE QuotaInv'
  BY <1>13 DEF InsertQuota, LiveLocked, GoneLocked, LockInv
<1> QED
  BY <1>1, <1>2, <1>3, <1>4, <1>5, <1>6, <1>7, <1>8, <1>9, <1>10, <1>11, <1>12, <1>13 DEF OAuthNext

----------------------------------------------------------------------------
(* The hands and what they hold. *)

LEMMA HandsAre ==
  ASSUME NEW a \in Hands
  PROVE  \/ \E g \in Refreshers : a = <<"gate", g>>
         \/ \E p \in Probers : a = <<"probe", p>>
         \/ \E c \in Tabs : a = <<"tab", c>>
BY DEF Hands

LEMMA NewIs ==
  /\ \A g \in Refreshers :
       /\ <<"gate", g>> \in Hands
       /\ New(<<"gate", g>>) = IF gate[g].pc = "answered" THEN gate[g].token.refresh ELSE 0
  /\ \A p \in Probers :
       /\ <<"probe", p>> \in Hands
       /\ New(<<"probe", p>>) = IF probing[p].pc = "called" THEN probing[p].token.refresh ELSE 0
  /\ \A c \in Tabs :
       /\ <<"tab", c>> \in Hands
       /\ New(<<"tab", c>>) = IF tabs[c].pc = "got" THEN tabs[c].token.refresh ELSE 0
BY DEF New, Hands

\* A step of a gateway changes what that gateway holds.
LEMMA GateMoves ==
  ASSUME OAuthTypeInv, NEW g \in Refreshers, NEW next, gate' = [gate EXCEPT ![g] = next], UNCHANGED <<probing, tabs>>
  PROVE  /\ \A a \in Hands : a # <<"gate", g>> => New(a)' = New(a)
         /\ New(<<"gate", g>>)' = IF next.pc = "answered" THEN next.token.refresh ELSE 0
<1>1. ASSUME NEW a \in Hands, a # <<"gate", g>> PROVE New(a)' = New(a)
  <2>1. CASE \E h \in Refreshers : a = <<"gate", h>>
    <3>1. PICK h \in Refreshers : a = <<"gate", h>> BY <2>1
    <3>2. gate'[h] = gate[h] BY <1>1, <3>1 DEF OAuthTypeInv
    <3> QED BY <3>1, <3>2 DEF New
  <2>2. CASE (\E p \in Probers : a = <<"probe", p>>) \/ (\E c \in Tabs : a = <<"tab", c>>)
    BY <2>2 DEF New
  <2> QED BY <1>1, <2>1, <2>2, HandsAre
<1>2. gate'[g] = next BY DEF OAuthTypeInv
<1> QED BY <1>1, <1>2 DEF New

\* A step of a probe changes what that probe holds.
LEMMA ProbeMoves ==
  ASSUME OAuthTypeInv, NEW p \in Probers, NEW next, probing' = [probing EXCEPT ![p] = next], UNCHANGED <<gate, tabs>>
  PROVE  /\ \A a \in Hands : a # <<"probe", p>> => New(a)' = New(a)
         /\ New(<<"probe", p>>)' = IF next.pc = "called" THEN next.token.refresh ELSE 0
<1>1. ASSUME NEW a \in Hands, a # <<"probe", p>> PROVE New(a)' = New(a)
  <2>1. CASE \E q \in Probers : a = <<"probe", q>>
    <3>1. PICK q \in Probers : a = <<"probe", q>> BY <2>1
    <3>2. probing'[q] = probing[q] BY <1>1, <3>1 DEF OAuthTypeInv
    <3> QED BY <3>1, <3>2 DEF New
  <2>2. CASE (\E g \in Refreshers : a = <<"gate", g>>) \/ (\E c \in Tabs : a = <<"tab", c>>)
    BY <2>2 DEF New
  <2> QED BY <1>1, <2>1, <2>2, HandsAre
<1>2. probing'[p] = next BY DEF OAuthTypeInv
<1> QED BY <1>1, <1>2 DEF New

\* A step of a page changes what that page holds.
LEMMA TabMoves ==
  ASSUME OAuthTypeInv, NEW c \in Tabs, NEW next, tabs' = [tabs EXCEPT ![c] = next], UNCHANGED <<gate, probing>>
  PROVE  /\ \A a \in Hands : a # <<"tab", c>> => New(a)' = New(a)
         /\ New(<<"tab", c>>)' = IF next.pc = "got" THEN next.token.refresh ELSE 0
<1>1. ASSUME NEW a \in Hands, a # <<"tab", c>> PROVE New(a)' = New(a)
  <2>1. CASE \E d \in Tabs : a = <<"tab", d>>
    <3>1. PICK d \in Tabs : a = <<"tab", d>> BY <2>1
    <3>2. tabs'[d] = tabs[d] BY <1>1, <3>1 DEF OAuthTypeInv
    <3> QED BY <3>1, <3>2 DEF New
  <2>2. CASE (\E g \in Refreshers : a = <<"gate", g>>) \/ (\E p \in Probers : a = <<"probe", p>>)
    BY <2>2 DEF New
  <2> QED BY <1>1, <2>1, <2>2, HandsAre
<1>2. tabs'[c] = next BY DEF OAuthTypeInv
<1> QED BY <1>1, <1>2 DEF New

\* Nobody is given a token, and nobody learns of one.
LEMMA HandsStill ==
  ASSUME OAuthTypeInv, HandInv, idp' = idp, excused => excused',
         \A a \in Hands : New(a)' \in {New(a), 0}, KnownTokens' \subseteq KnownTokens
  PROVE  HandInv'
<1>1. \A a \in Hands : New(a)' \in 0..idp.issued
  BY DEF HandInv, OAuthTypeInv, Provider
<1>2. KnownTokens' \subseteq 1..idp.issued
  BY DEF HandInv
<1>3. idp.rotates => Distinct'
  BY DEF HandInv, Distinct
<1>4. ~ excused' => \A a \in Hands : New(a)' # 0 => New(a)' \in idp.live
  BY DEF HandInv
<1>5. ~ excused' /\ ~ idp.rotates => KnownTokens' \subseteq idp.live
  BY DEF HandInv
<1> QED BY <1>1, <1>2, <1>3, <1>4, <1>5 DEF HandInv

\* A known token, or a code, is exchanged.
LEMMA HandIsGiven ==
  ASSUME OAuthTypeInv, HandInv, NEW h \in Hands, NEW old \in KnownTokens \cup {0}, NEW token \in Token,
         Issues(old, token), excused => excused',
         New(h)' = token.refresh, \A a \in Hands : a # h => New(a)' = New(a), KnownTokens' \subseteq KnownTokens
  PROVE  HandInv'
<1> DEFINE next == idp.issued + 1
           new == old = 0 \/ idp.rotates
<1>1. /\ idp'.issued = next /\ idp'.rotates = idp.rotates
      /\ idp.live \ {old} \subseteq idp'.live
      /\ idp'.live \subseteq idp.live \cup {next}
      /\ IF new THEN token.refresh = next /\ next \in idp'.live
         ELSE token.refresh = old /\ idp'.live = idp.live
  BY IssuesType
<1>2. idp.issued \in Nat /\ KnownTokens \subseteq 1..idp.issued /\ \A a \in Hands : New(a) \in 0..idp.issued
  BY DEF HandInv, OAuthTypeInv, Provider
<1>3. \A a \in Hands : New(a)' \in 0..idp'.issued
  <2>1. idp'.issued = idp.issued + 1 BY <1>1
  <2>2. token.refresh \in 0..idp'.issued
    <3>1. token.refresh = idp.issued + 1 \/ token.refresh = old BY <1>1
    <3>2. old \in 0..idp.issued BY <1>2
    <3> QED BY <1>2, <2>1, <3>1, <3>2
  <2>3. ASSUME NEW a \in Hands PROVE New(a)' \in 0..idp'.issued
    <3>1. New(a)' = token.refresh \/ New(a)' = New(a) BY Zenon
    <3>2. New(a) \in 0..idp.issued BY <1>2
    <3> QED BY <1>2, <2>1, <2>2, <3>1, <3>2
  <2> QED BY <2>3
<1>4. KnownTokens' \subseteq 1..idp'.issued
  <2>1. 1..idp.issued \subseteq 1..idp'.issued
    <3>1. idp'.issued = idp.issued + 1 BY <1>1
    <3> QED BY <1>2, <3>1
  <2> QED BY <1>2, <2>1
<1>5. ASSUME idp'.rotates PROVE Distinct'
  <2>1. New(h)' = next /\ next \notin KnownTokens /\ \A a \in Hands : New(a) # next
    BY <1>1, <1>2, <1>5
  <2>2. \A a \in Hands : New(a) # 0 => New(a) \notin KnownTokens /\ \A b \in Hands \ {a} : New(b) # New(a)
    BY <1>1, <1>5 DEF HandInv, Distinct
  <2>3. ASSUME NEW a \in Hands, New(a)' # 0 PROVE New(a)' \notin KnownTokens'
    BY <2>1, <2>2, <2>3
  <2>4. ASSUME NEW a \in Hands, New(a)' # 0, NEW b \in Hands \ {a} PROVE New(b)' # New(a)'
    <3>1. CASE a = h BY <2>1, <3>1
    <3>2. CASE b = h BY <2>1, <2>4, <3>2
    <3>3. CASE a # h /\ b # h BY <2>2, <2>4, <3>3
    <3> QED BY <3>1, <3>2, <3>3
  <2> QED BY <2>3, <2>4 DEF Distinct
<1>6. ASSUME ~ excused', NEW a \in Hands, New(a)' # 0 PROVE New(a)' \in idp'.live
  <2>1. CASE a = h /\ new BY <1>1, <2>1
  <2>2. CASE a = h /\ ~ new BY <1>1, <1>2, <1>6, <2>2 DEF HandInv
  <2>3. CASE a # h
    <3>1. New(a)' = New(a) /\ New(a) \in idp.live BY <1>6, <2>3 DEF HandInv
    <3>2. idp.rotates => New(a) # old BY <1>6, <3>1 DEF HandInv, Distinct
    <3>3. New(a) # old \/ old = 0 \/ ~ idp.rotates BY <3>2
    <3> QED BY <1>1, <1>6, <3>1, <3>3
  <2> QED BY <2>1, <2>2, <2>3
<1>7. ~ excused' /\ ~ idp'.rotates => KnownTokens' \subseteq idp'.live
  BY <1>1, <1>2 DEF HandInv
<1> QED BY <1>3, <1>4, <1>5, <1>6, <1>7 DEF HandInv

\* What a hand holds is stored, and known from then on.
LEMMA HandIsEmptied ==
  ASSUME OAuthTypeInv, HandInv, NEW h \in Hands, New(h) # 0, idp' = idp, excused => excused',
         New(h)' = 0, \A a \in Hands : a # h => New(a)' = New(a), KnownTokens' \subseteq KnownTokens \cup {New(h)}
  PROVE  HandInv'
<1>1. idp.issued \in Nat /\ \A a \in Hands : New(a)' \in 0..idp.issued
  BY DEF HandInv, OAuthTypeInv, Provider
<1>2. KnownTokens' \subseteq 1..idp.issued
  BY <1>1 DEF HandInv
<1>3. idp.rotates => Distinct'
  BY DEF HandInv, Distinct
<1>4. ~ excused' => \A a \in Hands : New(a)' # 0 => New(a)' \in idp.live
  BY DEF HandInv
<1>5. ~ excused' /\ ~ idp.rotates => KnownTokens' \subseteq idp.live
  BY DEF HandInv
<1> QED BY <1>1, <1>2, <1>3, <1>4, <1>5 DEF HandInv

\* Every token that is read has a number.
LEMMA TokenNumber ==
  ASSUME NEW token \in Token
  PROVE  token.refresh \in 1..MaxTokens /\ token.refresh \in Int /\ token.refresh # 0 /\ token \in Tokens
BY OAuthAssumption DEF Token, Tokens

\* A step that leaves gateways, probes and pages alone.
LEMMA HandsAlone ==
  ASSUME OAuthTypeInv, HandInv, UNCHANGED <<gate, probing, tabs, idp>>, excused => excused',
         conn'.stage = "completed" => conn.stage = "completed" /\ conn'.token.refresh = conn.token.refresh
  PROVE  HandInv'
<1>1. \A a \in Hands : New(a)' = New(a)
  BY DEF New
<1>2. KnownTokens' \subseteq KnownTokens
  BY DEF KnownTokens
<1> QED BY <1>1, <1>2, HandsStill

\* A page gets a token for its code.
LEMMA HandReceives ==
  ASSUME OAuthTypeInv, HandInv, NEW c \in Tabs, Receives(c),
         UNCHANGED <<conn, gate, probing, excused>>
  PROVE  HandInv'
<1>1. PICK token \in Token :
        Issues(0, token) /\ tabs' = [tabs EXCEPT ![c].pc = "got", ![c].token = token]
  BY DEF Receives
<1> DEFINE next == [tabs[c] EXCEPT !.pc = "got", !.token = token]
<1>2. tabs' = [tabs EXCEPT ![c] = next] /\ next.pc = "got" /\ next.token = token
  BY <1>1 DEF OAuthTypeInv, Tab
<1> HIDE DEF next
<1>3. New(<<"tab", c>>)' = token.refresh /\ \A a \in Hands : a # <<"tab", c>> => New(a)' = New(a)
  BY <1>2, TabMoves
<1>4. KnownTokens' \subseteq KnownTokens
  BY DEF KnownTokens
<1>5. <<"tab", c>> \in Hands
  BY NewIs
<1> QED BY <1>1, <1>3, <1>4, <1>5, HandIsGiven

LEMMA HandStep == OAuthInv /\ OAuthNext => HandInv'
<1> SUFFICES ASSUME OAuthTypeInv, OAuthTypeInv', LockInv, HandInv, OAuthNext PROVE HandInv'
  BY TypeStep DEF OAuthInv
<1> USE DEF OAuthTypeInv
<1>1. CASE StartCode
  BY <1>1, HandsAlone DEF StartCode, NewConnection
<1>2. CASE StartDevice
  <2>1. \A a \in Hands : New(a)' \in {New(a), 0}
    BY <1>2, NobodyIs DEF StartDevice, New, Hands
  <2>2. KnownTokens' \subseteq KnownTokens
    BY <1>2 DEF StartDevice, NewConnection, KnownTokens
  <2> QED BY <1>2, <2>1, <2>2, HandsStill DEF StartDevice
<1>3. CASE EditConnection
  <2>1. conn'.stage = conn.stage /\ conn'.token = conn.token
    BY <1>3 DEF EditConnection, Conn
  <2>2. UNCHANGED <<gate, probing, tabs, idp>> /\ (excused => excused')
    BY <1>3 DEF EditConnection
  <2> QED BY <2>1, <2>2, HandsAlone
<1>4. CASE TokenExpires
  <2>1. conn'.stage = conn.stage /\ conn'.token.refresh = conn.token.refresh
    BY <1>4 DEF TokenExpires, Conn, Token
  <2> QED BY <1>4, <2>1, HandsAlone DEF TokenExpires
<1>5. CASE ReadForRevoke \/ DeleteRow \/ ClearsQuota
  BY <1>5, HandsAlone DEF ReadForRevoke, DeleteRow, ClearsQuota
<1>6. CASE Revoke
  <2>1. CASE UNCHANGED <<idp, excused>>
    BY <1>6, <2>1, HandsAlone DEF Revoke
  <2>2. CASE idp' = [idp EXCEPT !.live = @ \ {conn.token.refresh}] /\ excused' = TRUE
    <3>1. idp'.issued = idp.issued /\ idp'.rotates = idp.rotates
      BY <2>2 DEF Provider
    <3>2. (\A a \in Hands : New(a)' = New(a)) /\ KnownTokens' = KnownTokens
      BY <1>6 DEF Revoke, New, KnownTokens
    <3>3. (\A a \in Hands : New(a)' \in 0..idp'.issued) /\ KnownTokens' \subseteq 1..idp'.issued
      BY <3>1, <3>2 DEF HandInv
    <3>4. idp'.rotates => Distinct'
      BY <3>1, <3>2 DEF HandInv, Distinct
    <3> QED BY <2>2, <3>3, <3>4 DEF HandInv
  <2> QED BY <1>6, <2>1, <2>2 DEF Revoke
<1>7. CASE DeleteCommits
  BY <1>7, HandsAlone DEF DeleteCommits, Conn
<1>8. ASSUME NEW c \in Tabs, ReadPending(c) PROVE HandInv'
  <2> DEFINE next == [tabs[c] EXCEPT !.pc = conn.flow]
  <2>1. tabs' = [tabs EXCEPT ![c] = next]
    BY <1>8 DEF ReadPending
  <2>2. next.pc # "got"
    BY DEF Conn, Tab
  <2> HIDE DEF next
  <2>3. \A a \in Hands : New(a)' \in {New(a), 0}
    <3>1. UNCHANGED <<gate, probing>>
      BY <1>8 DEF ReadPending
    <3> QED BY <2>1, <2>2, <3>1, TabMoves
  <2>4. KnownTokens' \subseteq KnownTokens
    BY <1>8 DEF ReadPending, KnownTokens
  <2> QED BY <1>8, <2>3, <2>4, HandsStill DEF ReadPending
<1>9. ASSUME NEW c \in Tabs, ExchangeCode(c) \/ PollDevice(c) PROVE HandInv'
  <2>1. CASE Receives(c)
    BY <1>9, <2>1, HandReceives DEF ExchangeCode, PollDevice
  <2>2. CASE tabs' = [tabs EXCEPT ![c] = Nobody] /\ UNCHANGED idp
    <3>1. \A a \in Hands : New(a)' \in {New(a), 0}
      BY <1>9, <2>2, TabMoves, NobodyIs DEF ExchangeCode, PollDevice
    <3>2. KnownTokens' \subseteq KnownTokens
      BY <1>9 DEF ExchangeCode, PollDevice, KnownTokens
    <3> QED BY <1>9, <2>2, <3>1, <3>2, HandsStill DEF ExchangeCode, PollDevice
  <2> QED BY <1>9, <2>1, <2>2 DEF ExchangeCode, PollDevice
<1>10. ASSUME NEW c \in Tabs, StoreToken(c) PROVE HandInv'
  <2>1. tabs[c].pc = "got" /\ tabs[c].token \in Token /\ tabs' = [tabs EXCEPT ![c] = Nobody]
    BY <1>10 DEF StoreToken
  <2>2. New(<<"tab", c>>) = tabs[c].token.refresh /\ New(<<"tab", c>>) # 0 /\ <<"tab", c>> \in Hands
    BY <2>1, NewIs, TokenNumber
  <2>3. New(<<"tab", c>>)' = 0 /\ \A a \in Hands : a # <<"tab", c>> => New(a)' = New(a)
    BY <1>10, <2>1, TabMoves, NobodyIs DEF StoreToken
  <2>4. conn' = conn \/ conn'.token = tabs[c].token
    BY <1>10 DEF StoreToken, Conn
  <2>5. KnownTokens' \subseteq KnownTokens \cup {New(<<"tab", c>>)}
    BY <1>10, <2>2, <2>4 DEF StoreToken, KnownTokens
  <2> QED BY <1>10, <2>2, <2>3, <2>5, HandIsEmptied DEF StoreToken
<1>11. ASSUME NEW g \in Refreshers, ReadForRequest(g) \/ LockRow(g) PROVE HandInv'
  <2>1. PICK next : /\ gate' = [gate EXCEPT ![g] = next]
                    /\ \/ next.pc = "idle"
                       \/ next.pc \in {"expired", "locked"} /\ conn.stage = "completed" /\ next.token = conn.token
    BY <1>11, NobodyIs DEF ReadForRequest, LockRow, Current
  <2>2. \A a \in Hands : New(a)' \in {New(a), 0}
    BY <1>11, <2>1, GateMoves DEF ReadForRequest, LockRow
  <2>3. \A h \in Refreshers : gate'[h] = IF h = g THEN next ELSE gate[h]
    BY <2>1
  <2>4. conn.stage = "completed" => conn.token.refresh \in KnownTokens
    BY TokenNumber DEF KnownTokens
  <2>5. KnownTokens' \subseteq KnownTokens
    BY <1>11, <2>1, <2>3, <2>4 DEF ReadForRequest, LockRow, KnownTokens
  <2> QED BY <1>11, <2>2, <2>5, HandsStill DEF ReadForRequest, LockRow
<1>12. ASSUME NEW g \in Refreshers, Refreshed(g) PROVE HandInv'
  <2>1. gate[g].pc = "locked" /\ gate[g].token.refresh \in KnownTokens
    BY <1>12 DEF Refreshed, KnownTokens
  <2>2. ASSUME NEW next, gate' = [gate EXCEPT ![g] = next], next.pc \notin {"expired", "locked"}
        PROVE  KnownTokens' \subseteq KnownTokens
    <3>1. \A h \in Refreshers : gate'[h] = IF h = g THEN next ELSE gate[h]
      BY <2>2
    <3> QED BY <1>12, <2>2, <3>1 DEF Refreshed, KnownTokens
  <2>3. CASE gate' = [gate EXCEPT ![g] = Nobody] /\ UNCHANGED idp
    <3>1. \A a \in Hands : New(a)' \in {New(a), 0}
      BY <1>12, <2>3, GateMoves, NobodyIs DEF Refreshed
    <3>2. KnownTokens' \subseteq KnownTokens
      BY <2>2, <2>3, NobodyIs
    <3> QED BY <1>12, <2>3, <3>1, <3>2, HandsStill DEF Refreshed
  <2>4. ASSUME NEW token \in Token, Issues(gate[g].token.refresh, token),
               gate' = [gate EXCEPT ![g] = [pc |-> "answered",
                  token |-> [token EXCEPT !.resource = @ \/ gate[g].token.resource]]]
        PROVE HandInv'
    <3> DEFINE next == [pc |-> "answered",
                  token |-> [token EXCEPT !.resource = @ \/ gate[g].token.resource]]
    <3>1. next.pc = "answered" /\ next.token.refresh = token.refresh
      BY DEF Token
    <3>2. gate' = [gate EXCEPT ![g] = next]
      BY <2>4
    <3> HIDE DEF next
    <3>3. New(<<"gate", g>>)' = token.refresh /\ \A a \in Hands : a # <<"gate", g>> => New(a)' = New(a)
      BY <1>12, <3>1, <3>2, GateMoves DEF Refreshed
    <3>4. KnownTokens' \subseteq KnownTokens
      BY <2>2, <3>1, <3>2
    <3>5. <<"gate", g>> \in Hands
      BY NewIs
    <3> QED BY <1>12, <2>1, <2>4, <3>3, <3>4, <3>5, HandIsGiven DEF Refreshed
  <2> QED BY <1>12, <2>3, <2>4 DEF Refreshed
<1>13. ASSUME NEW g \in Refreshers, StoreRefreshed(g) PROVE HandInv'
  <2>1. gate[g].pc = "answered" /\ gate[g].token \in Token /\ gate' = [gate EXCEPT ![g] = Nobody]
    BY <1>13 DEF StoreRefreshed
  <2>2. New(<<"gate", g>>) = gate[g].token.refresh /\ New(<<"gate", g>>) # 0 /\ <<"gate", g>> \in Hands
    BY <2>1, NewIs, TokenNumber
  <2>3. New(<<"gate", g>>)' = 0 /\ \A a \in Hands : a # <<"gate", g>> => New(a)' = New(a)
    BY <1>13, <2>1, GateMoves, NobodyIs DEF StoreRefreshed
  <2>4. conn' = conn \/ conn'.token = gate[g].token
    BY <1>13 DEF StoreRefreshed, Conn
  <2>5. \A h \in Refreshers : gate'[h].pc \in {"expired", "locked"} => gate'[h] = gate[h]
    BY <2>1, NobodyIs
  <2>6. KnownTokens' \subseteq KnownTokens \cup {New(<<"gate", g>>)}
    BY <1>13, <2>2, <2>4, <2>5 DEF StoreRefreshed, KnownTokens
  <2> QED BY <1>13, <2>2, <2>3, <2>6, HandIsEmptied DEF StoreRefreshed
<1>14. ASSUME NEW p \in Probers, ReadForProbe(p) PROVE HandInv'
  <2>1. PICK next : /\ probing' = [probing EXCEPT ![p] = next]
                    /\ \/ next.pc = "resolved"
                       \/ next.pc = "read" /\ next.token = conn.token
    <3> DEFINE read == [pc |-> "read", token |-> conn.token, seal |-> conn.token.seal]
    <3>1. read.pc = "read" /\ read.token = conn.token
      OBVIOUS
    <3>2. probing' = [probing EXCEPT ![p] = IF conn.token.fresh THEN Resolved ELSE read]
      BY <1>14 DEF ReadForProbe
    <3> HIDE DEF read
    <3>3. CASE conn.token.fresh BY <3>2, <3>3, ProbesAre
    <3>4. CASE ~ conn.token.fresh BY <3>1, <3>2, <3>4
    <3> QED BY <3>3, <3>4
  <2>2. \A a \in Hands : New(a)' \in {New(a), 0}
    <3>1. next.pc # "called" /\ UNCHANGED <<gate, tabs>>
      BY <1>14, <2>1 DEF ReadForProbe
    <3> QED BY <2>1, <3>1, ProbeMoves
  <2>3. \A q \in Probers : probing'[q] = IF q = p THEN next ELSE probing[q]
    BY <2>1
  <2>4. conn.token.refresh \in KnownTokens
    BY <1>14, TokenNumber DEF KnownTokens, ReadForProbe
  <2>5. KnownTokens' \subseteq KnownTokens
    BY <1>14, <2>1, <2>3, <2>4 DEF ReadForProbe, KnownTokens
  <2> QED BY <1>14, <2>2, <2>5, HandsStill DEF ReadForProbe
<1>15. ASSUME NEW p \in Probers, RefreshForProbe(p) PROVE HandInv'
  <2>1. probing[p].pc = "read" /\ probing[p].token.refresh \in KnownTokens
    BY <1>15 DEF RefreshForProbe, KnownTokens
  <2>2. ASSUME NEW next, probing' = [probing EXCEPT ![p] = next], next.pc # "read"
        PROVE  KnownTokens' \subseteq KnownTokens
    <3>1. \A q \in Probers : probing'[q] = IF q = p THEN next ELSE probing[q]
      BY <2>2
    <3> QED BY <1>15, <2>2, <3>1 DEF RefreshForProbe, KnownTokens
  <2>3. CASE UNCHANGED <<idp, excused>> /\ probing' = [probing EXCEPT ![p] = Resolved]
    <3>1. \A a \in Hands : New(a)' \in {New(a), 0}
      BY <1>15, <2>3, ProbeMoves, ProbesAre DEF RefreshForProbe
    <3>2. KnownTokens' \subseteq KnownTokens
      BY <2>2, <2>3, ProbesAre
    <3> QED BY <1>15, <2>3, <3>1, <3>2, HandsStill DEF RefreshForProbe
  <2>4. ASSUME NEW token \in Token, Issues(probing[p].token.refresh, token),
               probing' = [probing EXCEPT ![p].pc = "called", ![p].token = token],
               excused' = (excused \/ ~ conn.enabled)
        PROVE HandInv'
    <3> DEFINE next == [probing[p] EXCEPT !.pc = "called", !.token = token]
    <3>1. next.pc = "called" /\ next.token = token
      BY DEF Probe
    <3>2. probing' = [probing EXCEPT ![p] = next]
      BY <2>4
    <3> HIDE DEF next
    <3>3. New(<<"probe", p>>)' = token.refresh /\ \A a \in Hands : a # <<"probe", p>> => New(a)' = New(a)
      BY <1>15, <3>1, <3>2, ProbeMoves DEF RefreshForProbe
    <3>4. KnownTokens' \subseteq KnownTokens
      BY <2>2, <3>1, <3>2
    <3>5. <<"probe", p>> \in Hands
      BY NewIs
    <3> QED BY <2>1, <2>4, <3>3, <3>4, <3>5, HandIsGiven
  <2> QED BY <1>15, <2>3, <2>4 DEF RefreshForProbe
<1>16. ASSUME NEW p \in Probers, StoreForProbe(p) PROVE HandInv'
  <2>1. probing[p].pc = "called" /\ probing[p].token \in Token
    BY <1>16 DEF StoreForProbe
  <2>2. PICK next : probing' = [probing EXCEPT ![p] = next] /\ next.pc \in {"idle", "resolved"}
    BY <1>16, ProbesAre DEF StoreForProbe
  <2>3. New(<<"probe", p>>) = probing[p].token.refresh /\ New(<<"probe", p>>) # 0 /\ <<"probe", p>> \in Hands
    BY <2>1, NewIs, TokenNumber
  <2>4. New(<<"probe", p>>)' = 0 /\ \A a \in Hands : a # <<"probe", p>> => New(a)' = New(a)
    BY <1>16, <2>2, ProbeMoves DEF StoreForProbe
  <2>5. conn' = conn \/ conn'.token = probing[p].token
    BY <1>16 DEF StoreForProbe, Conn
  <2>6. conn'.stage = conn.stage
    BY <1>16 DEF StoreForProbe, Conn
  <2>7. \A q \in Probers : probing'[q].pc = "read" => probing'[q] = probing[q]
    BY <2>2
  <2>8. KnownTokens' \subseteq KnownTokens \cup {New(<<"probe", p>>)}
    BY <1>16, <2>3, <2>5, <2>6, <2>7 DEF StoreForProbe, KnownTokens
  <2> QED BY <1>16, <2>3, <2>4, <2>8, HandIsEmptied DEF StoreForProbe
<1>17. ASSUME NEW p \in Probers, Observe(p) \/ UpdateQuota(p) \/ InsertQuota(p) PROVE HandInv'
  <2>1. PICK next : probing' = [probing EXCEPT ![p] = next] /\ next.pc \in {"idle", "found", "missed"}
    BY <1>17, ProbesAre DEF Observe, UpdateQuota, InsertQuota, Probe
  <2>2. \A a \in Hands : New(a)' \in {New(a), 0}
    BY <1>17, <2>1, ProbeMoves DEF Observe, UpdateQuota, InsertQuota
  <2>3. \A q \in Probers : probing'[q].pc = "read" => probing'[q] = probing[q]
    BY <2>1
  <2>4. KnownTokens' \subseteq KnownTokens
    BY <1>17, <2>3 DEF Observe, UpdateQuota, InsertQuota, KnownTokens
  <2> QED BY <1>17, <2>2, <2>4, HandsStill DEF Observe, UpdateQuota, InsertQuota
<1> QED
  BY <1>1, <1>2, <1>3, <1>4, <1>5, <1>6, <1>7, <1>8, <1>9, <1>10, <1>11, <1>12, <1>13, <1>14, <1>15,
     <1>16, <1>17 DEF OAuthNext

----------------------------------------------------------------------------
(* Seals. *)

\* A provider that rotates seals a token under its own number.
LEMMA SealedTogether ==
  ASSUME OAuthTypeInv, idp.rotates, NEW old, NEW token \in Token, Issues(old, token)
  PROVE  token.seal = token.refresh
BY IssuesType

LEMMA SealStep == OAuthInv /\ OAuthNext => SealInv'
<1> SUFFICES ASSUME OAuthTypeInv, SealInv, idp.rotates, OAuthNext PROVE SealInv'
  <2>1. ASSUME OAuthTypeInv, OAuthNext, idp'.rotates PROVE idp.rotates
    <3>1. CASE UNCHANGED idp BY <2>1, <3>1
    <3>2. CASE Revoke BY <2>1, <3>2 DEF Revoke, OAuthTypeInv, Provider
    <3>3. ASSUME NEW old, NEW token \in Token, Issues(old, token) PROVE idp.rotates
      BY <2>1, <3>3, IssuesType
    <3> QED
      BY <2>1, <3>1, <3>2, <3>3
      DEF OAuthNext, StartCode, StartDevice, EditConnection, TokenExpires, ReadForRevoke, DeleteRow, ClearsQuota,
          DeleteCommits, ReadPending, ExchangeCode, PollDevice, Receives, StoreToken, ReadForRequest, LockRow,
          Refreshed, StoreRefreshed, ReadForProbe, RefreshForProbe, StoreForProbe, Observe, UpdateQuota, InsertQuota
  <2> QED BY <2>1 DEF OAuthInv, SealInv
<1> USE DEF OAuthTypeInv, SealInv
<1>1. CASE StartCode BY <1>1 DEF StartCode, NewConnection
<1>2. CASE StartDevice BY <1>2, NobodyIs DEF StartDevice, NewConnection
<1>3. CASE EditConnection
  <2>1. conn'.token = conn.token /\ conn'.stage = conn.stage
    BY <1>3 DEF EditConnection, Conn
  <2>2. UNCHANGED <<gate, probing, tabs, idp>>
    BY <1>3 DEF EditConnection
  <2> QED BY <2>1, <2>2
<1>4. CASE TokenExpires BY <1>4 DEF TokenExpires, Conn, Token
<1>5. CASE ReadForRevoke \/ DeleteRow \/ ClearsQuota
  BY <1>5 DEF ReadForRevoke, DeleteRow, ClearsQuota
<1>6. CASE Revoke BY <1>6 DEF Revoke
<1>7. CASE DeleteCommits BY <1>7 DEF DeleteCommits, Conn
<1>8. ASSUME NEW c \in Tabs, ReadPending(c) PROVE SealInv'
  <2>1. tabs'[c].pc # "got" /\ \A d \in Tabs \ {c} : tabs'[d] = tabs[d]
    BY <1>8 DEF ReadPending, Conn, Tab
  <2> QED BY <1>8, <2>1 DEF ReadPending
<1>9. ASSUME NEW c \in Tabs, ExchangeCode(c) \/ PollDevice(c) PROVE SealInv'
  <2>1. (tabs'[c].pc = "got" => tabs'[c].token.seal = tabs'[c].token.refresh) /\ \A d \in Tabs \ {c} : tabs'[d] = tabs[d]
    <3>1. CASE Receives(c)
      <4>1. PICK token \in Token :
              Issues(0, token) /\ tabs' = [tabs EXCEPT ![c].pc = "got", ![c].token = token]
        BY <3>1 DEF Receives
      <4> QED BY <4>1, SealedTogether DEF Tab
    <3>2. CASE tabs' = [tabs EXCEPT ![c] = Nobody]
      BY <3>2, NobodyIs
    <3> QED BY <1>9, <3>1, <3>2 DEF ExchangeCode, PollDevice
  <2> QED BY <1>9, <2>1 DEF ExchangeCode, PollDevice
<1>10. ASSUME NEW c \in Tabs, StoreToken(c) PROVE SealInv'
  <2>1. conn' = conn \/ conn'.token = tabs[c].token
    BY <1>10 DEF StoreToken, Conn
  <2>2. conn' = conn \/ conn'.token.seal = conn'.token.refresh
    BY <1>10, <2>1 DEF StoreToken
  <2>3. \A d \in Tabs : tabs'[d].pc = "got" => tabs'[d] = tabs[d]
    BY <1>10, NobodyIs DEF StoreToken
  <2> QED BY <1>10, <2>2, <2>3 DEF StoreToken
<1>11. ASSUME NEW g \in Refreshers, ReadForRequest(g) \/ LockRow(g) PROVE SealInv'
  <2>1. \A h \in Refreshers : gate'[h].pc = "answered" => gate'[h] = gate[h]
    BY <1>11, NobodyIs DEF ReadForRequest, LockRow
  <2> QED BY <1>11, <2>1 DEF ReadForRequest, LockRow
<1>12. ASSUME NEW g \in Refreshers, Refreshed(g) PROVE SealInv'
  <2>1. CASE gate' = [gate EXCEPT ![g] = Nobody]
    <3>1. \A h \in Refreshers : gate'[h].pc = "answered" => gate'[h] = gate[h]
      BY <2>1, NobodyIs
    <3> QED BY <1>12, <3>1 DEF Refreshed
  <2>2. ASSUME NEW token \in Token, Issues(gate[g].token.refresh, token),
               gate' = [gate EXCEPT ![g] = [pc |-> "answered",
                  token |-> [token EXCEPT !.resource = @ \/ gate[g].token.resource]]]
        PROVE SealInv'
    <3>1. gate'[g].token.seal = token.seal /\ gate'[g].token.refresh = token.refresh
      BY <2>2 DEF Token
    <3>2. \A h \in Refreshers \ {g} : gate'[h] = gate[h]
      BY <2>2
    <3> QED BY <1>12, <2>2, <3>1, <3>2, SealedTogether DEF Refreshed
  <2> QED BY <1>12, <2>1, <2>2 DEF Refreshed
<1>13. ASSUME NEW g \in Refreshers, StoreRefreshed(g) PROVE SealInv'
  <2>1. conn' = conn \/ (conn'.token = gate[g].token /\ conn'.token.seal = conn'.token.refresh)
    BY <1>13 DEF StoreRefreshed, Conn
  <2>2. \A h \in Refreshers : gate'[h].pc = "answered" => gate'[h] = gate[h]
    BY <1>13, NobodyIs DEF StoreRefreshed
  <2> QED BY <1>13, <2>1, <2>2 DEF StoreRefreshed
<1>14. ASSUME NEW p \in Probers, ReadForProbe(p) PROVE SealInv'
  <2>1. /\ probing'[p].pc \in {"resolved", "read"}
        /\ probing'[p].pc = "read" => probing'[p].token = conn.token /\ probing'[p].seal = conn.token.seal
        /\ \A q \in Probers \ {p} : probing'[q] = probing[q]
    <3> DEFINE read == [pc |-> "read", token |-> conn.token, seal |-> conn.token.seal]
    <3>1. read.pc = "read" /\ read.token = conn.token /\ read.seal = conn.token.seal
      OBVIOUS
    <3>2. probing' = [probing EXCEPT ![p] = IF conn.token.fresh THEN Resolved ELSE read]
      BY <1>14 DEF ReadForProbe
    <3> HIDE DEF read
    <3>3. CASE conn.token.fresh BY <3>2, <3>3, ProbesAre
    <3>4. CASE ~ conn.token.fresh BY <3>1, <3>2, <3>4
    <3> QED BY <3>3, <3>4
  <2> QED BY <1>14, <2>1 DEF ReadForProbe
<1>15. ASSUME NEW p \in Probers, RefreshForProbe(p) PROVE SealInv'
  <2>1. CASE probing' = [probing EXCEPT ![p] = Resolved]
    <3>1. \A q \in Probers : probing'[q].pc \in {"read", "called"} => probing'[q] = probing[q]
      BY <2>1, ProbesAre
    <3> QED BY <1>15, <3>1 DEF RefreshForProbe
  <2>2. ASSUME NEW token \in Token, Issues(probing[p].token.refresh, token),
               probing' = [probing EXCEPT ![p].pc = "called", ![p].token = token]
        PROVE SealInv'
    <3>1. probing'[p].pc = "called" /\ probing'[p].token = token
      BY <2>2 DEF Probe
    <3>2. \A q \in Probers \ {p} : probing'[q] = probing[q]
      BY <2>2
    <3>3. UNCHANGED <<conn, gate, tabs>>
      BY <1>15 DEF RefreshForProbe
    <3>4. token.seal = token.refresh
      BY <2>2, SealedTogether
    <3> QED BY <3>1, <3>2, <3>3, <3>4
  <2> QED BY <1>15, <2>1, <2>2 DEF RefreshForProbe
<1>16. ASSUME NEW p \in Probers, StoreForProbe(p) PROVE SealInv'
  <2>1. conn' = conn \/ (conn'.token = probing[p].token /\ conn'.token.seal = conn'.token.refresh)
    BY <1>16 DEF StoreForProbe, Conn
  <2>2. \A q \in Probers : probing'[q].pc \in {"read", "called"} => probing'[q] = probing[q]
    BY <1>16, ProbesAre DEF StoreForProbe
  <2> QED BY <1>16, <2>1, <2>2 DEF StoreForProbe
<1>17. ASSUME NEW p \in Probers, Observe(p) \/ UpdateQuota(p) \/ InsertQuota(p) PROVE SealInv'
  <2>1. PICK next : probing' = [probing EXCEPT ![p] = next] /\ next.pc \in {"idle", "found", "missed"}
    BY <1>17, ProbesAre DEF Observe, UpdateQuota, InsertQuota, Probe
  <2>2. \A q \in Probers : probing'[q].pc \in {"read", "called"} => probing'[q] = probing[q]
    BY <2>1
  <2> QED BY <1>17, <2>2 DEF Observe, UpdateQuota, InsertQuota
<1> QED
  BY <1>1, <1>2, <1>3, <1>4, <1>5, <1>6, <1>7, <1>8, <1>9, <1>10, <1>11, <1>12, <1>13, <1>14, <1>15,
     <1>16, <1>17 DEF OAuthNext

----------------------------------------------------------------------------
(* The token of the connection. *)

\* Who holds the replacement still does, and the row can still take it.
LEMMA StillKept ==
  ASSUME Kept, OAuthTypeInv, excused => excused',
         conn'.stage = "completed" =>
           /\ conn.stage = "completed" /\ conn'.token.refresh = conn.token.refresh
           /\ conn'.token.seal = conn.token.seal /\ (conn.enabled => conn'.enabled \/ excused'),
         conn.token.refresh \in idp.live => conn.token.refresh \in idp'.live \/ conn'.stage # "completed",
         \A g \in Refreshers : gate[g].pc = "answered" => gate'[g].pc = "answered",
         \A p \in Probers : probing[p].pc = "called" /\ MayReplace(p) => probing'[p] = probing[p]
  PROVE  Kept'
BY DEF Kept, MayReplace, OAuthTypeInv, Conn

LEMMA KeptStep == OAuthInv /\ OAuthNext => Kept'
<1> SUFFICES ASSUME OAuthTypeInv, OAuthTypeInv', LockInv, HandInv, SealInv, Kept, OAuthNext PROVE Kept'
  BY TypeStep DEF OAuthInv
<1> USE DEF OAuthTypeInv
<1>1. CASE StartCode BY <1>1 DEF StartCode, NewConnection, Kept
<1>2. CASE StartDevice BY <1>2 DEF StartDevice, NewConnection, Kept
<1>3. CASE EditConnection
  <2>1. conn'.stage = conn.stage /\ conn'.token = conn.token
    BY <1>3 DEF EditConnection, Conn
  <2>2. UNCHANGED <<gate, probing, idp>> /\ (excused => excused')
    BY <1>3 DEF EditConnection
  <2>3. CASE conn'.enabled \/ excused'
    BY <2>1, <2>2, <2>3, StillKept
  <2>4. CASE ~ conn'.enabled /\ ~ excused'
    <3>1. \A p \in Probers : probing[p].pc # "called"
      BY <1>3, <2>4 DEF EditConnection, Conn
    <3> QED BY <2>1, <2>2, <3>1 DEF Kept
  <2> QED BY <2>3, <2>4
<1>4. CASE TokenExpires
  <2>1. /\ conn'.stage = conn.stage /\ conn'.enabled = conn.enabled
        /\ conn'.token.refresh = conn.token.refresh /\ conn'.token.seal = conn.token.seal
    BY <1>4 DEF TokenExpires, Conn, Token
  <2> QED BY <1>4, <2>1, StillKept DEF TokenExpires
<1>5. CASE ReadForRevoke \/ DeleteRow \/ ClearsQuota
  BY <1>5, StillKept DEF ReadForRevoke, DeleteRow, ClearsQuota
<1>6. CASE Revoke BY <1>6, StillKept DEF Revoke, Kept
<1>7. CASE DeleteCommits BY <1>7 DEF DeleteCommits, Conn, Kept
<1>8. ASSUME NEW c \in Tabs, ReadPending(c) PROVE Kept'
  BY <1>8, StillKept DEF ReadPending
<1>9. ASSUME NEW c \in Tabs, ExchangeCode(c) \/ PollDevice(c) PROVE Kept'
  <2>1. idp.live \subseteq idp'.live
    <3>1. CASE Receives(c)
      <4>1. PICK token \in Token : Issues(0, token)
        BY <3>1 DEF Receives
      <4>2. 0 \notin idp.live
        BY DEF Provider
      <4> QED BY <4>1, <4>2, IssuesType
    <3> QED BY <1>9, <3>1 DEF ExchangeCode, PollDevice
  <2> QED BY <1>9, <2>1, StillKept DEF ExchangeCode, PollDevice
<1>10. ASSUME NEW c \in Tabs, StoreToken(c) PROVE Kept'
  <2>1. CASE conn' = conn
    BY <1>10, <2>1, StillKept DEF StoreToken
  <2>2. CASE conn'.token = tabs[c].token
    <3>1. tabs[c].pc = "got"
      BY <1>10 DEF StoreToken
    <3>2. <<"tab", c>> \in Hands /\ New(<<"tab", c>>) = tabs[c].token.refresh /\ New(<<"tab", c>>) # 0
      BY <3>1, NewIs, TokenNumber
    <3>3. ~ excused => conn'.token.refresh \in idp.live
      BY <2>2, <3>2 DEF HandInv
    <3> QED BY <1>10, <3>3 DEF StoreToken, Kept
  <2> QED BY <1>10, <2>1, <2>2 DEF StoreToken, Conn
<1>11. ASSUME NEW g \in Refreshers, ReadForRequest(g) \/ LockRow(g) PROVE Kept'
  <2>1. \A h \in Refreshers : gate[h].pc = "answered" => gate'[h].pc = "answered"
    BY <1>11 DEF ReadForRequest, LockRow
  <2> QED BY <1>11, <2>1, StillKept DEF ReadForRequest, LockRow
<1>12. ASSUME NEW g \in Refreshers, Refreshed(g) PROVE Kept'
  <2>1. gate[g].pc = "locked" /\ \A h \in Refreshers \ {g} : gate'[h] = gate[h]
    BY <1>12 DEF Refreshed
  <2>2. CASE UNCHANGED idp
    <3>1. \A h \in Refreshers : gate[h].pc = "answered" => gate'[h].pc = "answered"
      BY <2>1
    <3> QED BY <1>12, <2>2, <3>1, StillKept DEF Refreshed
  <2>3. CASE \E token \in Token : gate' = [gate EXCEPT ![g] = [pc |-> "answered",
                  token |-> [token EXCEPT !.resource = @ \/ gate[g].token.resource]]]
    BY <2>3 DEF Kept
  <2> QED BY <1>12, <2>2, <2>3 DEF Refreshed
<1>13. ASSUME NEW g \in Refreshers, StoreRefreshed(g) PROVE Kept'
  <2>1. CASE excused' BY <2>1 DEF Kept
  <2>2. CASE conn' = [conn EXCEPT !.token = gate[g].token] /\ UNCHANGED excused
    <3>1. gate[g].pc = "answered" /\ conn'.token = gate[g].token
      BY <1>13, <2>2 DEF StoreRefreshed, Conn
    <3>2. <<"gate", g>> \in Hands /\ New(<<"gate", g>>) = gate[g].token.refresh /\ New(<<"gate", g>>) # 0
      BY <3>1, NewIs, TokenNumber
    <3>3. ~ excused => conn'.token.refresh \in idp.live
      BY <3>1, <3>2 DEF HandInv
    <3> QED BY <1>13, <2>2, <3>3 DEF StoreRefreshed, Kept
  <2> QED BY <1>13, <2>1, <2>2 DEF StoreRefreshed
<1>14. ASSUME NEW p \in Probers, ReadForProbe(p) PROVE Kept'
  <2>1. \A q \in Probers : probing[q].pc = "called" => probing'[q] = probing[q]
    BY <1>14 DEF ReadForProbe
  <2> QED BY <1>14, <2>1, StillKept DEF ReadForProbe
<1>15. ASSUME NEW p \in Probers, RefreshForProbe(p) PROVE Kept'
  <2>1. probing[p].pc = "read" /\ probing[p].token \in Token /\ UNCHANGED <<conn, gate>>
    BY <1>15 DEF RefreshForProbe
  <2>2. \A q \in Probers : probing[q].pc = "called" => probing'[q] = probing[q]
    BY <1>15 DEF RefreshForProbe
  <2>3. CASE UNCHANGED <<idp, excused>>
    BY <2>1, <2>2, <2>3, StillKept
  <2>4. ASSUME NEW token \in Token, Issues(probing[p].token.refresh, token),
               probing' = [probing EXCEPT ![p].pc = "called", ![p].token = token],
               excused' = (excused \/ ~ conn.enabled)
        PROVE Kept'
    <3> DEFINE old == probing[p].token.refresh
    <3>1. old # 0 /\ idp.live \ {old} \subseteq idp'.live /\ (~ idp.rotates => idp'.live = idp.live)
      BY <2>1, <2>4, TokenNumber, IssuesType
    <3>2. CASE conn.token.refresh # old \/ ~ idp.rotates
      BY <2>1, <2>2, <2>4, <3>1, <3>2, StillKept
    <3>3. CASE conn.token.refresh = old /\ idp.rotates /\ conn.stage = "completed" /\ ~ excused'
      <4>1. probing'[p].pc = "called" /\ probing'[p].seal = probing[p].seal
        BY <2>4 DEF Probe
      <4>2. probing[p].seal = old /\ conn.token.seal = old
        BY <2>1, <3>3 DEF SealInv
      <4>3. conn.enabled
        BY <2>4, <3>3 DEF Conn
      <4>4. MayReplace(p)'
        BY <2>1, <3>3, <4>1, <4>2, <4>3 DEF MayReplace
      <4> QED BY <4>1, <4>4 DEF Kept
    <3>4. CASE conn.stage # "completed" \/ excused'
      BY <2>1, <3>4 DEF Kept
    <3> QED BY <3>2, <3>3, <3>4
  <2> QED BY <1>15, <2>3, <2>4 DEF RefreshForProbe
<1>16. ASSUME NEW p \in Probers, StoreForProbe(p) PROVE Kept'
  <2>1. probing[p].pc = "called" /\ UNCHANGED <<gate, idp>> /\ \A q \in Probers \ {p} : probing'[q] = probing[q]
    BY <1>16 DEF StoreForProbe
  <2>2. CASE excused' BY <2>2 DEF Kept
  <2>3. CASE conn' = [conn EXCEPT !.token = probing[p].token] /\ UNCHANGED excused
    <3>1. conn'.token = probing[p].token
      BY <2>3 DEF Conn
    <3>2. <<"probe", p>> \in Hands /\ New(<<"probe", p>>) = probing[p].token.refresh /\ New(<<"probe", p>>) # 0
      BY <2>1, NewIs, TokenNumber
    <3>3. ~ excused => conn'.token.refresh \in idp.live
      BY <3>1, <3>2 DEF HandInv
    <3> QED BY <2>1, <2>3, <3>3 DEF Kept
  <2>4. CASE ~ MayReplace(p) /\ UNCHANGED <<conn, excused>>
    BY <2>1, <2>4, StillKept
  <2> QED BY <1>16, <2>2, <2>3, <2>4 DEF StoreForProbe
<1>17. ASSUME NEW p \in Probers, Observe(p) \/ UpdateQuota(p) \/ InsertQuota(p) PROVE Kept'
  <2>1. \A q \in Probers : probing[q].pc = "called" => probing'[q] = probing[q]
    BY <1>17 DEF Observe, UpdateQuota, InsertQuota
  <2> QED BY <1>17, <2>1, StillKept DEF Observe, UpdateQuota, InsertQuota
<1> QED
  BY <1>1, <1>2, <1>3, <1>4, <1>5, <1>6, <1>7, <1>8, <1>9, <1>10, <1>11, <1>12, <1>13, <1>14, <1>15,
     <1>16, <1>17 DEF OAuthNext

----------------------------------------------------------------------------
(* The theorems. *)

LEMMA OAuthInvInit == OAuthInit => OAuthInv
<1> SUFFICES ASSUME OAuthInit PROVE OAuthInv
  OBVIOUS
<1>1. OAuthTypeInv
  BY TypeInit
<1>2. /\ conn.stage = "none" /\ ~ quotaRow /\ rowLock = {} /\ removal = "none"
      /\ \A g \in Refreshers : gate[g].pc = "idle"
      /\ \A p \in Probers : probing[p].pc = "idle"
      /\ \A c \in Tabs : tabs[c].pc = "idle"
  BY NobodyIs, ProbesAre DEF OAuthInit, NewConnection
<1>3. LockInv /\ QuotaInv /\ SealInv /\ Kept
  BY <1>2 DEF LockInv, QuotaInv, QuotaRowsAreLive, SealInv, Kept
<1>4. \A a \in Hands : New(a) = 0
  BY <1>2, HandsAre, NewIs
<1>5. KnownTokens = {}
  BY <1>2 DEF KnownTokens
<1>6. HandInv
  BY <1>1, <1>4, <1>5 DEF HandInv, Distinct, OAuthTypeInv, Provider
<1> QED BY <1>1, <1>3, <1>6 DEF OAuthInv

LEMMA OAuthInvNext == OAuthInv /\ [OAuthNext]_oauthVars => OAuthInv'
<1>1. OAuthInv /\ OAuthNext => OAuthInv'
  BY TypeStep, LockStep, QuotaStep, HandStep, SealStep, KeptStep DEF OAuthInv
<1>2. OAuthInv /\ UNCHANGED oauthVars => OAuthInv'
  <2> SUFFICES ASSUME OAuthInv, UNCHANGED oauthVars PROVE OAuthInv'
    OBVIOUS
  <2>1. (\A a \in Hands : New(a)' = New(a)) /\ KnownTokens' = KnownTokens
    BY DEF oauthVars, New, KnownTokens
  <2>2. HandInv'
    BY <2>1 DEF OAuthInv, oauthVars, HandInv, Distinct
  <2> QED
    BY <2>2 DEF OAuthInv, oauthVars, OAuthTypeInv, LockInv, QuotaInv, QuotaRowsAreLive, SealInv, Kept, MayReplace
<1> QED BY <1>1, <1>2

LEMMA OAuthInvHolds == OAuthSpec => []OAuthInv
BY OAuthInvInit, OAuthInvNext, PTL DEF OAuthSpec

LEMMA OAuthInvIsTyped == OAuthInv => OAuthTypeOK
<1> SUFFICES ASSUME OAuthTypeInv, LockInv PROVE OAuthTypeOK
  BY DEF OAuthInv
<1>1. rowLock \subseteq Refreshers \cup {"console"} /\ Cardinality(rowLock) <= 1
  <2>1. Cardinality({}) = 0 /\ \A x : Cardinality({x}) = 1
    BY FS_EmptySet, FS_Singleton
  <2>2. CASE rowLock = {}
    BY <2>1, <2>2
  <2>3. CASE rowLock = {"console"}
    <3>1. Cardinality({"console"}) = 1
      BY <2>1, Zenon
    <3> QED BY <3>1, <2>3
  <2>4. ASSUME NEW g \in Refreshers, rowLock = {g}
        PROVE  rowLock \subseteq Refreshers \cup {"console"} /\ Cardinality(rowLock) <= 1
    BY <2>1, <2>4
  <2> QED BY <2>2, <2>3, <2>4 DEF LockInv
<1> QED BY <1>1, NoTokenIs DEF OAuthTypeOK, OAuthTypeInv, LockInv, Conn, Tokens, Gate, Probe, Tab, Provider

\* The row has a token exactly when the authorization is complete, a gateway that
\* calls the provider holds the row's lock, and nobody else does.
THEOREM OAuthTyped == OAuthSpec => []OAuthTypeOK
BY OAuthInvIsTyped, OAuthInvHolds, PTL

\* However the refreshes of gateways, probes and model refreshes, the pages that
\* complete the authorization, edits and deletions interleave, the stored refresh
\* token is one that the provider accepts or its replacement is about to be stored
\* (refreshProviderOAuthTokenWithLock and the conditional update of the workers), a
\* gateway presents the token of the row that it has locked, and recordProviderQuota
\* brings no summary back for a deleted connection.
THEOREM CredentialsHold == OAuthSpec => []CredentialsKept
<1>1. OAuthInv => CredentialsKept
  <2> SUFFICES ASSUME OAuthInv PROVE TokensKept /\ QuotaRowsAreLive
    BY DEF CredentialsKept
  <2>1. ASSUME NEW g \in Refreshers, gate[g].pc = "answered", ~ excused
        PROVE  gate[g].token.refresh \in idp.live
    <3>1. gate[g].token \in Token /\ <<"gate", g>> \in Hands /\ New(<<"gate", g>>) = gate[g].token.refresh
      BY <2>1, NewIs DEF OAuthInv, OAuthTypeInv
    <3> QED BY <2>1, <3>1, TokenNumber DEF OAuthInv, HandInv
  <2>2. ASSUME NEW p \in Probers, probing[p].pc = "called", ~ excused
        PROVE  probing[p].token.refresh \in idp.live
    <3>1. probing[p].token \in Token /\ <<"probe", p>> \in Hands /\ New(<<"probe", p>>) = probing[p].token.refresh
      BY <2>2, NewIs DEF OAuthInv, OAuthTypeInv
    <3> QED BY <2>2, <3>1, TokenNumber DEF OAuthInv, HandInv
  <2>3. TokensKept
    BY <2>1, <2>2 DEF OAuthInv, Kept, LockInv, TokensKept
  <2> QED BY <2>3 DEF OAuthInv, QuotaInv
<1> QED BY <1>1, OAuthInvHolds, PTL

----------------------------------------------------------------------------
(* Records.  A step of the six is a step of one of them and leaves the others. *)

RecordsInv == /\ keeper \in {"selection", "latency", "oauth", "catalog", "requests", "prices"}
              /\ SelectInv /\ LatencyInv /\ OAuthInv /\ CatalogInv /\ RecordInv /\ CatalogsInv

LEMMA RecordsInvInit == RecordsInit => RecordsInv
BY SelectInvInit, LatencyInitially, OAuthInvInit, CatalogInvInit, RecordInvInit, CatalogsInvInit
   DEF RecordsInit, RecordsInv

LEMMA EachKeeps ==
  [RecordsNext]_recordsVars =>
    /\ [SelectNext]_selectVars /\ [LatencyNext]_latencyVars /\ [OAuthNext]_oauthVars
    /\ [CatalogNext]_catalogVars /\ [RecordNext]_recordVars /\ [CatalogsNext]_catalogsVars
    /\ keeper' = keeper
<1> SUFFICES ASSUME [RecordsNext]_recordsVars
             PROVE  /\ SelectNext \/ UNCHANGED selectVars
                    /\ LatencyNext \/ UNCHANGED latencyVars
                    /\ OAuthNext \/ UNCHANGED oauthVars
                    /\ CatalogNext \/ UNCHANGED catalogVars
                    /\ RecordNext \/ UNCHANGED recordVars
                    /\ CatalogsNext \/ UNCHANGED catalogsVars
                    /\ keeper' = keeper
  OBVIOUS
<1>1. CASE Keeps("selection", <<latencyVars, oauthVars, catalogVars, recordVars, catalogsVars>>) /\ SelectNext
  BY <1>1 DEF Keeps
<1>2. CASE Keeps("latency", <<selectVars, oauthVars, catalogVars, recordVars, catalogsVars>>) /\ LatencyNext
  BY <1>2 DEF Keeps
<1>3. CASE Keeps("oauth", <<selectVars, latencyVars, catalogVars, recordVars, catalogsVars>>) /\ OAuthNext
  BY <1>3 DEF Keeps
<1>4. CASE Keeps("catalog", <<selectVars, latencyVars, oauthVars, recordVars, catalogsVars>>) /\ CatalogNext
  BY <1>4 DEF Keeps
<1>5. CASE Keeps("requests", <<selectVars, latencyVars, oauthVars, catalogVars, catalogsVars>>) /\ RecordNext
  BY <1>5 DEF Keeps
<1>6. CASE Keeps("prices", <<selectVars, latencyVars, oauthVars, catalogVars, recordVars>>) /\ CatalogsNext
  BY <1>6 DEF Keeps
<1>7. CASE UNCHANGED recordsVars
  BY <1>7 DEF recordsVars
<1> QED BY <1>1, <1>2, <1>3, <1>4, <1>5, <1>6, <1>7 DEF RecordsNext

LEMMA RecordsInvNext == RecordsInv /\ [RecordsNext]_recordsVars => RecordsInv'
<1> SUFFICES ASSUME RecordsInv, [RecordsNext]_recordsVars
             PROVE  RecordsInv'
  OBVIOUS
<1>1. /\ [SelectNext]_selectVars /\ [LatencyNext]_latencyVars /\ [OAuthNext]_oauthVars
      /\ [CatalogNext]_catalogVars /\ [RecordNext]_recordVars /\ [CatalogsNext]_catalogsVars
      /\ keeper' = keeper
  BY EachKeeps
<1>2. SelectInv' BY <1>1, SelectInvNext DEF RecordsInv
<1>3. LatencyInv' BY <1>1, LatencyKeeps DEF RecordsInv
<1>4. OAuthInv' BY <1>1, OAuthInvNext DEF RecordsInv
<1>5. CatalogInv' BY <1>1, CatalogInvNext DEF RecordsInv
<1>6. RecordInv' BY <1>1, RecordInvNext DEF RecordsInv
<1>7. CatalogsInv' BY <1>1, CatalogsInvNext DEF RecordsInv
<1> QED BY <1>1, <1>2, <1>3, <1>4, <1>5, <1>6, <1>7 DEF RecordsInv

\* Side by side, the six keepers of records keep every variable to its values.
THEOREM RecordsTyped == RecordsSpec => []TypesOK
<1>1. RecordsInv => TypesOK
  <2> SUFFICES ASSUME RecordsInv PROVE TypesOK
    OBVIOUS
  <2>1. SelectTypeOK /\ LatencyTypeOK /\ OAuthTypeOK /\ CatalogTypeOK /\ RecordTypeOK /\ CatalogsTypeOK
    BY SelectInvIsTyped, LatencyInvIsTyped, OAuthInvIsTyped, CatalogInvIsTyped, RecordInvIsTyped, CatalogsInvIsTyped
       DEF RecordsInv
  <2> QED BY <2>1 DEF TypesOK, RecordsInv
<1>2. RecordsSpec => []RecordsInv
  BY RecordsInvInit, RecordsInvNext, PTL DEF RecordsSpec
<1> QED BY <1>1, <1>2, PTL

=============================================================================
