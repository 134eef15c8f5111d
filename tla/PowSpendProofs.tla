--------------------------- MODULE PowSpendProofs ---------------------------
(***************************************************************************)
(* Proofs about PowSpend, for any number of writes and relays: a           *)
(* presentation opens its token's binding root at the slot of the request  *)
(* it was given to, whatever late requests of failed writes arrive.        *)
(***************************************************************************)
EXTENDS PowSpend, TLAPS

-----------------------------------------------------------------------------
(* The inductive invariant *)

\* The session that is open is the one of the running write.
OneSession == \A w \in Writes : write[w] = "running" <=> open = w

\* Entries belong to the open session, hold its slots, and wait while it has no token.
EntriesWait ==
    \A s \in Writes, o \in Operations : entry[s][o] # None =>
        /\ write[s] = "running"
        /\ slot[s][o] = entry[s][o]
        /\ entry[s][o][2] = o
        /\ request[entry[s][o]] \notin {"idle", "preparing"}
        /\ mint[s] \in {"none", "challenge", "search", "redeem"} => request[entry[s][o]] = "waiting"

\* Once the mint has begun the slots are those it binds, and none of them is free.
MintsBind ==
    \A s \in Writes : mint[s] # "none" =>
        /\ write[s] # "idle"
        /\ bound[s] = slot[s]
        /\ write[s] = "running" => \A o \in SlotsOf[s] : entry[s][o] # None

\* A presentation is of a token that was minted, at the slot of its request.
TokensAtSlots ==
    \A r \in Requests : token[r] # None => mint[token[r]] # "none" /\ slot[token[r]][r[2]] = r

\* The requests of a running write wait, and are admitted, in its own session only.
OwnTokens ==
    \A w \in Writes, o \in Operations : o \in SlotsOf[w] =>
        /\ write[w] = "running" =>
            /\ request[<<w, o>>] = "waiting" => entry[w][o] = <<w, o>>
            /\ request[<<w, o>>] \in {"admitted", "prepared"} => token[<<w, o>>] = w
        /\ write[w] = "done" => request[<<w, o>>] = "prepared" /\ token[<<w, o>>] = w

PowInv == PowTypeOK /\ OneSession /\ EntriesWait /\ MintsBind /\ TokensAtSlots /\ OwnTokens

-----------------------------------------------------------------------------
(* Requests and entries *)

\* A request is a write with one of its operations.
LEMMA RequestShape ==
    /\ \A r \in Requests : r = <<r[1], r[2]>> /\ r[1] \in Writes /\ r[2] \in SlotsOf[r[1]]
                         /\ r[2] \in Operations
    /\ \A w \in Writes : \A o \in SlotsOf[w] :
        <<w, o>> \in Requests /\ <<w, o>> \in RequestsOf(w) /\ o \in Operations
BY PowAssumption DEF Requests, Operations, RequestsOf

\* What Entries(s) collects.
LEMMA EntryPlace ==
    ASSUME PowInv, NEW s \in Writes, NEW r \in Entries(s)
    PROVE  r \in Requests /\ r[2] \in SlotsOf[s] /\ entry[s][r[2]] = r
<1> PICK o \in SlotsOf[s] : r = entry[s][o] /\ r # None
  BY DEF Entries
<1>1. o \in Operations
  BY DEF Operations
<1> QED BY <1>1 DEF PowInv, PowTypeOK, EntriesWait

\* The invariant implies what it is for: types, and tokens that bind.
LEMMA InvBinds == PowInv => PowTypeOK /\ TokensBind
<1> SUFFICES ASSUME PowInv PROVE TokensBind
  BY DEF PowInv
<1>1. ASSUME NEW r \in Requests, token[r] # None
      PROVE  bound[token[r]] = slot[token[r]] /\ bound[token[r]][r[2]] = r
  BY <1>1 DEF PowInv, PowTypeOK, MintsBind, TokensAtSlots
<1>2. ASSUME NEW w \in Writes, write[w] = "done", NEW r \in RequestsOf(w)
      PROVE  token[r] = w
  <2> PICK o \in SlotsOf[w] : r = <<w, o>>
    BY DEF RequestsOf
  <2> QED BY <1>2 DEF PowInv, OwnTokens, Operations
<1> QED BY <1>1, <1>2 DEF TokensBind

-----------------------------------------------------------------------------
(* The actions *)

LEMMA InitInv == Init => PowInv
BY PowAssumption DEF Init, PowInv, PowTypeOK, OneSession, EntriesWait, MintsBind, TokensAtSlots,
    OwnTokens, NoRequests, Requests

\* A session is opened with all of its requests to prepare.
LEMMA BeginInv == ASSUME PowInv, NEW w \in Writes, Begin(w) PROVE PowInv'
<1> USE DEF Begin, sessionVars
<1>1. PowTypeOK'
  BY PowAssumption, RequestShape DEF PowInv, PowTypeOK
<1>2. OneSession'
  BY PowAssumption, RequestShape DEF PowInv, PowTypeOK, OneSession
<1>3. EntriesWait'
  BY PowAssumption, RequestShape DEF PowInv, PowTypeOK, OneSession, EntriesWait
<1>4. MintsBind'
  BY PowAssumption, RequestShape DEF PowInv, PowTypeOK, OneSession, EntriesWait, MintsBind
<1>5. TokensAtSlots'
  BY PowAssumption, RequestShape DEF PowInv, PowTypeOK, OneSession, EntriesWait, MintsBind, TokensAtSlots
<1>6. OwnTokens'
  BY PowAssumption, RequestShape DEF PowInv, PowTypeOK, OneSession, EntriesWait, OwnTokens
<1> QED BY <1>1, <1>2, <1>3, <1>4, <1>5, <1>6 DEF PowInv

\* A session is closed with none of its requests left waiting.
LEMMA EndInv == ASSUME PowInv, NEW w \in Writes, End(w) PROVE PowInv'
<1> USE DEF End, RequestsOf
<1>1. PowTypeOK'
  <2>1. /\ write' \in [Writes -> {"idle", "running", "done", "failed"}]
        /\ open' \in Writes \cup {None}
    BY DEF PowInv, PowTypeOK
  <2>2. request' \in [Requests ->
          {"idle", "preparing", "waiting", "admitted", "prepared", "rejected"}]
    BY DEF PowInv, PowTypeOK
  <2>3. entry' \in [Writes -> [Operations -> Requests \cup {None}]]
    BY DEF PowInv, PowTypeOK, NoRequests
  <2> QED BY <2>1, <2>2, <2>3 DEF PowInv, PowTypeOK
<1>2. OneSession'
  BY PowAssumption, RequestShape, EntryPlace DEF PowInv, PowTypeOK, OneSession
<1>3. EntriesWait'
  <2>1. \A v \in Writes, o \in Operations : v # w => entry[v][o] = None
    BY DEF PowInv, OneSession, EntriesWait
  <2>2. \A v \in Writes, o \in Operations : entry'[v][o] = None
    BY <2>1 DEF PowInv, PowTypeOK, NoRequests
  <2> QED BY <2>2 DEF EntriesWait
<1>4. MintsBind'
  BY PowAssumption, RequestShape, EntryPlace DEF PowInv, PowTypeOK, OneSession, EntriesWait, MintsBind
<1>5. TokensAtSlots'
  BY PowAssumption, RequestShape, EntryPlace DEF PowInv, PowTypeOK, OneSession, EntriesWait, MintsBind, TokensAtSlots
<1>6. OwnTokens'
  BY PowAssumption, RequestShape, EntryPlace DEF PowInv, PowTypeOK, OneSession, EntriesWait, OwnTokens
<1> QED BY <1>1, <1>2, <1>3, <1>4, <1>5, <1>6 DEF PowInv

\* A request that is rejected holds no slot without a token.
LEMMA RejectInv == ASSUME PowInv, NEW r \in Requests, Reject(r), request[r] \in {"preparing", "admitted"} PROVE PowInv'
<1> USE DEF Reject, sessionVars
<1>1. PowTypeOK'
  BY PowAssumption, RequestShape DEF PowInv, PowTypeOK
<1>2. OneSession'
  BY PowAssumption, RequestShape DEF PowInv, PowTypeOK, OneSession
<1>3. EntriesWait'
  BY PowAssumption, RequestShape DEF PowInv, PowTypeOK, OneSession, EntriesWait
<1>4. MintsBind'
  BY PowAssumption, RequestShape DEF PowInv, PowTypeOK, OneSession, EntriesWait, MintsBind
<1>5. TokensAtSlots'
  BY PowAssumption, RequestShape DEF PowInv, PowTypeOK, OneSession, EntriesWait, MintsBind, TokensAtSlots
<1>6. OwnTokens'
  BY PowAssumption, RequestShape DEF PowInv, PowTypeOK, OneSession, EntriesWait, OwnTokens
<1> QED BY <1>1, <1>2, <1>3, <1>4, <1>5, <1>6 DEF PowInv

\* A request takes a slot of the open session only before the mint.
LEMMA RegisterInv == ASSUME PowInv, NEW r \in Requests, Register(r) PROVE PowInv'
<1> USE DEF Register, Covered, Sealed
<1>1. PowTypeOK'
  <2>1. open \in Writes /\ r[2] \in Operations
    BY RequestShape DEF PowInv, PowTypeOK
  <2>2. request' \in [Requests ->
          {"idle", "preparing", "waiting", "admitted", "prepared", "rejected"}]
    BY DEF PowInv, PowTypeOK
  <2>3. /\ entry' \in [Writes -> [Operations -> Requests \cup {None}]]
        /\ slot' \in [Writes -> [Operations -> Requests \cup {None}]]
    BY <2>1 DEF PowInv, PowTypeOK
  <2>4. bound' \in [Writes -> [Operations -> Requests \cup {None}]]
    BY <2>1, <2>3 DEF PowInv, PowTypeOK
  <2>5. attempt' \in [Writes -> 0..MaxAttempts]
    BY <2>1, PowAssumption DEF PowInv, PowTypeOK
  <2>6. mint' \in [Writes -> {"none", "challenge", "search", "redeem", "done", "failed"}]
    BY <2>1 DEF PowInv, PowTypeOK
  <2> QED BY <2>2, <2>3, <2>4, <2>5, <2>6 DEF PowInv, PowTypeOK
<1>2. OneSession'
  BY PowAssumption, RequestShape DEF PowInv, PowTypeOK, OneSession
<1>3. EntriesWait'
  BY PowAssumption, RequestShape DEF PowInv, PowTypeOK, OneSession, EntriesWait
<1>4. MintsBind'
  BY PowAssumption, RequestShape DEF PowInv, PowTypeOK, OneSession, EntriesWait, MintsBind
<1>5. TokensAtSlots'
  BY PowAssumption, RequestShape DEF PowInv, PowTypeOK, OneSession, EntriesWait, MintsBind, TokensAtSlots
<1>6. OwnTokens'
  <2> SUFFICES ASSUME NEW v \in Writes, NEW o \in Operations, o \in SlotsOf[v]
               PROVE  /\ write[v] = "running" =>
                          /\ request'[<<v, o>>] = "waiting" => entry'[v][o] = <<v, o>>
                          /\ request'[<<v, o>>] \in {"admitted", "prepared"} => token[<<v, o>>] = v
                      /\ write[v] = "done" =>
                          request'[<<v, o>>] = "prepared" /\ token[<<v, o>>] = v
    BY DEF OwnTokens
  <2> DEFINE q == <<v, o>>
  <2>0. q \in Requests /\ open \in Writes /\ r[2] \in Operations
    BY RequestShape DEF PowInv, PowTypeOK
  <2>1. entry[open][r[2]] # None => request[entry[open][r[2]]] = "waiting"
    BY <2>0 DEF PowInv, PowTypeOK, EntriesWait
  <2>2. CASE q = r
    BY <2>0, <2>2 DEF PowInv, PowTypeOK, OneSession, OwnTokens
  <2>3. CASE q # r /\ q = entry[open][r[2]]
    <3>1. request'[q] = "rejected" /\ request[q] = "waiting"
      BY <2>0, <2>1, <2>3, PowAssumption
    <3>2. write[v] # "done"
      BY <3>1 DEF PowInv, OwnTokens
    <3> QED BY <3>1, <3>2
  <2>4. CASE q # r /\ q # entry[open][r[2]]
    <3>1. request'[q] = request[q]
      BY <2>0, <2>4
    <3>2. write[v] = "running" /\ request[q] = "waiting" => entry[v][o] = q /\ v = open
      BY DEF PowInv, OwnTokens, OneSession
    <3>3. write[v] = "running" /\ request[q] = "waiting" => entry'[v][o] = q
      BY <2>0, <2>4, <3>2 DEF PowInv, PowTypeOK
    <3> QED BY <3>1, <3>3 DEF PowInv, OwnTokens
  <2> QED BY <2>2, <2>3, <2>4
<1> QED BY <1>1, <1>2, <1>3, <1>4, <1>5, <1>6 DEF PowInv

\* An admitted request is prepared.
LEMMA PreparedInv == ASSUME PowInv, NEW r \in Requests, Prepared(r) PROVE PowInv'
<1> USE DEF Prepared, sessionVars
<1>1. PowTypeOK'
  BY PowAssumption, RequestShape DEF PowInv, PowTypeOK
<1>2. OneSession'
  BY PowAssumption, RequestShape DEF PowInv, PowTypeOK, OneSession
<1>3. EntriesWait'
  BY PowAssumption, RequestShape DEF PowInv, PowTypeOK, OneSession, EntriesWait
<1>4. MintsBind'
  BY PowAssumption, RequestShape DEF PowInv, PowTypeOK, OneSession, EntriesWait, MintsBind
<1>5. TokensAtSlots'
  BY PowAssumption, RequestShape DEF PowInv, PowTypeOK, OneSession, EntriesWait, MintsBind, TokensAtSlots
<1>6. OwnTokens'
  <2> SUFFICES ASSUME NEW v \in Writes, NEW o \in Operations, o \in SlotsOf[v]
               PROVE  /\ write[v] = "running" =>
                          /\ request'[<<v, o>>] = "waiting" => entry[v][o] = <<v, o>>
                          /\ request'[<<v, o>>] \in {"admitted", "prepared"} => token[<<v, o>>] = v
                      /\ write[v] = "done" =>
                          request'[<<v, o>>] = "prepared" /\ token[<<v, o>>] = v
    BY DEF OwnTokens
  <2>1. <<v, o>> \in Requests
    BY RequestShape
  <2>2. request'[<<v, o>>] = IF <<v, o>> = r THEN "prepared" ELSE request[<<v, o>>]
    BY <2>1 DEF PowInv, PowTypeOK
  <2> QED BY <2>1, <2>2 DEF PowInv, OwnTokens
<1> QED BY <1>1, <1>2, <1>3, <1>4, <1>5, <1>6 DEF PowInv

\* The mint goes on.
LEMMA MintingInv == ASSUME PowInv, NEW s \in Writes, Challenged(s) \/ Found(s) \/ Expired(s) PROVE PowInv'
<1> USE DEF Challenged, Found, Expired, Minting
<1>1. PowTypeOK'
  <2>1. CASE Challenged(s) \/ Found(s)
    BY <2>1 DEF PowInv, PowTypeOK
  <2>2. CASE Expired(s)
    <3>1. attempt' \in [Writes -> 0..MaxAttempts]
      BY <2>2, PowAssumption DEF PowInv, PowTypeOK
    <3>2. mint' \in [Writes -> {"none", "challenge", "search", "redeem", "done", "failed"}]
      BY <2>2 DEF PowInv, PowTypeOK
    <3> QED BY <2>2, <3>1, <3>2 DEF PowInv, PowTypeOK
  <2> QED BY <2>1, <2>2
<1>2. OneSession'
  BY PowAssumption, RequestShape DEF PowInv, PowTypeOK, OneSession
<1>3. EntriesWait'
  BY PowAssumption, RequestShape DEF PowInv, PowTypeOK, OneSession, EntriesWait
<1>4. MintsBind'
  BY PowAssumption, RequestShape DEF PowInv, PowTypeOK, OneSession, EntriesWait, MintsBind
<1>5. TokensAtSlots'
  BY PowAssumption, RequestShape DEF PowInv, PowTypeOK, OneSession, EntriesWait, MintsBind, TokensAtSlots
<1>6. OwnTokens'
  BY PowAssumption, RequestShape DEF PowInv, PowTypeOK, OneSession, EntriesWait, OwnTokens
<1> QED BY <1>1, <1>2, <1>3, <1>4, <1>5, <1>6 DEF PowInv

\* The entries of the session get their presentations.
LEMMA RedeemedInv == ASSUME PowInv, NEW s \in Writes, Redeemed(s) PROVE PowInv'
<1> USE DEF Redeemed
<1>1. PowTypeOK'
  BY PowAssumption, RequestShape, EntryPlace DEF PowInv, PowTypeOK
<1>2. OneSession'
  BY PowAssumption, RequestShape, EntryPlace DEF PowInv, PowTypeOK, OneSession
<1>3. EntriesWait'
  BY PowAssumption, RequestShape, EntryPlace DEF PowInv, PowTypeOK, OneSession, EntriesWait
<1>4. MintsBind'
  BY PowAssumption, RequestShape, EntryPlace DEF PowInv, PowTypeOK, OneSession, EntriesWait, MintsBind
<1>5. TokensAtSlots'
  <2> SUFFICES ASSUME NEW r \in Requests, token'[r] # None
               PROVE  mint'[token'[r]] # "none" /\ slot[token'[r]][r[2]] = r
    BY DEF TokensAtSlots
  <2>1. CASE r \in Entries(s)
    <3>1. entry[s][r[2]] = r /\ r[2] \in Operations /\ r # None
      BY <2>1, EntryPlace, RequestShape, PowAssumption
    <3>2. slot[s][r[2]] = r
      BY <3>1 DEF PowInv, EntriesWait
    <3>3. token'[r] = s /\ mint'[s] = "done"
      BY <2>1 DEF PowInv, PowTypeOK
    <3> QED BY <3>2, <3>3
  <2>2. CASE r \notin Entries(s)
    BY <2>2 DEF PowInv, PowTypeOK, TokensAtSlots
  <2> QED BY <2>1, <2>2
<1>6. OwnTokens'
  BY PowAssumption, RequestShape, EntryPlace DEF PowInv, PowTypeOK, OneSession, EntriesWait, OwnTokens
<1> QED BY <1>1, <1>2, <1>3, <1>4, <1>5, <1>6 DEF PowInv

\* The entries of the session are rejected.
LEMMA MintFailsInv == ASSUME PowInv, NEW s \in Writes, MintFails(s) PROVE PowInv'
<1> USE DEF MintFails
<1>1. PowTypeOK'
  BY PowAssumption, RequestShape, EntryPlace DEF PowInv, PowTypeOK
<1>2. OneSession'
  BY PowAssumption, RequestShape, EntryPlace DEF PowInv, PowTypeOK, OneSession
<1>3. EntriesWait'
  BY PowAssumption, RequestShape, EntryPlace DEF PowInv, PowTypeOK, OneSession, EntriesWait
<1>4. MintsBind'
  BY PowAssumption, RequestShape, EntryPlace DEF PowInv, PowTypeOK, OneSession, EntriesWait, MintsBind
<1>5. TokensAtSlots'
  BY PowAssumption, RequestShape, EntryPlace DEF PowInv, PowTypeOK, OneSession, EntriesWait, MintsBind, TokensAtSlots
<1>6. OwnTokens'
  <2> SUFFICES ASSUME NEW v \in Writes, NEW o \in Operations, o \in SlotsOf[v]
               PROVE  /\ write[v] = "running" =>
                          /\ request'[<<v, o>>] = "waiting" => entry[v][o] = <<v, o>>
                          /\ request'[<<v, o>>] \in {"admitted", "prepared"} => token[<<v, o>>] = v
                      /\ write[v] = "done" =>
                          request'[<<v, o>>] = "prepared" /\ token[<<v, o>>] = v
    BY DEF OwnTokens
  <2>1. <<v, o>> \in Requests
    BY RequestShape
  <2>2. CASE <<v, o>> \in Entries(s)
    <3>1. request[<<v, o>>] = "waiting" /\ request'[<<v, o>>] = "rejected"
      BY <2>1, <2>2, EntryPlace, PowAssumption, RequestShape DEF PowInv, EntriesWait
    <3> QED BY <3>1 DEF PowInv, OwnTokens
  <2>3. CASE <<v, o>> \notin Entries(s)
    BY <2>1, <2>3 DEF PowInv, OwnTokens
  <2> QED BY <2>2, <2>3
<1> QED BY <1>1, <1>2, <1>3, <1>4, <1>5, <1>6 DEF PowInv

LEMMA NextInv == PowInv /\ [Next]_vars => PowInv'
<1> SUFFICES ASSUME PowInv, [Next]_vars PROVE PowInv'
  OBVIOUS
<1>1. CASE \E w \in Writes : WriteStep(w) \/ MintStep(w)
  BY <1>1, BeginInv, EndInv, MintingInv, RedeemedInv, MintFailsInv DEF WriteStep, MintStep
<1>2. CASE \E r \in Requests : RequestStep(r)
  BY <1>2, RejectInv, RegisterInv, PreparedInv
    DEF RequestStep, Arrive, Fail, Uncovered, Refused
<1>3. CASE UNCHANGED vars
  BY <1>3 DEF vars, sessionVars, PowInv, PowTypeOK, OneSession, EntriesWait, MintsBind,
    TokensAtSlots, OwnTokens
<1> QED BY <1>1, <1>2, <1>3 DEF Next

-----------------------------------------------------------------------------
(* Theorems *)

\* The invariant holds of every behaviour.
THEOREM PowInvariant == Spec => []PowInv
BY InitInv, NextInv, PTL DEF Spec

\* Types, among them that no mint makes more than challengeAttempts attempts.
THEOREM PowTypeCorrect == Spec => []PowTypeOK
BY PowInvariant, InvBinds, PTL

\* Presentations open their token at the slot of the request they are given to, and a write
\* that is done was admitted by the one token of its own session.
THEOREM PresentationsBind == Spec => []TokensBind
BY PowInvariant, InvBinds, PTL
=============================================================================
