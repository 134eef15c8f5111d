------------------------------ MODULE PowSpend ------------------------------
(***************************************************************************)
(* Proof-of-work admission of the writes of one page                       *)
(* (js/substrate/pow-issuance-spend-provider.mjs), driven as               *)
(* js/substrate/browser-runtime-authority.mjs drives it.  A write opens    *)
(* the one record session of the page, prepares one request per slot, and  *)
(* closes the session whatever happens.  A request asks the open session   *)
(* for its admission; when every slot has a request, one token is minted   *)
(* whose binding root commits to all of them, and each request gets the    *)
(* presentation of its slot.                                               *)
(*                                                                         *)
(* The admission provider of a relay belongs to the page, not to a write:  *)
(* it asks whichever session is open when it is called.  A request whose   *)
(* write has failed may therefore still arrive, at the session of the      *)
(* next write, and a mint goes on after its session was closed.            *)
(*                                                                         *)
(* A request is identified with its commitment: <<write, operation>>.      *)
(* Hashing, the wire and the token's bytes are left out: a token is the    *)
(* session that minted it, a presentation is that token at a slot.         *)
(***************************************************************************)
EXTENDS Naturals

CONSTANTS
    Writes,
    SlotsOf,    \* operations of each write: CELL.PUT at both relays, or one INBOX.APPEND
    None,
    MaxAttempts \* challengeAttempts

Operations == UNION {SlotsOf[w] : w \in Writes}
Requests   == {r \in Writes \X Operations : r[2] \in SlotsOf[r[1]]}

ASSUME PowAssumption ==
    /\ DOMAIN SlotsOf = Writes
    /\ \A w \in Writes : SlotsOf[w] # {}
    /\ None \notin Writes \cup Requests
    /\ MaxAttempts \in Nat \ {0}

VARIABLES
    write,   \* each write: idle, running, done, failed
    open,    \* openRecord: the write whose session is open
    request, \* each request: idle, preparing, waiting, admitted, prepared, rejected
    slot,    \* orderedCommitments of each session
    entry,   \* its pending entries
    mint,    \* its mint
    attempt, \* of the mint
    bound,   \* the commitments under the binding root of its token
    token    \* the presentation a request was given

sessionVars == <<slot, entry, mint, attempt, bound>>
vars == <<write, open, request, sessionVars, token>>

NoRequests == [o \in Operations |-> None]

Init ==
    /\ write = [w \in Writes |-> "idle"]
    /\ open = None
    /\ request = [r \in Requests |-> "idle"]
    /\ slot = [w \in Writes |-> NoRequests]
    /\ entry = [w \in Writes |-> NoRequests]
    /\ mint = [w \in Writes |-> "none"]
    /\ attempt = [w \in Writes |-> 0]
    /\ bound = [w \in Writes |-> NoRequests]
    /\ token = [r \in Requests |-> None]

RequestsOf(w) == {w} \X SlotsOf[w]
Entries(w)    == {entry[w][o] : o \in SlotsOf[w]} \ {None}

-----------------------------------------------------------------------------
(* A write *)

\* beginRecord, beginOperationRecord: RECORD_BUSY while another write has the session
Begin(w) ==
    /\ write[w] = "idle"
    /\ IF open # None
       THEN /\ write' = [write EXCEPT ![w] = "failed"]
            /\ UNCHANGED <<open, request>>
       ELSE /\ write' = [write EXCEPT ![w] = "running"]
            /\ open' = w
            /\ request' = [r \in Requests |-> IF r[1] = w THEN "preparing" ELSE request[r]]
    /\ UNCHANGED <<sessionVars, token>>

\* The write ends when each of its requests is prepared or one has failed, and closes its
\* session: the entries of the session that still wait are rejected.
End(w) ==
    /\ write[w] = "running"
    /\ \/ /\ \A r \in RequestsOf(w) : request[r] = "prepared"
          /\ write' = [write EXCEPT ![w] = "done"]
       \/ /\ \E r \in RequestsOf(w) : request[r] = "rejected"
          /\ write' = [write EXCEPT ![w] = "failed"]
    /\ open' = IF open = w THEN None ELSE open
    /\ request' = [r \in Requests |->
        IF r \in Entries(w) /\ request[r] = "waiting" THEN "rejected" ELSE request[r]]
    /\ entry' = [entry EXCEPT ![w] = NoRequests]
    /\ UNCHANGED <<slot, mint, attempt, bound, token>>

-----------------------------------------------------------------------------
(* A request *)

Reject(r) ==
    /\ request' = [request EXCEPT ![r] = "rejected"]
    /\ UNCHANGED <<write, open, sessionVars, token>>

\* Anything but the admission may fail in the preparation, before it or after it.
Fail(r) == request[r] \in {"preparing", "admitted"} /\ Reject(r)

\* No session is open, or none that has the relay and the kind of the request.
Covered(r) == open # None /\ r[2] \in SlotsOf[open]
Uncovered(r) == request[r] = "preparing" /\ ~Covered(r) /\ Reject(r)

\* Mutant: a slot may change hands at any time.
SealedNever(r) == FALSE

\* The slot has a request and its token is being, or has been, minted.
Sealed(r) == entry[open][r[2]] # None /\ mint[open] # "none"
Refused(r) == request[r] = "preparing" /\ Covered(r) /\ Sealed(r) /\ Reject(r)

\* The request takes its slot, from the request that had it if need be; the last slot
\* starts the mint, with the commitments of this moment.
Register(r) ==
    LET s == open IN
    /\ request[r] = "preparing" /\ Covered(r) /\ ~Sealed(r)
    /\ request' = [q \in Requests |->
        IF q = r THEN "waiting" ELSE IF q = entry[s][r[2]] THEN "rejected" ELSE request[q]]
    /\ entry' = [entry EXCEPT ![s][r[2]] = r]
    /\ slot' = [slot EXCEPT ![s][r[2]] = r]
    /\ IF mint[s] = "none" /\ \A o \in SlotsOf[s] : entry'[s][o] # None
       THEN /\ mint' = [mint EXCEPT ![s] = "challenge"]
            /\ attempt' = [attempt EXCEPT ![s] = 1]
            /\ bound' = [bound EXCEPT ![s] = slot'[s]]
       ELSE UNCHANGED <<mint, attempt, bound>>
    /\ UNCHANGED <<write, open, token>>

\* The rest of the preparation of an admitted request.
Prepared(r) ==
    /\ request[r] = "admitted"
    /\ request' = [request EXCEPT ![r] = "prepared"]
    /\ UNCHANGED <<write, open, sessionVars, token>>

-----------------------------------------------------------------------------
(* The mint: a challenge, the search for its nonce, its redemption *)

Minting(s, from, to) ==
    /\ mint[s] = from
    /\ mint' = [mint EXCEPT ![s] = to]
    /\ UNCHANGED <<write, open, request, slot, entry, attempt, bound, token>>

Challenged(s) == Minting(s, "challenge", "search")
Found(s)      == Minting(s, "search", "redeem")

\* Mutant: expiries are repeated for ever.
ExpiredForEver(s) ==
    /\ mint[s] = "redeem"
    /\ mint' = [mint EXCEPT ![s] = "challenge"]
    /\ attempt' = [attempt EXCEPT ![s] = @ + 1]
    /\ UNCHANGED <<write, open, request, slot, entry, bound, token>>

\* POW_CHALLENGE_EXPIRED is the one failure that is repeated, with a fresh challenge.
Expired(s) ==
    /\ mint[s] = "redeem" /\ attempt[s] < MaxAttempts
    /\ mint' = [mint EXCEPT ![s] = "challenge"]
    /\ attempt' = [attempt EXCEPT ![s] = @ + 1]
    /\ UNCHANGED <<write, open, request, slot, entry, bound, token>>

\* The token: each entry that is left gets the presentation of its slot.
Redeemed(s) ==
    /\ mint[s] = "redeem"
    /\ mint' = [mint EXCEPT ![s] = "done"]
    /\ request' = [r \in Requests |-> IF r \in Entries(s) THEN "admitted" ELSE request[r]]
    /\ token' = [r \in Requests |-> IF r \in Entries(s) THEN s ELSE token[r]]
    /\ UNCHANGED <<write, open, slot, entry, attempt, bound>>

\* Mutant: the requests are not told.
MintFailsSilently(s) ==
    /\ mint[s] \in {"challenge", "search", "redeem"}
    /\ mint' = [mint EXCEPT ![s] = "failed"]
    /\ UNCHANGED <<write, open, request, slot, entry, attempt, bound, token>>

\* A refusal of the issuer, an invalid answer, an abort, the last expiry.
MintFails(s) ==
    /\ mint[s] \in {"challenge", "search", "redeem"}
    /\ mint' = [mint EXCEPT ![s] = "failed"]
    /\ request' = [r \in Requests |-> IF r \in Entries(s) THEN "rejected" ELSE request[r]]
    /\ UNCHANGED <<write, open, slot, entry, attempt, bound, token>>
-----------------------------------------------------------------------------
WriteStep(w)   == Begin(w) \/ End(w)
Arrive(r)      == Uncovered(r) \/ Refused(r) \/ Register(r)
RequestStep(r) == Fail(r) \/ Arrive(r) \/ Prepared(r)
MintStep(s)    == Challenged(s) \/ Found(s) \/ Expired(s) \/ Redeemed(s) \/ MintFails(s)

Next ==
    \/ \E w \in Writes : WriteStep(w) \/ MintStep(w)
    \/ \E r \in Requests : RequestStep(r)

\* The search for a nonce is a computation of the page: it ends, one way or the other.
SearchEnds(s) == mint[s] = "search" /\ MintStep(s)

\* Local promises settle and are acted on.  Nothing is assumed of the issuer: no timeout and,
\* in production, no signal bounds a request to it, so one may never be answered.
Fairness ==
    /\ \A w \in Writes : WF_vars(End(w)) /\ WF_vars(SearchEnds(w))
    /\ \A r \in Requests : WF_vars(Arrive(r)) /\ WF_vars(Prepared(r))

Spec == Init /\ [][Next]_vars /\ Fairness

-----------------------------------------------------------------------------
(* Properties *)

\* The type invariant: the states of writes, requests, sessions and mints.
PowTypeOK ==
    /\ write \in [Writes -> {"idle", "running", "done", "failed"}]
    /\ open \in Writes \cup {None}
    /\ request \in [Requests ->
        {"idle", "preparing", "waiting", "admitted", "prepared", "rejected"}]
    /\ slot \in [Writes -> [Operations -> Requests \cup {None}]]
    /\ entry \in [Writes -> [Operations -> Requests \cup {None}]]
    /\ bound \in [Writes -> [Operations -> Requests \cup {None}]]
    /\ mint \in [Writes -> {"none", "challenge", "search", "redeem", "done", "failed"}]
    /\ attempt \in [Writes -> 0..MaxAttempts]
    /\ token \in [Requests -> Writes \cup {None}]

\* A presentation opens the binding root of its token at the slot of the very request it
\* is given to, whoever held the slot before; and a write that is done had all of its
\* requests admitted by the one token of its own session.
TokensBind ==
    /\ \A r \in Requests : token[r] # None =>
        /\ bound[token[r]] = slot[token[r]]
        /\ bound[token[r]][r[2]] = r
    /\ \A w \in Writes : write[w] = "done" => \A r \in RequestsOf(w) : token[r] = w

\* The mint has a request at the issuer.
AwaitsIssuer(s) == mint[s] \in {"challenge", "redeem"}

\* Only the issuer can hold up the page.  If a session stays open for ever, and with it every
\* other write of the page refused, its own mint has a request at the issuer that is never
\* answered; and if a request waits for ever, late or not, it waits at a session whose mint
\* has.  Failed, replaced, late and refused requests, failed mints and repeated challenges
\* never hold a session or leave a request waiting.
OnlyIssuerHoldsSession ==
    /\ \A w \in Writes : <>[](open = w) => <>[]AwaitsIssuer(w)
    /\ \A r \in Requests : <>[](request[r] = "waiting") =>
            <>[](\E s \in Writes : r \in Entries(s) /\ AwaitsIssuer(s))
=============================================================================
