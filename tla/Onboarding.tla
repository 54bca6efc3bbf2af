----------------------------- MODULE Onboarding -----------------------------
(***************************************************************************)
(* Connecting a bot: its row, its webhook at Telegram, the first settings  *)
(* and wallet of the business, the welcome bonus and the referral bonus;   *)
(* renewing the webhook's secret and disconnecting the bot.                *)
(*                                                                         *)
(* The rows become visible when a request commits.  Telegram's webhook and *)
(* the pending referrals in Redis change at once and are not rolled back.  *)
(* Balances are module Wallet's, the bot's status is module BotGrace's.    *)
(***************************************************************************)
EXTENDS Naturals

CONSTANTS
    Owners,    \* the owners, each with at most one business
    BotTokens, \* the tokens of their bots
    Nothing,   \* no bot, no webhook, no referrer
    Requests,  \* the requests that may overlap
    Links,     \* the links that may be tapped: the owner who taps, the referrer
    MaxTaps    \* bound of the model: how many referrals an owner may arrive by

SoundConstants ==
    /\ Links \subseteq Owners \X Owners /\ MaxTaps \in Nat
    /\ Nothing \notin Owners \cup Requests \cup {"row", "lost"} \cup [of : Owners, connected : BOOLEAN]
    /\ "row" \notin Requests /\ "lost" \notin Requests

VARIABLES
    businesses, \* owners who have created their business
    brains,     \* owners whose business has a row of business_brain_configs
    wallets,    \* owners whose business has a wallet
    bot,        \* the rows of bots, by token
    hook,       \* whose secret Telegram signs a bot's updates with: the row's, an
                \* open request's, one that is held nowhere; or no webhook
    pending,    \* ref:pending:<owner> in Redis
    request,    \* the open requests
    bonus,      \* the bonus transactions: welcome, of the referred, of the referrer
    taps,       \* history: how many referrals of an owner were stored
    torn,       \* history: bots of which two requests overlapped or one was rolled back
    unsure      \* history: owners two of whose bots were connected at once, or
                \* for whom Redis failed while a referral was redeemed

vars == <<businesses, brains, wallets, bot, hook, pending, request, bonus, taps, torn, unsure>>

Idle == [st |-> "idle"]

Stages == {"checked", "inserted", "funding", "funded", "redeeming", "ready"}

\* A request that connects a bot carries what it will have written.
Connecting == [st : Stages,
               of : Owners, token : BotTokens,
               brain : BOOLEAN, adds : SUBSET Owners, welcome : BOOLEAN,
               from : Owners \cup {Nothing}, paid : SUBSET {"in", "out"}]

Request == {Idle} \cup Connecting
    \cup [st : {"rehooked", "unhooked"}, token : BotTokens]

TypeOK ==
    /\ businesses \subseteq Owners
    /\ brains \subseteq businesses /\ wallets \subseteq businesses
    /\ bot \in [BotTokens -> {Nothing} \cup [of : Owners, connected : BOOLEAN]]
    /\ hook \in [BotTokens -> Requests \cup {"row", "lost", Nothing}]
    /\ pending \in [Owners -> Owners \cup {Nothing}]
    /\ request \in [Requests -> Request]
    /\ bonus \in [Owners -> [welcome : Nat, in : Nat, out : Nat]]
    /\ taps \in [Owners -> 0..MaxTaps]
    /\ torn \subseteq BotTokens /\ unsure \subseteq Owners

Init ==
    /\ businesses = {} /\ brains = {} /\ wallets = {}
    /\ bot = [t \in BotTokens |-> Nothing]
    /\ hook = [t \in BotTokens |-> Nothing]
    /\ pending = [o \in Owners |-> Nothing]
    /\ request = [r \in Requests |-> Idle]
    /\ bonus = [o \in Owners |-> [welcome |-> 0, in |-> 0, out |-> 0]]
    /\ taps = [o \in Owners |-> 0]
    /\ torn = {} /\ unsure = {}

rows == <<businesses, brains, wallets, bot, bonus>>

Set(r, c) == request' = [request EXCEPT ![r] = c]

Open == {r \in Requests : request[r] # Idle}

-----------------------------------------------------------------------------
CreateBusiness(o) ==
    /\ o \notin businesses
    /\ businesses' = businesses \cup {o}
    /\ UNCHANGED <<brains, wallets, bot, hook, pending, request, bonus, taps, torn, unsure>>

\* capture: the first referrer stays, nobody refers himself.
Tap(o, referrer) ==
    /\ o # referrer /\ pending[o] = Nothing /\ taps[o] < MaxTaps
    /\ pending' = [pending EXCEPT ![o] = referrer]
    /\ taps' = [taps EXCEPT ![o] = @ + 1]
    /\ UNCHANGED <<businesses, brains, wallets, bot, hook, request, bonus, torn, unsure>>

\* The key lives for thirty days.
ForgetTap(o) ==
    /\ pending[o] # Nothing
    /\ pending' = [pending EXCEPT ![o] = Nothing]
    /\ UNCHANGED <<businesses, brains, wallets, bot, hook, request, bonus, taps, torn, unsure>>

-----------------------------------------------------------------------------
(* onboard_bot                                                             *)

\* Secrets are random: each request writes one of its own.  When it commits,
\* the row holds its secret and the one before is held nowhere.
Stored(t, r) ==
    [hook EXCEPT ![t] = CASE @ = r -> "row" [] @ = "row" -> "lost" [] OTHER -> @]

\* Mutant: the row keeps the old secret.
Kept(t, r) == [hook EXCEPT ![t] = IF @ = r THEN "lost" ELSE @]

Renewed(t, r) == Stored(t, r)

Erased(t) == [hook EXCEPT ![t] = IF @ = "row" THEN "lost" ELSE @]

\* A request that is rolled back takes its secret with it.
Tear(r) ==
    LET t == request[r].token IN
    /\ hook' = [hook EXCEPT ![t] = IF @ = r THEN "lost" ELSE @]
    /\ torn' = torn \cup {t}

IsConnecting(r) == request[r].st \in Stages

\* The token is valid and no committed bot has it; the business is the owner's.
Check(r, o, t) ==
    /\ request[r] = Idle /\ o \in businesses /\ bot[t] = Nothing
    /\ Set(r, [st |-> "checked", of |-> o, token |-> t, brain |-> FALSE,
               adds |-> {}, welcome |-> FALSE, from |-> Nothing, paid |-> {}])
    /\ unsure' = IF \E q \in Open : IsConnecting(q) /\ request[q].of = o
                THEN unsure \cup {o} ELSE unsure
    /\ UNCHANGED <<rows, hook, pending, taps, torn>>

\* token_hash is unique: the INSERT waits for another request's and fails if
\* that one commits.
Insert(r) ==
    /\ request[r].st = "checked"
    /\ \A q \in Open : IsConnecting(q) /\ request[q].token = request[r].token
                       => request[q].st = "checked"
    /\ IF bot[request[r].token] # Nothing THEN Set(r, Idle)
       ELSE Set(r, [request[r] EXCEPT !.st = "inserted"])
    /\ UNCHANGED <<rows, hook, pending, taps, torn, unsure>>

\* The webhook is registered; then the settings are added if the business has
\* none, and its wallet is read.
SetHook(r) ==
    /\ request[r].st = "inserted"
    /\ LET c == request[r] IN
       /\ hook' = [hook EXCEPT ![c.token] = r]
       /\ Set(r, [c EXCEPT !.brain = c.of \notin brains,
                           !.st = IF c.of \in wallets THEN "funded" ELSE "funding"])
    /\ UNCHANGED <<rows, pending, taps, torn, unsure>>

\* A business has one wallet: the INSERT waits for another request's and breaks
\* the session if that one commits.
MayAdd(r, o) == \A q \in Open \ {r} : IsConnecting(q) => o \notin request[q].adds

\* The first wallet comes with the welcome bonus.
Fund(r) ==
    /\ request[r].st = "funding"
    /\ LET o == request[r].of IN
       /\ MayAdd(r, o)
       /\ Set(r, IF o \in wallets THEN Idle
                 ELSE [request[r] EXCEPT !.st = "funded", !.adds = {o}, !.welcome = TRUE])
       /\ IF o \in wallets THEN Tear(r) ELSE UNCHANGED <<hook, torn>>
    /\ UNCHANGED <<rows, pending, taps, unsure>>

\* redeem reads the pending referral and credits the new business; if Redis does
\* not answer it goes on as if there were none, and the referral stays.
ReadPending(r) ==
    /\ request[r].st = "funded"
    /\ \E p \in {pending[request[r].of], Nothing} :
       Set(r, [request[r] EXCEPT !.from = p, !.paid = IF p = Nothing THEN {} ELSE {"in"},
                                 !.st = IF p = Nothing THEN "ready" ELSE "redeeming"])
    /\ UNCHANGED <<rows, hook, pending, taps, torn, unsure>>

\* Mutant: the referral stays after it was paid.
StillPending(o) == pending

Redeemed(o) == [pending EXCEPT ![o] = Nothing]

Gone(r) == pending' = Redeemed(request[r].of) /\ UNCHANGED unsure

\* Redis does not answer: redeem goes on as if there had been no referral.
Stays(r) == unsure' = unsure \cup {request[r].of} /\ UNCHANGED pending

\* The referrer's business, if there is one, is credited; credit adds a wallet
\* if none is found.  The referral is forgotten before the commit.
Redeem(r) ==
    /\ request[r].st = "redeeming"
    /\ LET c == request[r]
           new == (businesses \cap {c.from}) \ wallets IN
       /\ \A o \in new : MayAdd(r, o)
       /\ Set(r, [c EXCEPT !.st = "ready", !.adds = @ \cup new,
                           !.paid = IF c.from \in businesses THEN {"in", "out"} ELSE @])
    /\ Gone(r) \/ Stays(r)
    /\ UNCHANGED <<rows, hook, taps, torn>>

\* Redis fails at the first credit, which stands.
RedeemHalf(r) ==
    /\ request[r].st = "redeeming"
    /\ Set(r, [request[r] EXCEPT !.st = "ready"])
    /\ Stays(r)
    /\ UNCHANGED <<rows, hook, taps, torn>>

\* Two open requests that find no wallet of the referrer: the second INSERT
\* breaks its session, and the onboarding with it; the referral stays.
RedeemFails(r) ==
    /\ request[r].st = "redeeming"
    /\ ~MayAdd(r, request[r].from) /\ request[r].from \in businesses \ wallets
    /\ Set(r, Idle)
    /\ Tear(r)
    /\ UNCHANGED <<rows, pending, taps, unsure>>

AddBonus(c) == [o \in Owners |->
    [welcome |-> bonus[o].welcome + IF c.welcome /\ o = c.of THEN 1 ELSE 0,
     in      |-> bonus[o].in + IF "in" \in c.paid /\ o = c.of THEN 1 ELSE 0,
     out     |-> bonus[o].out + IF "out" \in c.paid /\ o = c.of THEN 1 ELSE 0]]

\* Fails if another request has added the settings meanwhile.
CommitBot(r) ==
    /\ request[r].st = "ready"
    /\ LET c == request[r] IN
       /\ c.brain => c.of \notin brains
       /\ brains' = brains \cup {c.of}
       /\ wallets' = wallets \cup c.adds
       /\ bot' = [bot EXCEPT ![c.token] = [of |-> c.of, connected |-> TRUE]]
       /\ hook' = Stored(c.token, r)
       /\ bonus' = AddBonus(c)
    /\ Set(r, Idle)
    /\ UNCHANGED <<businesses, pending, taps, torn, unsure>>

-----------------------------------------------------------------------------
\* History: another request works on the same bot.
Overlap(t) == torn' = IF \E q \in Open : request[q].token = t
                      THEN torn \cup {t} ELSE torn

\* refresh_webhook; without an address Telegram drops the webhook.
StartRefresh(r, t) ==
    /\ request[r] = Idle /\ bot[t] # Nothing
    /\ hook' = [hook EXCEPT ![t] = IF bot[t].connected THEN r ELSE Nothing]
    /\ Set(r, [st |-> "rehooked", token |-> t])
    /\ Overlap(t)
    /\ UNCHANGED <<rows, pending, taps, unsure>>

CommitRefresh(r) ==
    /\ request[r].st = "rehooked"
    /\ hook' = Renewed(request[r].token, r)
    /\ Set(r, Idle)
    /\ UNCHANGED <<rows, pending, taps, torn, unsure>>

\* offboard_bot goes on if Telegram does not answer.
StartOffboard(r, t) ==
    /\ request[r] = Idle /\ bot[t] # Nothing
    /\ hook' \in {hook, [hook EXCEPT ![t] = Nothing]}
    /\ Set(r, [st |-> "unhooked", token |-> t])
    /\ Overlap(t)
    /\ UNCHANGED <<rows, pending, taps, unsure>>

CommitOffboard(r) ==
    /\ request[r].st = "unhooked"
    /\ bot' = [bot EXCEPT ![request[r].token].connected = FALSE]
    /\ hook' = Erased(request[r].token)
    /\ Set(r, Idle)
    /\ UNCHANGED <<businesses, brains, wallets, bonus, pending, taps, torn, unsure>>

\* update_brain_config adds the settings of a business that has no bot yet.
SaveSettings(o) ==
    /\ o \in businesses \ brains
    /\ brains' = brains \cup {o}
    /\ UNCHANGED <<businesses, wallets, bot, bonus, hook, pending, request, taps, torn, unsure>>

\* A call fails or the commit does; what Telegram and Redis hold stays.
Fail(r) ==
    /\ request[r] # Idle
    /\ Set(r, Idle)
    /\ IF request[r].st \in {"checked", "inserted"} THEN UNCHANGED <<hook, torn>> ELSE Tear(r)
    /\ UNCHANGED <<rows, pending, taps, unsure>>

Next ==
    \/ \E o \in Owners : CreateBusiness(o)
    \/ \E l \in Links : Tap(l[1], l[2])
    \/ \E o \in Owners : ForgetTap(o)
    \/ \E r \in Requests, o \in Owners, t \in BotTokens : Check(r, o, t)
    \/ \E r \in Requests : Insert(r)
    \/ \E r \in Requests : SetHook(r)
    \/ \E r \in Requests : Fund(r)
    \/ \E r \in Requests : ReadPending(r)
    \/ \E r \in Requests : Redeem(r)
    \/ \E r \in Requests : RedeemHalf(r)
    \/ \E r \in Requests : RedeemFails(r)
    \/ \E r \in Requests : CommitBot(r)
    \/ \E r \in Requests, t \in BotTokens : StartRefresh(r, t)
    \/ \E r \in Requests : CommitRefresh(r)
    \/ \E r \in Requests, t \in BotTokens : StartOffboard(r, t)
    \/ \E r \in Requests : CommitOffboard(r)
    \/ \E o \in Owners : SaveSettings(o)
    \/ \E r \in Requests : Fail(r)

Spec == Init /\ [][Next]_vars

-----------------------------------------------------------------------------
\* A connected bot of which no request is open is called with the secret its row
\* holds, so that telegram_webhook accepts its updates, unless two requests on
\* it overlapped or one of them was rolled back (onboard_bot, refresh_webhook).
SecretsAgree ==
    \A t \in BotTokens \ torn :
        (bot[t] # Nothing /\ ~\E r \in Open : request[r].token = t)
            => (bot[t].connected => hook[t] = "row")

\* A stored referral is paid at most once, and to the referrer only with the
\* referred, unless two of the owner's bots were connected at once or Redis failed
\* meanwhile: redeem reads and deletes it without a lock, after the credits.
ReferralOnce ==
    \A o \in Owners \ unsure : bonus[o].out <= bonus[o].in /\ bonus[o].in <= taps[o]

\* An owner whose bot is connected has had the welcome bonus (create_business:
\* "ETG signup bonus are created when the owner connects their first bot").
\* False: a referral's credit adds the wallet that the bonus comes with.
WelcomedAtFirstBot == \A t \in BotTokens : bot[t] # Nothing => bonus[bot[t].of].welcome > 0

=============================================================================
