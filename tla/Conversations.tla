---------------------------- MODULE Conversations ----------------------------
(***************************************************************************)
(* One customer's conversation with one bot: the updates Telegram          *)
(* delivers, the row of conversations with the customer's balance and the  *)
(* business's free allowance of the month, who pays for a reply, and the   *)
(* credit the owner grants.                                                *)
(*                                                                         *)
(* A request works on the row it has read and writes the changed columns   *)
(* as absolute values when it commits; the keys in Redis change at once.   *)
(* The wallet of the business is module Wallet, the bot's status BotGrace. *)
(***************************************************************************)
EXTENDS Integers, FiniteSets

CONSTANTS
    Updates,   \* the customer's updates, by update_id
    Handlers,  \* the requests that may be open at the same time
    Terms,     \* billing settings the owner chooses from
    NoLimit,   \* per_user_monthly_limit is null
    Tariffs,   \* the models' prices per thousand tokens, and whether they are free
    Usage,     \* token counts of a reply, input and output
    Credits,   \* amounts the owner grants
    MaxCredits,\* bound of the model: how many credits are granted
    MaxMonth   \* bound of the model: the last month

\* Prices and limits the API accepts are not negative (an operator, as the
\* modules that instantiate this one state it).
SoundConstants ==
    /\ \A t \in Terms : t.price \in Nat
    /\ \A t \in Tariffs : t.input \in Nat /\ t.output \in Nat
    /\ \A u \in Usage : u[1] \in Nat /\ u[2] \in Nat
    /\ Credits \subseteq Nat
    /\ MaxCredits \in Nat /\ MaxMonth \in Nat \ {0}

VARIABLES
    terms,     \* the billing columns of the business
    month,     \* the calendar month
    seen,      \* the keys tg:update:<bot>:<update_id> in Redis
    work,      \* the open requests
    credits,   \* how many credits were begun
    conv,      \* the committed row of conversations
    forgotten, \* history: updates whose key has expired
    answered,  \* history: how many replies an update was sent
    tally,     \* history: committed credits less committed prices
    paid,      \* history: what the business paid, by the month of the row
    crossed    \* history: two requests held the row at the same time

vars == <<terms, conv, month, seen, forgotten, answered, work, credits, tally, paid, crossed>>

\* The billing columns of Business at their defaults.
FirstTerms == [policy |-> "business_pays", limit |-> NoLimit, action |-> "block", price |-> 0]

\* balance is etg_balance, used is monthly_etg_used, reset is monthly_reset_at
\* (0 is null).
Row == [exists : BOOLEAN, balance : Int, used : Nat, reset : 0..MaxMonth]

NewRow == [exists |-> TRUE, balance |-> 0, used |-> 0, reset |-> 0]

Waiting == [st |-> "idle"]

\* A request: before billing, with the payer decided, with all to be written.
Reading == [st : {"read", "open"}, update : Updates, terms : Terms \cup {FirstTerms}, old : Row]

Paying == [st : {"paying"}, update : Updates, terms : Terms \cup {FirstTerms}, old : Row,
           row : Row, payer : {"business", "user", "both"}]

Done == [st : {"done"}, old : Row, row : Row, gain : Int, cost : Nat]

Job == {Waiting} \cup Reading \cup Paying \cup Done

TypeOK ==
    /\ terms \in Terms \cup {FirstTerms}
    /\ conv \in Row
    /\ month \in 1..MaxMonth
    /\ seen \subseteq Updates /\ forgotten \subseteq Updates
    /\ answered \in [Updates -> Nat]
    /\ work \in [Handlers -> Job]
    /\ credits \in 0..MaxCredits
    /\ tally \in Int
    /\ paid \in [0..MaxMonth -> Nat]
    /\ crossed \in BOOLEAN

Init ==
    /\ terms = FirstTerms
    /\ conv = [NewRow EXCEPT !.exists = FALSE]
    /\ month = 1
    /\ seen = {} /\ forgotten = {}
    /\ answered = [u \in Updates |-> 0]
    /\ work = [h \in Handlers |-> Waiting]
    /\ credits = 0 /\ tally = 0
    /\ paid = [m \in 0..MaxMonth |-> 0]
    /\ crossed = FALSE

-----------------------------------------------------------------------------
(* What a reply costs and who pays for it.                                 *)

CeilDiv(a, b) == -((-a) \div b)

\* Models whose name ends in ":free" cost nothing, any other reply at least one.
ReplyCost(tariff, usage) ==
    LET cost == CeilDiv(usage[1] * tariff.input, 1000) + CeilDiv(usage[2] * tariff.output, 1000)
    IN  IF tariff.free THEN 0 ELSE IF cost < 1 THEN 1 ELSE cost

\* No model answers, or the message is empty: the fallback text, model "none".
Unanswered == [free |-> FALSE, input |-> 1, output |-> 2]

ReplyCosts == {ReplyCost(t, u) : t \in Tariffs, u \in Usage} \cup {ReplyCost(Unanswered, <<0, 0>>)}

\* _apply_monthly_reset
Reset(row) == IF row.reset # month THEN [row EXCEPT !.used = 0, !.reset = month] ELSE row

UserOrRecharge(payer, row, t) == [payer |-> payer, block |-> row.balance < t.price]

\* Mutant: past the free limit the customer is charged whatever the balance.
OnCredit(row, t) ==
    CASE t.policy = "user_pays" -> UserOrRecharge("user", row, t)
      [] t.policy = "both"      -> UserOrRecharge("both", row, t)
      [] OTHER -> IF t.limit = NoLimit \/ row.used < t.limit
                    THEN [payer |-> "business", block |-> FALSE]
                    ELSE [payer |-> "user", block |-> t.action = "block"]

\* _decide_payer
DecidePayer(row, t) ==
    CASE t.policy = "user_pays" -> UserOrRecharge("user", row, t)
      [] t.policy = "both"      -> UserOrRecharge("both", row, t)
      [] OTHER -> IF t.limit = NoLimit \/ row.used < t.limit
                    THEN [payer |-> "business", block |-> FALSE]
                    ELSE IF t.action = "user_pays" THEN UserOrRecharge("user", row, t)
                    ELSE [payer |-> "business", block |-> TRUE]

BusinessPart(payer, cost) == IF payer = "user" THEN 0 ELSE cost

CustomerPart(payer, t) == IF payer = "business" THEN 0 ELSE t.price

-----------------------------------------------------------------------------
Busy == {h \in Handlers : work[h] # Waiting}

\* Mutant: the update is marked after its reply and not before.
MarkedLater(u) == seen

\* SET NX with an hour's expiry, before anything is done for the update.
Marked(u) == seen \cup {u}

\* Telegram delivers an update, again if it got no 200; a marked one is dropped.
\* Nothing another request sees is done between the mark and the read.
Deliver(h, u) ==
    /\ work[h] = Waiting /\ u \notin seen
    /\ seen' = Marked(u)
    /\ work' = [work EXCEPT ![h] =
           [st |-> IF conv.exists THEN "open" ELSE "read", update |-> u, terms |-> terms, old |-> conv]]
    /\ crossed' = (crossed \/ Busy # {})
    /\ UNCHANGED <<terms, conv, month, forgotten, answered, credits, tally, paid>>

\* One conversation per bot and customer: the INSERT waits for another's
\* transaction and fails if that one commits, and with it the request.
Inserting(h) == work[h].st \in {"open", "paying", "done"} /\ ~work[h].old.exists

Create(h) ==
    /\ work[h].st = "read" /\ ~\E g \in Handlers : Inserting(g)
    /\ work' = [work EXCEPT ![h] = IF conv.exists THEN Waiting ELSE [@ EXCEPT !.st = "open"]]
    /\ UNCHANGED <<terms, conv, month, seen, forgotten, answered, credits, tally, paid, crossed>>

Fetched(h) == IF work[h].old.exists THEN work[h].old ELSE NewRow

Finish(h, row, gain, cost) ==
    work' = [work EXCEPT ![h] =
        [st |-> "done", old |-> @.old, row |-> row, gain |-> gain, cost |-> cost]]

\* The voice note that cannot be heard and /balance end before billing.
Excuse(h) ==
    /\ work[h].st = "open"
    /\ Finish(h, Fetched(h), 0, 0)
    /\ UNCHANGED <<terms, conv, month, seen, forgotten, answered, credits, tally, paid, crossed>>

\* Billing's precheck; the customer is asked to recharge or told of the limit.
Precheck(h) ==
    /\ work[h].st = "open"
    /\ LET row == Reset(Fetched(h))
           verdict == DecidePayer(row, work[h].terms) IN
       IF verdict.block THEN Finish(h, row, 0, 0)
       ELSE work' = [work EXCEPT ![h] =
                [st |-> "paying", update |-> @.update, terms |-> @.terms, old |-> @.old,
                 row |-> row, payer |-> verdict.payer]]
    /\ UNCHANGED <<terms, conv, month, seen, forgotten, answered, credits, tally, paid, crossed>>

\* The booking dialogue answers, or the reply cannot be sent: nothing is charged.
Spare(h) ==
    /\ work[h].st = "paying"
    /\ Finish(h, work[h].row, 0, 0)
    /\ UNCHANGED <<terms, conv, month, seen, forgotten, answered, credits, tally, paid, crossed>>

\* The reply is sent, then the messages are stored and the reply is charged.
Answer(h) ==
    /\ work[h].st = "paying"
    /\ \E cost \in ReplyCosts :
         LET w == work[h]
             mine == CustomerPart(w.payer, w.terms)
             theirs == BusinessPart(w.payer, cost) IN
         Finish(h, [w.row EXCEPT !.balance = @ - mine, !.used = @ + theirs],
                -mine, theirs)
    /\ answered' = [answered EXCEPT ![work[h].update] = @ + 1]
    /\ UNCHANGED <<terms, conv, month, seen, forgotten, credits, tally, paid, crossed>>

\* The owner's credit.
StartCredit(h, amount) ==
    /\ work[h] = Waiting /\ conv.exists /\ credits < MaxCredits
    /\ credits' = credits + 1
    /\ work' = [work EXCEPT ![h] = [st |-> "done", old |-> conv,
           row |-> [conv EXCEPT !.balance = @ + amount], gain |-> amount, cost |-> 0]]
    /\ crossed' = (crossed \/ Busy # {})
    /\ UNCHANGED <<terms, conv, month, seen, forgotten, answered, tally, paid>>

\* An UPDATE names the columns that differ from what the request has read.
Stored(old, row) ==
    [exists  |-> TRUE,
     balance |-> IF row.balance = old.balance THEN conv.balance ELSE row.balance,
     used    |-> IF row.used = old.used THEN conv.used ELSE row.used,
     reset   |-> IF row.reset = old.reset THEN conv.reset ELSE row.reset]

Store(h) ==
    /\ work[h].st = "done"
    /\ conv' = Stored(work[h].old, work[h].row)
    /\ tally' = tally + work[h].gain
    /\ paid' = [paid EXCEPT ![work[h].row.reset] = @ + work[h].cost]
    /\ work' = [work EXCEPT ![h] = Waiting]
    /\ UNCHANGED <<terms, month, seen, forgotten, answered, credits, crossed>>

\* An error before the reply or at the commit rolls back; the mark stays.
Abort(h) ==
    /\ work[h] # Waiting
    /\ work' = [work EXCEPT ![h] = Waiting]
    /\ UNCHANGED <<terms, conv, month, seen, forgotten, answered, credits, tally, paid, crossed>>

-----------------------------------------------------------------------------
UpdateBilling(t) ==
    /\ terms # t
    /\ terms' = t
    /\ UNCHANGED <<conv, month, seen, forgotten, answered, work, credits, tally, paid, crossed>>

NextMonth ==
    /\ month < MaxMonth
    /\ month' = month + 1
    /\ UNCHANGED <<terms, conv, seen, forgotten, answered, work, credits, tally, paid, crossed>>

\* An hour has passed (bound of the model: once for an update).
Forget(u) ==
    /\ u \in seen \ forgotten
    /\ seen' = seen \ {u} /\ forgotten' = forgotten \cup {u}
    /\ UNCHANGED <<terms, conv, month, answered, work, credits, tally, paid, crossed>>

Next ==
    \/ \E h \in Handlers, u \in Updates : Deliver(h, u)
    \/ \E h \in Handlers : Create(h)
    \/ \E h \in Handlers : Excuse(h)
    \/ \E h \in Handlers : Precheck(h)
    \/ \E h \in Handlers : Spare(h)
    \/ \E h \in Handlers : Answer(h)
    \/ \E h \in Handlers, amount \in Credits : StartCredit(h, amount)
    \/ \E h \in Handlers : Store(h)
    \/ \E h \in Handlers : Abort(h)
    \/ \E t \in Terms : UpdateBilling(t)
    \/ NextMonth
    \/ \E u \in Updates : Forget(u)

Spec == Init /\ [][Next]_vars

-----------------------------------------------------------------------------
\* However often Telegram repeats an update, within the hour its mark lasts it
\* is answered at most once, also if the answer's transaction fails
\* (telegram_webhook: "can never re-invoke the (paid) model call").
AnsweredOnce == \A u \in Updates \ forgotten : answered[u] <= 1

\* Unless two requests held the row at the same time, the customer's balance is
\* what was granted less what was charged and never a debt, and the allowance
\* used is what the business paid in the row's month (_decide_payer,
\* _charge_etg, credit_customer).
CustomersAccount ==
    crossed \/ /\ conv.balance = tally /\ conv.balance >= 0
               /\ conv.used = paid[conv.reset]

=============================================================================
