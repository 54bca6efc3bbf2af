----------------------------- MODULE ModelRouter -----------------------------
(***************************************************************************)
(* Choosing an AI model for a message and failing over to the next one.    *)
(* Everything is kept in Redis, one key at a time: the administrators'     *)
(* overrides and chain, the models they have disabled, and each model's    *)
(* health and failure count, which the requests themselves update.         *)
(***************************************************************************)
EXTENDS Naturals, Sequences

CONSTANTS
    Models,        \* the models that can be named
    NoModel,       \* no override
    Default,       \* settings.default_model_id
    Fallback,      \* settings.fallback_model_id
    Emergency,     \* settings.emergency_model_id
    Amharic,       \* the configured models for Amharic, in order
    Wishes,        \* what agent and business may ask for: sequences of models
    Chains,        \* the failover chains an administrator may set, <<>> for none
    Overrides,     \* the models an administrator may impose
    Switched,      \* the models an administrator may disable
    FailThreshold, \* _FAIL_THRESHOLD
    Calls          \* the messages that may be answered at the same time

VARIABLES
    override, \* the global override and the one of the business
    custom,   \* the failover chain that is set
    disabled, \* models with a disabled key
    health,   \* health keys; a missing one reads as healthy
    fails,    \* failure counts, up to the threshold
    switching,\* the second write of an administrator that is still to come
    call      \* the messages being answered

vars == <<override, custom, disabled, health, fails, switching, call>>

Idle == [st |-> "idle"]
NoSwitch == [to |-> "none"]

SoundConstants ==
    /\ NoModel \notin Models /\ {Default, Fallback, Emergency} \subseteq Models
    /\ Amharic \in Seq(Models) /\ Wishes \subseteq Seq(Models) /\ Chains \subseteq Seq(Models)
    /\ Overrides \subseteq Models /\ Switched \subseteq Models
    /\ FailThreshold \in Nat \ {0}

Choosing == [st : {"choosing"}, amharic : BOOLEAN, barred : SUBSET Models, list : Seq(Models)]

\* left are the places of the chain whose models are still to be tried, and the
\* one that is being tried.
Answering ==
    [st : {"calling", "failing", "counting", "recovering", "healing"}, first : Models,
     barred : SUBSET Models, chain : Seq(Models \cup {NoModel}), left : SUBSET Nat]

TypeOK ==
    /\ override \in [{"global", "business"} -> Models \cup {NoModel}]
    /\ custom \in Seq(Models)
    /\ disabled \subseteq Models
    /\ health \in [Models -> {"healthy", "degraded", "down"}]
    /\ fails \in [Models -> 0 .. FailThreshold]
    /\ switching \in {NoSwitch} \cup [to : {"down", "healthy"}, model : Models]
    /\ call \in [Calls -> {Idle} \cup Choosing \cup Answering]

Init ==
    /\ override = [k \in {"global", "business"} |-> NoModel]
    /\ custom = <<>>
    /\ disabled = {}
    /\ health = [m \in Models |-> "healthy"]
    /\ fails = [m \in Models |-> 0]
    /\ switching = NoSwitch
    /\ call = [c \in Calls |-> Idle]

-----------------------------------------------------------------------------
\* An override is set or cleared.
SetOverride(k, m) ==
    /\ override[k] # m
    /\ override' = [override EXCEPT ![k] = m]
    /\ UNCHANGED <<custom, disabled, health, fails, switching, call>>

SetFailoverChain(chain) ==
    /\ chain # <<>> /\ custom # chain
    /\ custom' = chain
    /\ UNCHANGED <<override, disabled, health, fails, switching, call>>

\* disable_model sets the disabled key first and the health key second ...
DisableModel(m) ==
    /\ switching = NoSwitch
    /\ disabled' = disabled \cup {m}
    /\ switching' = [to |-> "down", model |-> m]
    /\ UNCHANGED <<override, custom, health, fails, call>>

\* ... and enable_model undoes both in the same order.
EnableModel(m) ==
    /\ switching = NoSwitch
    /\ disabled' = disabled \ {m}
    /\ switching' = [to |-> "healthy", model |-> m]
    /\ call' = [c \in Calls |-> IF call[c] = Idle THEN Idle
                                ELSE [call[c] EXCEPT !.barred = @ \ {m}]]
    /\ UNCHANGED <<override, custom, health, fails>>

FinishSwitch ==
    /\ switching # NoSwitch
    /\ health' = [health EXCEPT ![switching.model] = switching.to]
    /\ fails' = IF switching.to = "healthy" THEN [fails EXCEPT ![switching.model] = 0] ELSE fails
    /\ switching' = NoSwitch
    /\ UNCHANGED <<override, custom, disabled, call>>

-----------------------------------------------------------------------------
Set(k) == IF override[k] = NoModel THEN <<>> ELSE <<override[k]>>

\* resolve: overrides, the agent's and the business's model, the platform's two.
\* History: barred are the models that were disabled before the call began and
\* have not been enabled since.
Start(c, wish, amharic) ==
    /\ call[c] = Idle
    /\ call' = [call EXCEPT ![c] =
           [st |-> "choosing", amharic |-> amharic, barred |-> disabled,
            list |-> Set("global") \o (Set("business") \o (wish \o <<Default, Fallback>>))]]
    /\ UNCHANGED <<override, custom, disabled, health, fails, switching>>

\* Mutant: the health key alone decides.
NotDown(m) == health[m] # "down"

\* _is_available
IsAvailable(m) == m \notin disabled /\ health[m] # "down"

\* A model is tried once, at its first place in the chain.
Places(chain) ==
    {i \in DOMAIN chain : chain[i] # NoModel /\ \A j \in 1 .. i - 1 : chain[j] # chain[i]}

Foremost(places) == CHOOSE i \in places : \A j \in places : i <= j

\* The models for Amharic that are available now, in place.
Gemini(amharic) ==
    IF amharic THEN [i \in DOMAIN Amharic |-> IF IsAvailable(Amharic[i]) THEN Amharic[i] ELSE NoModel]
    ELSE <<>>

Normal == IF custom = <<>> THEN <<Default, Fallback, Emergency>> ELSE custom

\* _build_failover_chain, once the primary model is known.
Chain(primary, amharic) == Gemini(amharic) \o (<<primary>> \o (Normal \o <<Emergency>>))

Decide(c, primary) ==
    LET chain == Chain(primary, call[c].amharic) IN
    call' = [call EXCEPT ![c] =
        [st |-> "calling", chain |-> chain, left |-> Places(chain),
         first |-> chain[Foremost(Places(chain))], barred |-> @.barred]]

\* The first candidate that is available; the emergency model always is.
Choose(c) ==
    /\ call[c].st = "choosing"
    /\ IF call[c].list = <<>> THEN Decide(c, Emergency)
       ELSE IF IsAvailable(Head(call[c].list)) THEN Decide(c, Head(call[c].list))
       ELSE call' = [call EXCEPT ![c].list = Tail(@)]
    /\ UNCHANGED <<override, custom, disabled, health, fails, switching>>

-----------------------------------------------------------------------------
\* The model whose turn it is.
Asked(c) == call[c].chain[Foremost(call[c].left)]

Move(c, st) == call' = [call EXCEPT ![c].st = st]

Answer(c, ok) ==
    /\ call[c].st = "calling"
    /\ Move(c, IF ok THEN "recovering" ELSE "failing")
    /\ UNCHANGED <<override, custom, disabled, health, fails, switching>>

\* The next model of the chain, or AllModelsFailedError.
Advance(c) ==
    LET left == call[c].left \ {Foremost(call[c].left)} IN
    call' = [call EXCEPT ![c] = IF left = {} THEN Idle ELSE [@ EXCEPT !.st = "calling", !.left = left]]

\* _record_failure counts ...
CountFailure(c) ==
    /\ call[c].st = "failing"
    /\ LET m == Asked(c)
           n == IF fails[m] < FailThreshold THEN fails[m] + 1 ELSE FailThreshold IN
       /\ fails' = [fails EXCEPT ![m] = n]
       /\ IF n = FailThreshold THEN Move(c, "counting") ELSE Advance(c)
    /\ UNCHANGED <<override, custom, disabled, health, switching>>

\* ... and then marks the model.
Degrade(c) ==
    /\ call[c].st = "counting"
    /\ health' = [health EXCEPT ![Asked(c)] = "degraded"]
    /\ Advance(c)
    /\ UNCHANGED <<override, custom, disabled, fails, switching>>

\* _record_success forgets the failures and reads the health ...
ForgetFailures(c) ==
    /\ call[c].st = "recovering"
    /\ fails' = [fails EXCEPT ![Asked(c)] = 0]
    /\ IF health[Asked(c)] = "degraded" THEN Move(c, "healing")
                                                 ELSE call' = [call EXCEPT ![c] = Idle]
    /\ UNCHANGED <<override, custom, disabled, health, switching>>

\* ... and then writes it, whatever it is by now.
Heal(c) ==
    /\ call[c].st = "healing"
    /\ health' = [health EXCEPT ![Asked(c)] = "healthy"]
    /\ call' = [call EXCEPT ![c] = Idle]
    /\ UNCHANGED <<override, custom, disabled, fails, switching>>

\* The count's key expires five minutes after the last failure.
ForgetCount(m) ==
    /\ fails[m] > 0
    /\ fails' = [fails EXCEPT ![m] = 0]
    /\ UNCHANGED <<override, custom, disabled, health, switching, call>>

Next ==
    \/ \E k \in {"global", "business"}, m \in Overrides \cup {NoModel} : SetOverride(k, m)
    \/ \E chain \in Chains : SetFailoverChain(chain)
    \/ \E m \in Switched : DisableModel(m)
    \/ \E m \in Switched : EnableModel(m)
    \/ FinishSwitch
    \/ \E c \in Calls, wish \in Wishes, amharic \in BOOLEAN : Start(c, wish, amharic)
    \/ \E c \in Calls : Choose(c)
    \/ \E c \in Calls, ok \in BOOLEAN : Answer(c, ok)
    \/ \E c \in Calls : CountFailure(c)
    \/ \E c \in Calls : Degrade(c)
    \/ \E c \in Calls : ForgetFailures(c)
    \/ \E c \in Calls : Heal(c)
    \/ \E m \in Models : ForgetCount(m)

Spec == Init /\ [][Next]_vars

-----------------------------------------------------------------------------
\* A message that arrives after a model has been disabled is not given to that
\* model first, whatever earlier messages still write to its health; it may
\* come later in the chain, and the emergency model is always allowed
\* (resolve, _build_failover_chain, _record_failure, _record_success).
DisabledIsNeverFirst ==
    \A c \in Calls : call[c].st = "calling" => call[c].first \notin call[c].barred \ {Emergency}

=============================================================================
