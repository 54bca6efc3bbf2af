----------------------------- MODULE MCServices -----------------------------
(* Small instances of the services around a business, one of them at a time: *)
(* `focus` is chosen in the initial state and the others stay as they begin. *)
(*                                                                           *)
(* Transfer: enough people for a business to be offered to two, one after    *)
(* the other; it is the same to which of them it belongs at the start.       *)
(* Accounts: one who registers and a platform owner who comes by Telegram,   *)
(* three refresh tokens.  Onboarding: two owners, one referred by the other, *)
(* two bots.  Storefront: two layout keys, two edits, one visitor.  Domains: *)
(* two businesses, two hosts, two tokens.  Marketplace: a cap of one and     *)
(* three agents, one more than two requests may deploy by trial.             *)
EXTENDS Services, TLC

CONSTANTS o1, o2

VARIABLE focus

MCLinks == {<<o1, o2>>}

ASSUME O!SoundConstants /\ S!SoundConstants /\ M!SoundConstants

accountVars == <<account, sessions, gone, call, reused, ended>>
onboardingVars ==
    <<businesses, brains, wallets, bot, hook, pending, request, bonus, taps, torn, unsure>>
storefrontVars ==
    <<status, content, edits, editor, visitor, cache, wanted, overlaid, slipped>>
domainVars == <<domains, drawn, txt, ask, proved, raced, doubled>>
marketVars ==
    <<agent, deployed, trials, unlocks, reviews, rating, caller, bought, contended>>

allVars == <<focus, vars, accountVars, onboardingVars, storefrontVars, domainVars, marketVars>>

FocusInit ==
    /\ focus \in {"transfer", "accounts", "onboarding", "storefront", "domains", "marketplace"}
    /\ Init /\ owner = CHOOSE u \in Users : TRUE
    /\ A!Init /\ O!Init /\ S!Init /\ D!Init /\ M!Init

FocusNext ==
    /\ UNCHANGED focus
    /\ IF focus = "transfer" THEN Next ELSE UNCHANGED vars
    /\ IF focus = "accounts" THEN A!Next ELSE UNCHANGED accountVars
    /\ IF focus = "onboarding" THEN O!Next ELSE UNCHANGED onboardingVars
    /\ IF focus = "storefront" THEN S!Next ELSE UNCHANGED storefrontVars
    /\ IF focus = "domains" THEN D!Next ELSE UNCHANGED domainVars
    /\ IF focus = "marketplace" THEN M!Next ELSE UNCHANGED marketVars

FocusSpec == FocusInit /\ [][FocusNext]_allVars

Symmetry == Permutations(Requests) \cup Permutations(Transfers)

=============================================================================
