------------------------------ MODULE Services ------------------------------
(***************************************************************************)
(* The services around a business side by side: its transfer, the accounts *)
(* and their sessions, onboarding, the storefront, custom domains and the  *)
(* marketplace.  Each is a module of its own with variables of its own; no *)
(* property of one speaks of the state of another.                         *)
(***************************************************************************)
EXTENDS Transfer

CONSTANTS
    Emails, TelegramIds, SuperAdmins, MaxIssued, MaxExpired,
    Owners, BotTokens, Nothing, Links, MaxTaps,
    Keys, Editors, Visitors, MaxEdits,
    Tenants, Hosts, MaxTokens, Askers,
    Agents, Shops, Cap, Ratings, Callers, MaxPurchases

VARIABLES
    account, sessions, gone, call, reused, ended,
    businesses, brains, wallets, bot, hook, pending, request, bonus, taps, torn, unsure,
    status, content, edits, editor, visitor, cache, wanted, overlaid, slipped,
    domains, drawn, txt, ask, proved, raced, doubled,
    agent, deployed, trials, unlocks, reviews, rating, caller, bought, contended

A == INSTANCE Accounts WITH expired <- gone, raced <- reused
O == INSTANCE Onboarding
S == INSTANCE Storefront WITH crossed <- overlaid
D == INSTANCE Domains
M == INSTANCE Marketplace

TypesOK ==
    TypeOK /\ A!TypeOK /\ O!TypeOK /\ S!TypeOK /\ D!TypeOK /\ M!TypeOK

OneSessionPerLogin == A!OneSessionPerLogin
SecretsAgree == O!SecretsAgree
ReferralOnce == O!ReferralOnce
NoEditLost == S!NoEditLost
FreshUnlessSlipped == S!FreshUnlessSlipped
VerifiedIsProved == D!VerifiedIsProved
CapKept == M!CapKept

WelcomedAtFirstBot == O!WelcomedAtFirstBot
DarkAtOnce == S!DarkAtOnce

=============================================================================
