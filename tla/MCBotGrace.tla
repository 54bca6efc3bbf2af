----------------------------- MODULE MCBotGrace -----------------------------
(* Small instances of BotGrace: a balance of a few replies, so that every    *)
(* threshold is crossed on the way to zero.                                  *)
EXTENDS BotGrace

=============================================================================
