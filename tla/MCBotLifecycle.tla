--------------------------- MODULE MCBotLifecycle ---------------------------
\* A root user and another, each with a bot.
EXTENDS BotLifecycle, TLC

CONSTANTS alice, bob, A, B

MCTokenOf == alice :> A @@ bob :> B
MCFiles == {[users |-> {alice, bob}, roots |-> {alice}]}
=============================================================================
