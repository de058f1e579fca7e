---------------------------- MODULE MCLifecycle -----------------------------
(* TLC instances of Lifecycle: the last channel is synchronous, those before *)
(* it have threads of their own.                                             *)
EXTENDS Lifecycle

MCChannelType ==
  [c \in Channels |-> IF c = ChannelSize THEN "CHANNEL_SYNC" ELSE "CHANNEL_ASYNC"]
=============================================================================
