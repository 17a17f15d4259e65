--------------------------- MODULE KvConversation ---------------------------
(***************************************************************************)
(* What a decoder with a key/value cache promises its caller: the cache    *)
(* holds the tokens of the conversation, and the logits that can be        *)
(* sampled are those of its last token.                                    *)
(***************************************************************************)
EXTENDS Naturals

CONSTANT Room   \* how many tokens a conversation can hold

VARIABLES
  tokens,       \* how many tokens the cache holds
  readable      \* the token whose logits can be sampled, 0 for none

vars == <<tokens, readable>>

Init == tokens = 0 /\ readable = 0

\* The cache is cleared.
Reset == tokens' = 0 /\ readable' = 0

\* A forward over n tokens adds them, and its logits are those of the last.
Append(n) ==
  /\ tokens + n <= Room
  /\ tokens' = tokens + n /\ readable' = tokens'

Next == Reset \/ \E n \in 1 .. Room : Append(n)
Spec == Init /\ [][Next]_vars
=============================================================================
