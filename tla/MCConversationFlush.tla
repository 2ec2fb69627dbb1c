------------------------- MODULE MCConversationFlush -------------------------
(***************************************************************************)
(* Four records, the first and the third of one request that was retried,  *)
(* for a channel of two and batches of two.                                *)
(***************************************************************************)
EXTENDS ConversationFlush

FourRecords == 1 .. 4
RetriedRequest == [r \in FourRecords |-> IF r = 3 THEN 1 ELSE r]
=============================================================================
