------------------------------- MODULE MCCalls -------------------------------
(* All functions but GetFullHistoryTsLow, which MCCallsFreedTwice.cfg runs. *)
EXTENDS CallReview, TxnCalls, ToolCalls, CallbackCalls

AllPrograms == DbPrograms @@ TxnPrograms @@ ToolPrograms @@ CallbackPrograms

MCPrograms == [f \in DOMAIN AllPrograms \ {"GetFullHistoryTsLow"} |-> AllPrograms[f]]
MCHistory  == [GetFullHistoryTsLow |-> GetFullHistoryTsLow, Get |-> Get]
MCMultiGet == [MultiGet |-> MultiGet, Get |-> Get]
MCNeedsOne == TakesFirst
MCSwallows == {"GetTimestampUint64"}
MCWraps == {"NewRangeTombstoneIterator"}

NoLosses == [f \in DOMAIN AllPrograms |-> {}]
MCLoses  == KnownLosses @@ CallbackLosses @@ NoLosses
=============================================================================
