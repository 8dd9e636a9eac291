----------------------------- MODULE MCCyFuture -----------------------------
EXTENDS CyFuture, TLC

CONSTANTS t1, t2, f1, f2

MCTopics == {t1, t2}
\* Three publications on t1, so that its masked transfer-IDs repeat; one on
\* t2, where a future completed on t1 may be reused.
MCMaxPublish == t1 :> 3 @@ t2 :> 1
MCFutures == {f1, f2}

\* A cyclic transfer-ID of one bit: the CAN mask of 31 scaled down, so that
\* masked transfer-IDs repeat within MaxPublish publications.
MCMaskCan == 1
\* A mask wider than every transfer-ID the model reaches, as on UDP.
MCMaskWide == 7

\* random_u64() as the masked transfer-ID sees it: every residue for the
\* cyclic mask; for the wide one, the start 0 and one where the masked key
\* wraps to 0 within the publications of the model.
MCTidStartsCan == 0..MCMaskCan
MCTidStartsWide == {0, MCMaskWide}

MCSymmetry == Permutations(MCFutures) \cup Permutations(MCTopics)
=============================================================================
