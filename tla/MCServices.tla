----------------------------- MODULE MCServices -----------------------------
(* Services with as few services as its judgements need.                    *)
EXTENDS Services

\* Every call of the phase may go unanswered.
MCFaulty == Calls
=============================================================================
