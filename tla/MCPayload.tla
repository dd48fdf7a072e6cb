------------------------------ MODULE MCPayload ------------------------------
(* Strings that are empty, short, at the limit and longer *)
EXTENDS Payload

AllLengths == {0, 1, KeywordLimit, KeywordLimit + 1}
=============================================================================
