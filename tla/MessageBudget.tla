--------------------------- MODULE MessageBudget ---------------------------
(***************************************************************************)
(* The part of transport::TTransport that bounds what a message may make   *)
(* its reader allocate: knownMessageSize_ is how long the message can be,  *)
(* remainingMessageSize_ what is left of it.  Only consume() draws on it.  *)
(* An operation that throws yields ok = FALSE and the budget it leaves.    *)
(***************************************************************************)
EXTENDS Integers

CONSTANT MaxMessageSize     \* TConfiguration::getMaxMessageSize()

ASSUME MessageSizeAssumption == MaxMessageSize \in Nat \ {0}

Budget == [known : Nat, remaining : Nat]

(* resetConsumedMessageSize(-1)                                            *)
FullBudget == [known |-> MaxMessageSize, remaining |-> MaxMessageSize]

countConsumedMessageBytes(b, n) ==
    [ok |-> b.remaining >= n,
     budget |-> [b EXCEPT !.remaining = IF @ >= n THEN @ - n ELSE 0]]

(* A message can turn out to be shorter than was known, but not longer.    *)
updateKnownMessageSize(b, size) ==
    IF size > b.known THEN [ok |-> FALSE, budget |-> b]
    ELSE countConsumedMessageBytes([known |-> size, remaining |-> size],
                                   b.known - b.remaining)

checkReadBytesAvailable(b, n) == b.remaining >= n
=============================================================================
