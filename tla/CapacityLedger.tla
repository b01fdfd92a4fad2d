--------------------------- MODULE CapacityLedger ---------------------------
(***************************************************************************)
(* What a budget hierarchy promises, without lifecycle, generations, usage *)
(* or time: claims hold an amount on a set of accounts, an amount is       *)
(* granted only within the limit of every one of them and given back       *)
(* whole, and a limit may change under the claims it has granted.          *)
(***************************************************************************)
EXTENDS Integers, FiniteSets

CONSTANTS
    Accounts,    \* the accounts that may be opened
    Claims,      \* the claims that may be made, each once
    MaxAmount,   \* the largest amount of a claim
    Limits       \* the limits an account may be given

VARIABLES
    open,    \* the accounts that exist
    limit,   \* the limit of each account
    held     \* what each claim holds, and on which accounts

ledger == <<open, limit, held>>

Nothing == [on |-> {}, amount |-> 0]

\* The units charged to account a: <<c, u>> is the u-th unit that claim c holds.
Units(a) ==
    {p \in {c \in Claims : a \in held[c].on} \X (1 .. MaxAmount) : p[2] <= held[p[1]].amount}

Load(a) == Cardinality(Units(a))

LedgerInit ==
    /\ open = {}
    /\ limit = [a \in Accounts |-> 0]
    /\ held = [c \in Claims |-> Nothing]

\* Open an account or change its limit, whatever is held on it.
SetLimit(a, l) ==
    /\ open' = open \cup {a}
    /\ limit' = [limit EXCEPT ![a] = l]
    /\ UNCHANGED held

Grant(c) ==
    /\ held[c] = Nothing
    /\ UNCHANGED <<open, limit>>
    /\ \E S \in (SUBSET Accounts) \ {{}}, n \in 1 .. MaxAmount :
          /\ held' = [held EXCEPT ![c] = [on |-> S, amount |-> n]]
          /\ \A a \in S : a \in open /\ Load(a) + n <= limit[a]

GiveBack(c) ==
    /\ held[c] # Nothing
    /\ held' = [held EXCEPT ![c] = Nothing]
    /\ UNCHANGED <<open, limit>>

LedgerNext ==
    \/ \E a \in Accounts, l \in Limits : SetLimit(a, l)
    \/ \E c \in Claims : Grant(c) \/ GiveBack(c)

LedgerSpec == LedgerInit /\ [][LedgerNext]_ledger
=============================================================================
