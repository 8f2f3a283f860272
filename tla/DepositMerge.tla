---------------------------- MODULE DepositMerge ----------------------------
(***************************************************************************)
(* The money of the DepositTx (protocol_musig_adaptor.rs).  Each trader's  *)
(* wallet funds a half of the deposit, paid to his own point; each trader  *)
(* then builds the whole: all inputs and all change of both halves, the    *)
(* two aggregated keys in place of the points, and as the fee whatever is  *)
(* left over, counted in an i64.  Nobody compares the two results before   *)
(* round 3, so both must arrive at one transaction by themselves.          *)
(*                                                                         *)
(* BDK's TxBuilder is external: which coins it selects is left open, and   *)
(* it shuffles the inputs and outputs of what it builds.                   *)
(***************************************************************************)
EXTENDS Integers, SequencesExt

CONSTANTS
    Coins,            \* the coins of each wallet
    ValueOf,          \* their amounts
    TermsChoices,     \* the amounts the two contexts may be created with
    Before(_, _)      \* the order of outpoints, and the order of scripts

Role == {"Seller", "Buyer"}
Other(r) == IF r = "Seller" THEN "Buyer" ELSE "Seller"

Change(r)   == <<"change", r>>       \* next_unused_address of the wallet
PointOf(r)  == <<"point", r>>        \* p_a of the seller, q_a of the buyer
P_AGG == <<"agg", "p">>
Q_AGG == <<"agg", "q">>
DepositScripts == {P_AGG, Q_AGG, Change("Seller"), Change("Buyer")}

ASSUME CoinsAssumption ==
    /\ \A r \in Role : IsFiniteSet(Coins[r])
    /\ Coins["Seller"] \cap Coins["Buyer"] = {}
    /\ ValueOf \in [Coins["Seller"] \cup Coins["Buyer"] -> Nat]
ASSUME TermsAssumption ==
    TermsChoices \subseteq [Role -> [seller_amount : Nat, buyer_amount : Nat]]

\* Outpoints differ, and so do the scripts of a deposit.
ASSUME OrderAssumption ==
    \A S \in {Coins["Seller"] \cup Coins["Buyer"], DepositScripts} :
        /\ \A a \in S : ~Before(a, a)
        /\ \A a, b \in S : a = b \/ Before(a, b) \/ Before(b, a)
        /\ \A a, b, c \in S : Before(a, b) /\ Before(b, c) => Before(a, c)

VARIABLES
    terms,     \* BMPContext: the amounts each trader was told
    part,      \* deposit_tx.part_psbt of each trader, once he has it
    merged     \* deposit_tx.signed_psbt of each trader, once he has it
dvars == <<terms, part, merged>>

-----------------------------------------------------------------------------
(* Taproot sizes in virtual bytes, and the wallet's view of amounts.       *)

BASE     == 11      \* version, lock time and counts
INPUT    == 58      \* a key spend
OUTPUT   == 43
FEE_RATE == 20      \* FeeRate::from_sat_per_vb(20)
DUST     == 330     \* of a Taproot output

VSize(inputs, outputs) == BASE + INPUT * inputs + OUTPUT * outputs
InputSum(ins)   == MapThenSumSet(LAMBDA c : ValueOf[c], ins)
OutputSum(outs) == MapThenSumSet(LAMBDA o : o.value, outs)

Out(script, value) == [script |-> script, value |-> value]
None   == [state |-> "none"]
Failed == [state |-> "failed"]
Psbt(ins, outs) == [state |-> "built", ins |-> ins, outs |-> outs]
Built(psbt) == psbt.state = "built"

MergeInit ==
    /\ terms \in TermsChoices
    /\ part = [r \in Role |-> None]
    /\ merged = [r \in Role |-> None]

-----------------------------------------------------------------------------
(* Round 1: generate_part_tx.                                              *)

\* Mutant: each trader funds what the other one owes.
FundedByOther(r) == IF r = "Seller" THEN terms[r].buyer_amount ELSE terms[r].seller_amount

\* The amount this trader's half pays to his point.
FundedByMe(r) == IF r = "Seller" THEN terms[r].seller_amount ELSE terms[r].buyer_amount

\* What ins leave when they pay the recipient and the fee of a half without change.
LeftOf(r, ins) == InputSum(ins) - FundedByMe(r) - FEE_RATE * VSize(Cardinality(ins), 1)

\* The wallet adds a change output if that pays for itself and is not dust;
\* what is too little goes to the fee.
ChangeOf(r, ins) ==
    LET change == LeftOf(r, ins) - FEE_RATE * OUTPUT
    IN  IF change >= DUST THEN {Out(Change(r), change)} ELSE {}

\* The selections of coins that fund a half.
Selections(r) ==
    { ins \in SUBSET Coins[r] : LeftOf(r, ins) >= 0 /\ FundedByMe(r) >= DUST }

GeneratePart(r) ==
    /\ part[r] = None
    /\ \E ins \in Selections(r) :
          part' = [part EXCEPT ![r] =
                     Psbt(ins, {Out(PointOf(r), FundedByMe(r))} \cup ChangeOf(r, ins))]
    /\ UNCHANGED <<terms, merged>>

GeneratePartFails(r) ==
    /\ part[r] = None /\ Selections(r) = {}
    /\ part' = [part EXCEPT ![r] = Failed]
    /\ UNCHANGED <<terms, merged>>

-----------------------------------------------------------------------------
(* Round 2: build_and_merge_tx.                                            *)

DisregardScripts == {PointOf("Seller"), PointOf("Buyer"), P_AGG, Q_AGG}

\* merge: the outputs that are copied from a half.
Copied(psbt) == { o \in psbt.outs : o.script \notin DisregardScripts }

AllInputs == part["Seller"].ins \cup part["Buyer"].ins
AllOutputs(r) ==
    {Out(P_AGG, terms[r].seller_amount), Out(Q_AGG, terms[r].buyer_amount)}
        \cup Copied(part["Seller"]) \cup Copied(part["Buyer"])

\* Mutant: the fee is that of the trader's own half.
TotalOfOwnHalf(r) == InputSum(part[r].ins) - OutputSum(part[r].outs)

\* total: the amounts of both contexts' outputs are taken from what the inputs
\* of both halves bring, less the change that is copied.
Total(r) ==
    InputSum(AllInputs) - terms[r].seller_amount - terms[r].buyer_amount
        - OutputSum(Copied(part["Seller"])) - OutputSum(Copied(part["Buyer"]))

\* finish: a negative total is an absurd fee once it is cast to u64, which no
\* inputs cover, and no output may be dust.
Finishes(r) ==
    /\ Total(r) >= 0
    /\ OutputSum(AllOutputs(r)) + Total(r) <= InputSum(AllInputs)
    /\ \A o \in AllOutputs(r) : o.value >= DUST

\* What the fee leaves goes to another change output of the one who builds.
Drained(r) ==
    LET rest == InputSum(AllInputs) - OutputSum(AllOutputs(r)) - Total(r)
    IN  IF rest >= DUST THEN {Out(Change(r), rest)} ELSE {}

\* sort_by_key, which is stable: position i of the result comes from place p[i].
SortBy(s, key) ==
    LET p == CHOOSE p \in SetToSeqs(1 .. Len(s)) :
                \A i, j \in 1 .. Len(s) : i < j =>
                    \/ Before(key[p[i]], key[p[j]])
                    \/ ~Before(key[p[j]], key[p[i]]) /\ p[i] < p[j]
    IN  [i \in 1 .. Len(s) |-> s[p[i]]]

\* Mutant: the outputs stay in the order in which the wallet shuffled them.
SortedOutputsNot(outs) == outs

\* sort, of the outputs by script and of the inputs by previous output.
SortedOutputs(outs) == SortBy(outs, [i \in 1 .. Len(outs) |-> outs[i].script])
SortedInputs(ins)   == SortBy(ins, ins)

\* Wallets share no coins, so nobody is sent his own; part_psbt is not used again.
BuildAndMerge(r) ==
    /\ merged[r] = None /\ Built(part[r]) /\ Built(part[Other(r)])
    /\ Finishes(r)
    /\ \E ins \in SetToSeqs(AllInputs), outs \in SetToSeqs(AllOutputs(r) \cup Drained(r)) :
          merged' = [merged EXCEPT ![r] = Psbt(SortedInputs(ins), SortedOutputs(outs))]
    /\ UNCHANGED <<terms, part>>

BuildAndMergeFails(r) ==
    /\ merged[r] = None /\ Built(part[r]) /\ Built(part[Other(r)])
    /\ ~Finishes(r)
    /\ merged' = [merged EXCEPT ![r] = Failed]
    /\ UNCHANGED <<terms, part>>

MergeNext ==
    \E r \in Role : \/ GeneratePart(r) \/ GeneratePartFails(r)
                    \/ BuildAndMerge(r) \/ BuildAndMergeFails(r)

MergeSpec == MergeInit /\ [][MergeNext]_dvars

-----------------------------------------------------------------------------

\* Both build the same DepositTx, inputs, outputs and their order, exactly if
\* they were told the same amounts, whatever coins the wallets selected and in
\* whatever order they shuffled them (why sort the inputs and outputs?).
BothMergeTheSame ==
    (\A r \in Role : merged[r] # None) =>
        (Built(merged["Seller"]) /\ merged["Seller"] = merged["Buyer"]
            <=> terms["Seller"] = terms["Buyer"])

\* What the inputs of a transaction bring and its outputs do not pay out.
FeeOf(psbt) == InputSum(ToSet(psbt.ins)) - OutputSum(ToSet(psbt.outs))

\* A deposit between traders who were told the same pays the fee rate of the
\* halves, although its fee is what is left and never computed from its size.
MergedFeeRate ==
    terms["Seller"] = terms["Buyer"] =>
        \A r \in Role : Built(merged[r]) =>
            FeeOf(merged[r]) >= FEE_RATE * VSize(Len(merged[r].ins), Len(merged[r].outs))

\* What a trader's coins bring to a deposit and his change does not return.
PaidBy(r, psbt) ==
    InputSum(Coins[r] \cap ToSet(psbt.ins))
        - OutputSum({ o \in ToSet(psbt.outs) : o.script = Change(r) })

\* In a deposit that both built each trader pays his own amount, the fee of
\* what he added to the transaction, and at most a change that was not worth
\* an output; neither pays for the other.
EachPaysHisShare ==
    Built(merged["Seller"]) /\ merged["Seller"] = merged["Buyer"] =>
        \A r \in Role :
            LET mine  == Cardinality(Coins[r] \cap ToSet(merged[r].ins))
                outs  == Cardinality({ o \in ToSet(merged[r].outs) : o.script = Change(r) })
                share == IF r = "Seller" THEN terms[r].seller_amount
                                         ELSE terms[r].buyer_amount
                extra == PaidBy(r, merged[r]) - share - FEE_RATE * VSize(mine, 1 + outs)
            IN  extra >= 0 /\ extra < FEE_RATE * OUTPUT + DUST
=============================================================================
