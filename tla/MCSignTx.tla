------------------------------ MODULE MCSignTx ------------------------------
\* Two inputs and two outputs; coins of two amounts, and every lie about one.
EXTENDS SignTx

MCCoins == [kind : {"pre", "v0", "v1"}, amount : {2, 5}]

Of(method, m) == [method |-> method] @@ m

TxInputs ==
    {[NoInput EXCEPT !.path = p, !.witness = w, !.p2tr = t, !.commitment = c, !.input_tx = x, !.satoshi = s] :
        p \in BOOLEAN, w \in {"yes", "no", "absent"}, t \in BOOLEAN, c \in BOOLEAN,
        x \in {"none", "right", "wrong"}, s \in {2, 5}}

\* satoshi counts only without the transaction, the rest only with a path.
Sensible(m) ==
    /\ m.input_tx # "none" => m.satoshi = 2
    /\ ~m.path => ~m.p2tr /\ ~m.commitment

MCMessages ==
    {Of("tx_input", m) : m \in {m \in TxInputs : Sensible(m)}}
    \cup {Of("get_signature", [NoInput EXCEPT !.entropy = e]) : e \in {"none", "valid", "short"}}
    \cup {Of("bad tx_input", NoInput), Of("other", NoInput)}

Entry(to, entry, change, odd) == [to |-> to, entry |-> entry, is_change |-> change, odd |-> odd, amount |-> 1]

MCOutputs ==
    { Entry("own", "wallet", TRUE, FALSE), Entry("own", "wallet", TRUE, TRUE), Entry("own", "wallet", FALSE, FALSE),
      Entry("shared", "recovery", TRUE, FALSE), Entry("shared", "wallet", TRUE, FALSE),
      [Entry("other", "none", FALSE, FALSE) EXCEPT !.amount = 3],
      [Entry("other", "none", FALSE, FALSE) EXCEPT !.amount = 0] }

============================================================================
