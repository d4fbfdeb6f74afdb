------------------------------ MODULE MCPrompts ------------------------------
(***************************************************************************)
(* Requests of every kind; the data are told apart by their names.           *)
(***************************************************************************)
EXTENDS Prompts

Output(n, is_multisig) ==
    [capacity |-> <<"capacity", n>>, destination |-> <<"lock", n>>, is_multisig |-> is_multisig]

\* The union holds the whole transaction state, whatever the prompt shows of it.
Transaction(outputs, contract_type) ==
    [amount |-> [fst |-> "inputs", snd |-> "outputs"], total_fee |-> "fee",
     input_count |-> [fst |-> "first", snd |-> "count"], contract_type |-> contract_type,
     outputs |-> outputs, current_lock_arg |-> <<"lock", 8>>, dao_cell_owner |-> <<"lock", 9>>,
     dao_amount |-> "deposit"]

Transfers(n) ==
    [kind |-> "Transaction (outputs)",
     data |-> Transaction([i \in 1 .. n |-> Output(i, i = 2)], "UNKNOWN")]

Transactions ==
    {[kind |-> k, data |-> Transaction(<<Output(1, m)>>, "NOT_PRESENT")] :
        k \in {"Transaction", "Multi-Input Transaction"}, m \in BOOLEAN}
    \cup {[kind |-> k, data |-> Transaction(<<Output(1, FALSE)>>, "UNKNOWN")] :
            k \in {"Self-Transfer", "Deposit", "Prepare", "Withdrawal"}}
    \cup {Transfers(2), Transfers(5)}

PublicKeys ==
    {[kind |-> k, data |-> [key |-> "path", render_address_lock_arg |-> <<"lock", 7>>]] :
        k \in {"Public Key", "Extended Public Key", "Account"}}

Messages ==
    {[kind |-> "Message", data |-> [display_as_hex |-> hex, display_as_buffer |-> "message"]] :
        hex \in BOOLEAN}
    \cup {[kind |-> "Message Hash", data |-> [display_as_hex |-> FALSE, display_as_buffer |-> "hash"]]}

AllRequests == Transactions \cup PublicKeys \cup Messages
=============================================================================
