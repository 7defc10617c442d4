------------------------------- MODULE Fe1Cash -------------------------------
(***************************************************************************)
(* Digital cash in the store of a device (src/features/digital-cash of       *)
(* fe1-web): transactions that spend outputs of earlier ones, or, when the   *)
(* organizer signs them, of none.                                            *)
(*                                                                          *)
(* The balance of a token and the transactions it has outputs of are kept   *)
(* beside the transactions and are changed with each of them.  The key of a  *)
(* token stands for its hash, the message id for the id of a transaction.    *)
(***************************************************************************)
EXTENDS Fe1Social

\* No transaction has the id of what a coinbase spends.
Coinbase == <<0, 0>>

Input(tx, index) == <<tx, index>>
Output(to, value) == [to |-> to, value |-> value]

\* All inputs of a transaction have one owner, who signs inputs and outputs.
Transaction(from, inputs, outputs) == [from |-> from, inputs |-> inputs, outputs |-> outputs]

IsCoinbase(tx) == tx.inputs[1] = Coinbase
Total(values) == Repeat(Len(values), 0, LAMBDA sum, k : sum + values[k])
TotalOutput(tx) == Total([k \in DOMAIN tx.outputs |-> tx.outputs[k].value])

\* A transaction without inputs or outputs is none; coins go to somebody.
WellFormedTransaction(tx) ==
  tx.inputs # <<>> /\ tx.outputs # <<>> /\ \A i \in DOMAIN tx.outputs : tx.outputs[i].value >= 0
WellFormedPost(m) == m.kind = "post_transaction" => WellFormedTransaction(m.transaction)

-----------------------------------------------------------------------------
(* The reducer *)

EmptyCash == [known |-> NoFunction, balances |-> NoFunction, outOf |-> NoFunction,
              history |-> NoFunction, order |-> <<>>]
CashOf(st, l) == IF l \in DOMAIN st.cash THEN st.cash[l] ELSE EmptyCash

AtKey(f, key, default) == IF key \in DOMAIN f THEN f[key] ELSE default

\* The transactions of a key, each once.
CreateEntryAndAddPubHash(history, key, id) ==
  LET old == AtKey(history, key, <<>>)
  IN Put(history, key, IF id \in ToSet(old) THEN old ELSE Append(old, id))

\* Mistake: the outputs are spent, the balance stays.
SpendInputKeepingBalance(cash, key, input, id) ==
  [cash EXCEPT !.outOf = IF input = Coinbase THEN @ ELSE Put(@, key, <<>>),
               !.history = CreateEntryAndAddPubHash(@, key, id)]

\* All coins of a key are taken to be spent by a transaction with an input of it.
SpendInput(cash, key, input, id) ==
  [cash EXCEPT !.balances = IF input = Coinbase THEN @ ELSE Put(@, key, 0),
               !.outOf = IF input = Coinbase THEN @ ELSE Put(@, key, <<>>),
               !.history = CreateEntryAndAddPubHash(@, key, id)]

\* A transaction is noted once for each of its outputs to a key.
ReceiveOutput(cash, out, id) ==
  [cash EXCEPT !.balances = Put(@, out.to, AtKey(@, out.to, 0) + out.value),
               !.outOf = Put(@, out.to, Append(AtKey(@, out.to, <<>>), id)),
               !.history = CreateEntryAndAddPubHash(@, out.to, id)]

AddTransaction(st, l, id, tx) ==
  LET old == CashOf(st, l)
      added == [old EXCEPT !.known = Put(@, id, tx), !.order = Append(@, id)]
      spent == Repeat(Len(tx.inputs), added,
                      LAMBDA c, k : SpendInput(c, tx.from, tx.inputs[k], id))
  IN [st EXCEPT !.cash = Put(@, l,
       Repeat(Len(tx.outputs), spent, LAMBDA c, k : ReceiveOutput(c, tx.outputs[k], id)))]

-----------------------------------------------------------------------------
(* Selectors *)

Balance(st, l, key) == AtKey(CashOf(st, l).balances, key, 0)
Transactions(st, l) == CashOf(st, l).order
TransactionsById(st, l) == CashOf(st, l).known
TransactionsByOutPublicKey(st, l, key) == AtKey(CashOf(st, l).outOf, key, <<>>)

\* The transactions the tokens of the wallet took part in; reading those of a token
\* that took part in none throws, once there is one.
TransactionsByTokens(st, l) ==
  LET tokens == {GenerateToken(st, r) : r \in RollCallTokens(st, l)}
      history == CashOf(st, l).history
  IN IF l \notin DOMAIN st.cash THEN {}
     ELSE IF tokens \subseteq DOMAIN history THEN UNION {ToSet(history[t]) : t \in tokens}
     ELSE None

\* The list shows what each transaction has spent and given.
TransactionHistory(st, l) ==
  TransactionsByTokens(st, l) # None
    /\ \A id \in TransactionsByTokens(st, l) : \A i \in DOMAIN TransactionsById(st, l)[id].inputs :
         LET input == TransactionsById(st, l)[id].inputs[i]
         IN input = Coinbase \/ input[1] \in DOMAIN TransactionsById(st, l)

-----------------------------------------------------------------------------
(* The handler.  Nothing is asked about outputs that are spent already.      *)

InputOutput(known, input) == known[input[1]].outputs[input[2]]

InputIsValid(known, from, input) ==
  /\ input[1] \in DOMAIN known
  /\ input[2] \in DOMAIN known[input[1]].outputs
  /\ InputOutput(known, input).to = from

TotalInput(known, inputs) == Total([k \in DOMAIN inputs |-> InputOutput(known, inputs[k]).value])

CheckTransactionValidity(tx, organizer, known) ==
  IF IsCoinbase(tx) THEN tx.from = organizer
  ELSE /\ \A i \in DOMAIN tx.inputs : InputIsValid(known, tx.from, tx.inputs[i])
       /\ TotalOutput(tx) <= TotalInput(known, tx.inputs)

HandleTransactionPost(st, m, id) ==
  LET l == LaoOf(m)
  IN IF /\ l \in DOMAIN st.laos
        /\ WellFormedTransaction(m.transaction)
        /\ CheckTransactionValidity(m.transaction, st.laos[l].organizer, TransactionsById(st, l))
     THEN Handled(AddTransaction(st, l, id, m.transaction))
     ELSE NotHandled(st)

-----------------------------------------------------------------------------
(* What the screens offer, and the messages they send *)

\* A screen whose list throws offers nothing.
CashScreen(st) ==
  ConnectedToLao(st) /\ CurrentLao(st) # None /\ TransactionHistory(st, st.current)

\* To send, a token that was listed in some roll call and has as much.
CanSend(st, r, amount) ==
  /\ CashScreen(st) /\ r \in RollCallTokens(st, st.current)
  /\ amount >= 0 /\ amount <= Balance(st, st.current, RollCallToken(st, r))
  /\ TransactionsByOutPublicKey(st, st.current, RollCallToken(st, r)) # <<>>
Beneficiaries(st, r) == AttendeesOf(st, r)

\* The codes of the tokens, which others may scan to send them coins.
CashCodes(st) ==
  IF CurrentLao(st) # None /\ CashScreen(st)
  THEN {RollCallToken(st, r) : r \in RollCallTokens(st, st.current)} ELSE {}

\* Coins are issued to somebody, or to all attendees of a roll call that is
\* closed.
CanIssue(st) == CashScreen(st) /\ IsOrganizer(st)
CoinbaseBeneficiaries(st) ==
  LET closed == {r \in EventsOf(st, st.current, "rollCall") : st.rollCalls[r].status = "closed"}
  IN {AttendeesOf(st, r) : r \in closed} \cup {{a} : a \in UNION {AttendeesOf(st, r) : r \in closed}}

\* The outputs of a transaction that go to a key.
OutputsTo(known, id, key) ==
  LET outputs == known[id].outputs
  IN Repeat(Len(outputs), <<>>,
            LAMBDA mine, k : IF outputs[k].to = key THEN Append(mine, Input(id, k)) ELSE mine)

GetInputsInToSign(st, l, key) ==
  LET ids == TransactionsByOutPublicKey(st, l, key)
  IN Repeat(Len(ids), <<>>,
            LAMBDA inputs, k : inputs \o OutputsTo(TransactionsById(st, l), ids[k], key))

\* All coins of the token are spent; what is too much goes back to it.
CreateTransaction(st, l, from, to, amount) ==
  LET balance == Balance(st, l, from)
      change == IF balance > amount THEN <<Output(from, balance - amount)>> ELSE <<>>
  IN Transaction(from, GetInputsInToSign(st, l, from), <<Output(to, amount)>> \o change)

CreateCoinbase(st, to, amount) ==
  LET keys == SetToSeq(to)
  IN Transaction(MyKey(st), <<Coinbase>>, [i \in DOMAIN keys |-> Output(keys[i], amount)])

PostTransaction(st, tx) ==
  [kind |-> "post_transaction", chan |-> CoinChannel(st.current), sender |-> MyKey(st),
   transaction |-> tx]
RequestSendTransaction(st, r, to, amount) ==
  PostTransaction(st, CreateTransaction(st, st.current, RollCallToken(st, r), to, amount))
RequestCoinbaseTransaction(st, to, amount) == PostTransaction(st, CreateCoinbase(st, to, amount))
=============================================================================
