---------------------------- MODULE PromptsProofs ----------------------------
(***************************************************************************)
(* The menu tells the settings, every row on a screen is one of the request *)
(* the user is asked, and the user accepts only after all of its rows: for *)
(* every screen count, page size and set of requests.                      *)
(***************************************************************************)
EXTENDS Prompts, TLAPS

-----------------------------------------------------------------------------
(* The prompts of the handlers have as many rows as labels, and what a row *)
(* writes is what its label promises.                                      *)

Tells(r, row, title) ==
    Generate(row[1], r.data, row[2]) = Meaning(r, title) /\ row[1] # NULL

Complete(r, labels, rows) ==
    LET k == Len(labels)
    IN  /\ k \in 1 .. 6 /\ Len(rows) = k
        /\ \A n \in 1 .. k : labels[n] \in Titles(r) /\ Tells(r, rows[n], labels[n])
        /\ \A title \in Titles(r) : \E n \in 1 .. k : labels[n] = title

Answers(r, ok, cxl) ==
    /\ Complete(r, PromptOf(r).labels, PromptOf(r).rows)
    /\ PromptOf(r).ok = ok /\ PromptOf(r).cxl = cxl

(* A prompt of one row (register_ui_callbacks and its labels). *)
LEMMA OneTold ==
    ASSUME NEW r, NEW labels, NEW rows, Len(labels) = 1, Len(rows) = 1,
           Titles(r) = {labels[1]},
           Tells(r, rows[1], labels[1])
    PROVE  Complete(r, labels, rows)
  BY DEF Complete

(* A prompt of two rows (register_ui_callbacks and its labels). *)
LEMMA TwoTold ==
    ASSUME NEW r, NEW labels, NEW rows, Len(labels) = 2, Len(rows) = 2,
           Titles(r) = {labels[1], labels[2]},
           Tells(r, rows[1], labels[1]),
           Tells(r, rows[2], labels[2])
    PROVE  Complete(r, labels, rows)
  BY DEF Complete

(* A prompt of three rows (register_ui_callbacks and its labels). *)
LEMMA ThreeTold ==
    ASSUME NEW r, NEW labels, NEW rows, Len(labels) = 3, Len(rows) = 3,
           Titles(r) = {labels[1], labels[2], labels[3]},
           Tells(r, rows[1], labels[1]),
           Tells(r, rows[2], labels[2]),
           Tells(r, rows[3], labels[3])
    PROVE  Complete(r, labels, rows)
  BY DEF Complete

(* A prompt of four rows (register_ui_callbacks and its labels). *)
LEMMA FourTold ==
    ASSUME NEW r, NEW labels, NEW rows, Len(labels) = 4, Len(rows) = 4,
           Titles(r) = {labels[1], labels[2], labels[3], labels[4]},
           Tells(r, rows[1], labels[1]),
           Tells(r, rows[2], labels[2]),
           Tells(r, rows[3], labels[3]),
           Tells(r, rows[4], labels[4])
    PROVE  Complete(r, labels, rows)
  BY DEF Complete

(* A prompt of five rows (register_ui_callbacks and its labels). *)
LEMMA FiveTold ==
    ASSUME NEW r, NEW labels, NEW rows, Len(labels) = 5, Len(rows) = 5,
           Titles(r) = {labels[1], labels[2], labels[3], labels[4], labels[5]},
           Tells(r, rows[1], labels[1]),
           Tells(r, rows[2], labels[2]),
           Tells(r, rows[3], labels[3]),
           Tells(r, rows[4], labels[4]),
           Tells(r, rows[5], labels[5])
    PROVE  Complete(r, labels, rows)
  BY DEF Complete

(* A prompt of six rows (register_ui_callbacks and its labels). *)
LEMMA SixTold ==
    ASSUME NEW r, NEW labels, NEW rows, Len(labels) = 6, Len(rows) = 6,
           Titles(r) = {labels[1], labels[2], labels[3], labels[4], labels[5], labels[6]},
           Tells(r, rows[1], labels[1]),
           Tells(r, rows[2], labels[2]),
           Tells(r, rows[3], labels[3]),
           Tells(r, rows[4], labels[4]),
           Tells(r, rows[5], labels[5]),
           Tells(r, rows[6], labels[6])
    PROVE  Complete(r, labels, rows)
  BY DEF Complete

(* The prompt of a public key (apdu_pubkey.c). *)
LEMMA PublicKeyRows ==
    ASSUME NEW r, r.kind = "Public Key"
    PROVE  Answers(r, "pubkey_ok", "delay_reject")
  <1>1. r.kind \in {"Public Key", "Extended Public Key", "Account"}
    BY Zenon
  <1>2. PromptOf(r) = PublicKeyPrompt("Public Key")
    BY <1>1 DEF PromptOf
  <1>3. PICK labels : labels = <<"Address">>
    OBVIOUS
  <1>4. PICK rows : rows = <<<<"sighash_address", "render_address_lock_arg">>>>
    OBVIOUS
  <1>5. PromptOf(r) = [labels |-> labels, rows |-> rows, ok |-> "pubkey_ok", cxl |-> "delay_reject"]
    BY <1>2, <1>3, <1>4, Zenon DEF PublicKeyPrompt, Prompt, Static, Row, Capacity, Owner, Destination
  <1>6. Titles(r) = {"Address"}
    BY DEF Titles
  <1>7. Tells(r, <<"sighash_address", "render_address_lock_arg">>, "Address")
    BY DEF Tells, Generate, Pointed, Meaning, Text, Static, NULL, IsOutputs, DestinationCallback
  <1>8. Len(labels) = 1 /\ labels[1] = "Address"
    BY ONLY <1>3
  <1>9. Len(rows) = 1
    BY ONLY <1>4
  <1>10. rows[1] = <<"sighash_address", "render_address_lock_arg">>
    BY ONLY <1>4
  <1>11. Complete(r, labels, rows)
    BY ONLY <1>6, <1>7, <1>8, <1>9, <1>10, OneTold, Zenon
  <1>12. /\ PromptOf(r).labels = labels /\ PromptOf(r).rows = rows
         /\ PromptOf(r).ok = "pubkey_ok" /\ PromptOf(r).cxl = "delay_reject"
    BY ONLY <1>5
  <1> QED BY <1>11, <1>12, Zenon DEF Answers

(* The prompt of an extended public key (apdu_pubkey.c). *)
LEMMA ExtendedKeyRows ==
    ASSUME NEW r, r.kind = "Extended Public Key"
    PROVE  Answers(r, "ext_pubkey_ok", "delay_reject")
  <1>1. r.kind \in {"Public Key", "Extended Public Key", "Account"}
    BY Zenon
  <1>2. PromptOf(r) = PublicKeyPrompt("Extended Public Key")
    BY <1>1 DEF PromptOf
  <1>3. PICK labels : labels = <<"Provide", "Derivation Path", "Address">>
    OBVIOUS
  <1>4. PICK rows : rows = <<<<"copy_string", "Extended Public Key">>, <<"bip32_path_to_string", "key">>, <<"sighash_address", "render_address_lock_arg">>>>
    OBVIOUS
  <1>5. PromptOf(r) = [labels |-> labels, rows |-> rows, ok |-> "ext_pubkey_ok", cxl |-> "delay_reject"]
    BY <1>2, <1>3, <1>4, Zenon DEF PublicKeyPrompt, Prompt, Static, Row, Capacity, Owner, Destination
  <1>6. Titles(r) = {"Provide", "Derivation Path", "Address"}
    BY DEF Titles
  <1>7. Tells(r, <<"copy_string", "Extended Public Key">>, "Provide")
    BY DEF Tells, Generate, Pointed, Meaning, Text, Static, NULL, IsOutputs, DestinationCallback
  <1>8. Tells(r, <<"bip32_path_to_string", "key">>, "Derivation Path")
    BY DEF Tells, Generate, Pointed, Meaning, Text, Static, NULL, IsOutputs, DestinationCallback
  <1>9. Tells(r, <<"sighash_address", "render_address_lock_arg">>, "Address")
    BY DEF Tells, Generate, Pointed, Meaning, Text, Static, NULL, IsOutputs, DestinationCallback
  <1>10. Len(labels) = 3 /\ labels[1] = "Provide" /\ labels[2] = "Derivation Path" /\ labels[3] = "Address"
    BY ONLY <1>3
  <1>11. Len(rows) = 3
    BY ONLY <1>4
  <1>12. rows[1] = <<"copy_string", "Extended Public Key">>
    BY ONLY <1>4
  <1>13. rows[2] = <<"bip32_path_to_string", "key">>
    BY ONLY <1>4
  <1>14. rows[3] = <<"sighash_address", "render_address_lock_arg">>
    BY ONLY <1>4
  <1>15. Complete(r, labels, rows)
    BY ONLY <1>6, <1>7, <1>8, <1>9, <1>10, <1>11, <1>12, <1>13, <1>14, ThreeTold, Zenon
  <1>16. /\ PromptOf(r).labels = labels /\ PromptOf(r).rows = rows
         /\ PromptOf(r).ok = "ext_pubkey_ok" /\ PromptOf(r).cxl = "delay_reject"
    BY ONLY <1>5
  <1> QED BY <1>15, <1>16, Zenon DEF Answers

(* The prompt of an account import (apdu_account_import.c). *)
LEMMA AccountRows ==
    ASSUME NEW r, r.kind = "Account"
    PROVE  Answers(r, "account_import_ok", "delay_reject")
  <1>1. r.kind \in {"Public Key", "Extended Public Key", "Account"}
    BY Zenon
  <1>2. PromptOf(r) = PublicKeyPrompt("Account")
    BY <1>1 DEF PromptOf
  <1>3. PICK labels : labels = <<"Import">>
    OBVIOUS
  <1>4. PICK rows : rows = <<<<"copy_string", "Account">>>>
    OBVIOUS
  <1>5. PromptOf(r) = [labels |-> labels, rows |-> rows, ok |-> "account_import_ok", cxl |-> "delay_reject"]
    BY <1>2, <1>3, <1>4, Zenon DEF PublicKeyPrompt, Prompt, Static, Row, Capacity, Owner, Destination
  <1>6. Titles(r) = {"Import"}
    BY DEF Titles
  <1>7. Tells(r, <<"copy_string", "Account">>, "Import")
    BY DEF Tells, Generate, Pointed, Meaning, Text, Static, NULL, IsOutputs, DestinationCallback
  <1>8. Len(labels) = 1 /\ labels[1] = "Import"
    BY ONLY <1>3
  <1>9. Len(rows) = 1
    BY ONLY <1>4
  <1>10. rows[1] = <<"copy_string", "Account">>
    BY ONLY <1>4
  <1>11. Complete(r, labels, rows)
    BY ONLY <1>6, <1>7, <1>8, <1>9, <1>10, OneTold, Zenon
  <1>12. /\ PromptOf(r).labels = labels /\ PromptOf(r).rows = rows
         /\ PromptOf(r).ok = "account_import_ok" /\ PromptOf(r).cxl = "delay_reject"
    BY ONLY <1>5
  <1> QED BY <1>11, <1>12, Zenon DEF Answers

(* The prompt of a message, as text or as hexadecimal (apdu_sign.c). *)
LEMMA MessageRows ==
    ASSUME NEW r, r.kind = "Message"
    PROVE  Answers(r, "sign_message_ok", "sign_reject")
  <1>1. r.kind \in {"Message", "Message Hash"}
    BY Zenon
  <1>2. PromptOf(r) = MessagePrompt("Message", r.data)
    BY <1>1 DEF PromptOf
  <1>3. PICK labels : labels = <<"Sign", "Message: ">>
    OBVIOUS
  <1>4. PICK rows : rows = <<<<"copy_string", "Message">>, <<IF r.data.display_as_hex THEN "buffer_to_hex" ELSE "copy_buffer", "display_as_buffer">>>>
    OBVIOUS
  <1>5. PromptOf(r) = [labels |-> labels, rows |-> rows, ok |-> "sign_message_ok", cxl |-> "sign_reject"]
    BY <1>2, <1>3, <1>4, Zenon DEF MessagePrompt, Prompt, Static, Row, Capacity, Owner, Destination
  <1>6. Titles(r) = {"Sign", "Message: "}
    BY DEF Titles
  <1>7. Tells(r, <<"copy_string", "Message">>, "Sign")
    BY DEF Tells, Generate, Pointed, Meaning, Text, Static, NULL, IsOutputs, DestinationCallback
  <1>8. Tells(r, <<IF r.data.display_as_hex THEN "buffer_to_hex" ELSE "copy_buffer", "display_as_buffer">>, "Message: ")
    BY DEF Tells, Generate, Pointed, Meaning, Text, Static, NULL, IsOutputs, DestinationCallback
  <1>9. Len(labels) = 2 /\ labels[1] = "Sign" /\ labels[2] = "Message: "
    BY ONLY <1>3
  <1>10. Len(rows) = 2
    BY ONLY <1>4
  <1>11. rows[1] = <<"copy_string", "Message">>
    BY ONLY <1>4
  <1>12. rows[2] = <<IF r.data.display_as_hex THEN "buffer_to_hex" ELSE "copy_buffer", "display_as_buffer">>
    BY ONLY <1>4
  <1>13. Complete(r, labels, rows)
    BY ONLY <1>6, <1>7, <1>8, <1>9, <1>10, <1>11, <1>12, TwoTold, Zenon
  <1>14. /\ PromptOf(r).labels = labels /\ PromptOf(r).rows = rows
         /\ PromptOf(r).ok = "sign_message_ok" /\ PromptOf(r).cxl = "sign_reject"
    BY ONLY <1>5
  <1> QED BY <1>13, <1>14, Zenon DEF Answers

(* The prompt of a message hash (apdu_sign.c). *)
LEMMA MessageHashRows ==
    ASSUME NEW r, r.kind = "Message Hash"
    PROVE  Answers(r, "sign_message_hash_ok", "sign_reject")
  <1>1. r.kind \in {"Message", "Message Hash"}
    BY Zenon
  <1>2. PromptOf(r) = MessagePrompt("Message Hash", r.data)
    BY <1>1 DEF PromptOf
  <1>3. PICK labels : labels = <<"Sign", "Message Hash: ">>
    OBVIOUS
  <1>4. PICK rows : rows = <<<<"copy_string", "Message Hash">>, <<"buffer_to_hex", "display_as_buffer">>>>
    OBVIOUS
  <1>5. PromptOf(r) = [labels |-> labels, rows |-> rows, ok |-> "sign_message_hash_ok", cxl |-> "sign_reject"]
    BY <1>2, <1>3, <1>4, Zenon DEF MessagePrompt, Prompt, Static, Row, Capacity, Owner, Destination
  <1>6. Titles(r) = {"Sign", "Message Hash: "}
    BY DEF Titles
  <1>7. Tells(r, <<"copy_string", "Message Hash">>, "Sign")
    BY DEF Tells, Generate, Pointed, Meaning, Text, Static, NULL, IsOutputs, DestinationCallback
  <1>8. Tells(r, <<"buffer_to_hex", "display_as_buffer">>, "Message Hash: ")
    BY DEF Tells, Generate, Pointed, Meaning, Text, Static, NULL, IsOutputs, DestinationCallback
  <1>9. Len(labels) = 2 /\ labels[1] = "Sign" /\ labels[2] = "Message Hash: "
    BY ONLY <1>3
  <1>10. Len(rows) = 2
    BY ONLY <1>4
  <1>11. rows[1] = <<"copy_string", "Message Hash">>
    BY ONLY <1>4
  <1>12. rows[2] = <<"buffer_to_hex", "display_as_buffer">>
    BY ONLY <1>4
  <1>13. Complete(r, labels, rows)
    BY ONLY <1>6, <1>7, <1>8, <1>9, <1>10, <1>11, <1>12, TwoTold, Zenon
  <1>14. /\ PromptOf(r).labels = labels /\ PromptOf(r).rows = rows
         /\ PromptOf(r).ok = "sign_message_hash_ok" /\ PromptOf(r).cxl = "sign_reject"
    BY ONLY <1>5
  <1> QED BY <1>13, <1>14, Zenon DEF Answers

(* The prompt of a transfer where contract data is allowed (apdu_sign.c). *)
LEMMA ContractTransferRows ==
    ASSUME NEW r, r.kind = "Transaction", N_data.contract_data_type = "ALLOW"
    PROVE  Answers(r, "sign_ok", "sign_reject")
  <1>1. r.kind \notin {"Public Key", "Extended Public Key", "Account"} /\ r.kind \notin {"Message", "Message Hash"}
    OBVIOUS
  <1>2. PromptOf(r) = TransactionPrompt("Transaction", r.data)
    BY <1>1, Zenon DEF PromptOf
  <1>3. PICK labels : labels = <<"Confirm", "Amount", "Fee", "Destination", "Contract">>
    OBVIOUS
  <1>4. PICK rows : rows = <<<<"copy_string", "Transaction">>, <<"frac_ckb_to_string", "amount.snd">>, <<"frac_ckb_to_string", "total_fee">>, <<DestinationCallback(r.data.outputs[1]), "outputs[0].destination">>, <<"contract_type_to_string", "contract_type">>>>
    OBVIOUS
  <1>5. PromptOf(r) = [labels |-> labels, rows |-> rows, ok |-> "sign_ok", cxl |-> "sign_reject"]
    BY <1>2, <1>3, <1>4, Zenon DEF TransactionPrompt, Prompt, Static, Row, Capacity, Owner, Destination
  <1>6. Titles(r) = {"Confirm", "Amount", "Fee", "Destination", "Contract"}
    BY DEF Titles
  <1>7. Tells(r, <<"copy_string", "Transaction">>, "Confirm")
    BY DEF Tells, Generate, Pointed, Meaning, Text, Static, NULL, IsOutputs, DestinationCallback
  <1>8. Tells(r, <<"frac_ckb_to_string", "amount.snd">>, "Amount")
    BY DEF Tells, Generate, Pointed, Meaning, Text, Static, NULL, IsOutputs, DestinationCallback
  <1>9. Tells(r, <<"frac_ckb_to_string", "total_fee">>, "Fee")
    BY DEF Tells, Generate, Pointed, Meaning, Text, Static, NULL, IsOutputs, DestinationCallback
  <1>10. Tells(r, <<DestinationCallback(r.data.outputs[1]), "outputs[0].destination">>, "Destination")
    BY DEF Tells, Generate, Pointed, Meaning, Text, Static, NULL, IsOutputs, DestinationCallback
  <1>11. Tells(r, <<"contract_type_to_string", "contract_type">>, "Contract")
    BY DEF Tells, Generate, Pointed, Meaning, Text, Static, NULL, IsOutputs, DestinationCallback
  <1>12. Len(labels) = 5 /\ labels[1] = "Confirm" /\ labels[2] = "Amount" /\ labels[3] = "Fee" /\ labels[4] = "Destination" /\ labels[5] = "Contract"
    BY ONLY <1>3
  <1>13. Len(rows) = 5
    BY ONLY <1>4
  <1>14. rows[1] = <<"copy_string", "Transaction">>
    BY ONLY <1>4
  <1>15. rows[2] = <<"frac_ckb_to_string", "amount.snd">>
    BY ONLY <1>4
  <1>16. rows[3] = <<"frac_ckb_to_string", "total_fee">>
    BY ONLY <1>4
  <1>17. rows[4] = <<DestinationCallback(r.data.outputs[1]), "outputs[0].destination">>
    BY ONLY <1>4
  <1>18. rows[5] = <<"contract_type_to_string", "contract_type">>
    BY ONLY <1>4
  <1>19. Complete(r, labels, rows)
    BY ONLY <1>6, <1>7, <1>8, <1>9, <1>10, <1>11, <1>12, <1>13, <1>14, <1>15, <1>16, <1>17, <1>18, FiveTold, Zenon
  <1>20. /\ PromptOf(r).labels = labels /\ PromptOf(r).rows = rows
         /\ PromptOf(r).ok = "sign_ok" /\ PromptOf(r).cxl = "sign_reject"
    BY ONLY <1>5
  <1> QED BY <1>19, <1>20, Zenon DEF Answers

(* The prompt of a transfer where it is not (apdu_sign.c). *)
LEMMA TransferRows ==
    ASSUME NEW r, r.kind = "Transaction", N_data.contract_data_type # "ALLOW"
    PROVE  Answers(r, "sign_ok", "sign_reject")
  <1>1. r.kind \notin {"Public Key", "Extended Public Key", "Account"} /\ r.kind \notin {"Message", "Message Hash"}
    OBVIOUS
  <1>2. PromptOf(r) = TransactionPrompt("Transaction", r.data)
    BY <1>1, Zenon DEF PromptOf
  <1>3. PICK labels : labels = <<"Confirm", "Amount", "Fee", "Destination">>
    OBVIOUS
  <1>4. PICK rows : rows = <<<<"copy_string", "Transaction">>, <<"frac_ckb_to_string", "amount.snd">>, <<"frac_ckb_to_string", "total_fee">>, <<DestinationCallback(r.data.outputs[1]), "outputs[0].destination">>>>
    OBVIOUS
  <1>5. PromptOf(r) = [labels |-> labels, rows |-> rows, ok |-> "sign_ok", cxl |-> "sign_reject"]
    BY <1>2, <1>3, <1>4, Zenon DEF TransactionPrompt, Prompt, Static, Row, Capacity, Owner, Destination
  <1>6. Titles(r) = {"Confirm", "Amount", "Fee", "Destination"}
    BY DEF Titles
  <1>7. Tells(r, <<"copy_string", "Transaction">>, "Confirm")
    BY DEF Tells, Generate, Pointed, Meaning, Text, Static, NULL, IsOutputs, DestinationCallback
  <1>8. Tells(r, <<"frac_ckb_to_string", "amount.snd">>, "Amount")
    BY DEF Tells, Generate, Pointed, Meaning, Text, Static, NULL, IsOutputs, DestinationCallback
  <1>9. Tells(r, <<"frac_ckb_to_string", "total_fee">>, "Fee")
    BY DEF Tells, Generate, Pointed, Meaning, Text, Static, NULL, IsOutputs, DestinationCallback
  <1>10. Tells(r, <<DestinationCallback(r.data.outputs[1]), "outputs[0].destination">>, "Destination")
    BY DEF Tells, Generate, Pointed, Meaning, Text, Static, NULL, IsOutputs, DestinationCallback
  <1>11. Len(labels) = 4 /\ labels[1] = "Confirm" /\ labels[2] = "Amount" /\ labels[3] = "Fee" /\ labels[4] = "Destination"
    BY ONLY <1>3
  <1>12. Len(rows) = 4
    BY ONLY <1>4
  <1>13. rows[1] = <<"copy_string", "Transaction">>
    BY ONLY <1>4
  <1>14. rows[2] = <<"frac_ckb_to_string", "amount.snd">>
    BY ONLY <1>4
  <1>15. rows[3] = <<"frac_ckb_to_string", "total_fee">>
    BY ONLY <1>4
  <1>16. rows[4] = <<DestinationCallback(r.data.outputs[1]), "outputs[0].destination">>
    BY ONLY <1>4
  <1>17. Complete(r, labels, rows)
    BY ONLY <1>6, <1>7, <1>8, <1>9, <1>10, <1>11, <1>12, <1>13, <1>14, <1>15, <1>16, FourTold, Zenon
  <1>18. /\ PromptOf(r).labels = labels /\ PromptOf(r).rows = rows
         /\ PromptOf(r).ok = "sign_ok" /\ PromptOf(r).cxl = "sign_reject"
    BY ONLY <1>5
  <1> QED BY <1>17, <1>18, Zenon DEF Answers

(* The prompt of a self-transfer (apdu_sign.c). *)
LEMMA SelfTransferRows ==
    ASSUME NEW r, r.kind = "Self-Transfer"
    PROVE  Answers(r, "sign_ok", "sign_reject")
  <1>1. r.kind \notin {"Public Key", "Extended Public Key", "Account"} /\ r.kind \notin {"Message", "Message Hash"}
    OBVIOUS
  <1>2. PromptOf(r) = TransactionPrompt("Self-Transfer", r.data)
    BY <1>1, Zenon DEF PromptOf
  <1>3. PICK labels : labels = <<"Confirm", "Amount", "Fee", "Destination">>
    OBVIOUS
  <1>4. PICK rows : rows = <<<<"copy_string", "Self-Transfer">>, <<"frac_ckb_to_string", "amount.snd">>, <<"frac_ckb_to_string", "total_fee">>, <<DestinationCallback(r.data.outputs[1]), "outputs[0].destination">>>>
    OBVIOUS
  <1>5. PromptOf(r) = [labels |-> labels, rows |-> rows, ok |-> "sign_ok", cxl |-> "sign_reject"]
    BY <1>2, <1>3, <1>4, Zenon DEF TransactionPrompt, Prompt, Static, Row, Capacity, Owner, Destination
  <1>6. Titles(r) = {"Confirm", "Amount", "Fee", "Destination"}
    BY DEF Titles
  <1>7. Tells(r, <<"copy_string", "Self-Transfer">>, "Confirm")
    BY DEF Tells, Generate, Pointed, Meaning, Text, Static, NULL, IsOutputs, DestinationCallback
  <1>8. Tells(r, <<"frac_ckb_to_string", "amount.snd">>, "Amount")
    BY DEF Tells, Generate, Pointed, Meaning, Text, Static, NULL, IsOutputs, DestinationCallback
  <1>9. Tells(r, <<"frac_ckb_to_string", "total_fee">>, "Fee")
    BY DEF Tells, Generate, Pointed, Meaning, Text, Static, NULL, IsOutputs, DestinationCallback
  <1>10. Tells(r, <<DestinationCallback(r.data.outputs[1]), "outputs[0].destination">>, "Destination")
    BY DEF Tells, Generate, Pointed, Meaning, Text, Static, NULL, IsOutputs, DestinationCallback
  <1>11. Len(labels) = 4 /\ labels[1] = "Confirm" /\ labels[2] = "Amount" /\ labels[3] = "Fee" /\ labels[4] = "Destination"
    BY ONLY <1>3
  <1>12. Len(rows) = 4
    BY ONLY <1>4
  <1>13. rows[1] = <<"copy_string", "Self-Transfer">>
    BY ONLY <1>4
  <1>14. rows[2] = <<"frac_ckb_to_string", "amount.snd">>
    BY ONLY <1>4
  <1>15. rows[3] = <<"frac_ckb_to_string", "total_fee">>
    BY ONLY <1>4
  <1>16. rows[4] = <<DestinationCallback(r.data.outputs[1]), "outputs[0].destination">>
    BY ONLY <1>4
  <1>17. Complete(r, labels, rows)
    BY ONLY <1>6, <1>7, <1>8, <1>9, <1>10, <1>11, <1>12, <1>13, <1>14, <1>15, <1>16, FourTold, Zenon
  <1>18. /\ PromptOf(r).labels = labels /\ PromptOf(r).rows = rows
         /\ PromptOf(r).ok = "sign_ok" /\ PromptOf(r).cxl = "sign_reject"
    BY ONLY <1>5
  <1> QED BY <1>17, <1>18, Zenon DEF Answers

(* The prompt of a transaction with inputs of other accounts (apdu_sign.c). *)
LEMMA MultiInputRows ==
    ASSUME NEW r, r.kind = "Multi-Input Transaction"
    PROVE  Answers(r, "sign_ok", "sign_reject")
  <1>1. r.kind \notin {"Public Key", "Extended Public Key", "Account"} /\ r.kind \notin {"Message", "Message Hash"}
    OBVIOUS
  <1>2. PromptOf(r) = TransactionPrompt("Multi-Input Transaction", r.data)
    BY <1>1, Zenon DEF PromptOf
  <1>3. PICK labels : labels = <<"Confirm", "Input", "Source", "Amount", "Fee", "Destination">>
    OBVIOUS
  <1>4. PICK rows : rows = <<<<"copy_string", "Multi-Input Transaction">>, <<"uint64_tuple_to_string", "input_count">>, <<"sighash_address", "current_lock_arg">>, <<"frac_ckb_tuple_to_string", "amount">>, <<"frac_ckb_to_string", "total_fee">>, <<DestinationCallback(r.data.outputs[1]), "outputs[0].destination">>>>
    OBVIOUS
  <1>5. PromptOf(r) = [labels |-> labels, rows |-> rows, ok |-> "sign_ok", cxl |-> "sign_reject"]
    BY <1>2, <1>3, <1>4, Zenon DEF TransactionPrompt, Prompt, Static, Row, Capacity, Owner, Destination
  <1>6. Titles(r) = {"Confirm", "Input", "Source", "Amount", "Fee", "Destination"}
    BY DEF Titles
  <1>7. Tells(r, <<"copy_string", "Multi-Input Transaction">>, "Confirm")
    BY DEF Tells, Generate, Pointed, Meaning, Text, Static, NULL, IsOutputs, DestinationCallback
  <1>8. Tells(r, <<"uint64_tuple_to_string", "input_count">>, "Input")
    BY DEF Tells, Generate, Pointed, Meaning, Text, Static, NULL, IsOutputs, DestinationCallback
  <1>9. Tells(r, <<"sighash_address", "current_lock_arg">>, "Source")
    BY DEF Tells, Generate, Pointed, Meaning, Text, Static, NULL, IsOutputs, DestinationCallback
  <1>10. Tells(r, <<"frac_ckb_tuple_to_string", "amount">>, "Amount")
    BY DEF Tells, Generate, Pointed, Meaning, Text, Static, NULL, IsOutputs, DestinationCallback
  <1>11. Tells(r, <<"frac_ckb_to_string", "total_fee">>, "Fee")
    BY DEF Tells, Generate, Pointed, Meaning, Text, Static, NULL, IsOutputs, DestinationCallback
  <1>12. Tells(r, <<DestinationCallback(r.data.outputs[1]), "outputs[0].destination">>, "Destination")
    BY DEF Tells, Generate, Pointed, Meaning, Text, Static, NULL, IsOutputs, DestinationCallback
  <1>13. Len(labels) = 6 /\ labels[1] = "Confirm" /\ labels[2] = "Input" /\ labels[3] = "Source" /\ labels[4] = "Amount" /\ labels[5] = "Fee" /\ labels[6] = "Destination"
    BY ONLY <1>3
  <1>14. Len(rows) = 6
    BY ONLY <1>4
  <1>15. rows[1] = <<"copy_string", "Multi-Input Transaction">>
    BY ONLY <1>4
  <1>16. rows[2] = <<"uint64_tuple_to_string", "input_count">>
    BY ONLY <1>4
  <1>17. rows[3] = <<"sighash_address", "current_lock_arg">>
    BY ONLY <1>4
  <1>18. rows[4] = <<"frac_ckb_tuple_to_string", "amount">>
    BY ONLY <1>4
  <1>19. rows[5] = <<"frac_ckb_to_string", "total_fee">>
    BY ONLY <1>4
  <1>20. rows[6] = <<DestinationCallback(r.data.outputs[1]), "outputs[0].destination">>
    BY ONLY <1>4
  <1>21. Complete(r, labels, rows)
    BY ONLY <1>6, <1>7, <1>8, <1>9, <1>10, <1>11, <1>12, <1>13, <1>14, <1>15, <1>16, <1>17, <1>18, <1>19, <1>20, SixTold, Zenon
  <1>22. /\ PromptOf(r).labels = labels /\ PromptOf(r).rows = rows
         /\ PromptOf(r).ok = "sign_ok" /\ PromptOf(r).cxl = "sign_reject"
    BY ONLY <1>5
  <1> QED BY <1>21, <1>22, Zenon DEF Answers

(* The prompt of a DAO deposit (apdu_sign.c). *)
LEMMA DepositRows ==
    ASSUME NEW r, r.kind = "Deposit"
    PROVE  Answers(r, "sign_ok", "sign_reject")
  <1>1. r.kind \notin {"Public Key", "Extended Public Key", "Account"} /\ r.kind \notin {"Message", "Message Hash"}
    OBVIOUS
  <1>2. PromptOf(r) = TransactionPrompt("Deposit", r.data)
    BY <1>1, Zenon DEF PromptOf
  <1>3. PICK labels : labels = <<"Confirm DAO", "Deposit Amount", "Fee", "Cell Owner">>
    OBVIOUS
  <1>4. PICK rows : rows = <<<<"copy_string", "Deposit">>, <<"frac_ckb_to_string", "dao_amount">>, <<"frac_ckb_to_string", "total_fee">>, <<"sighash_address", "dao_cell_owner">>>>
    OBVIOUS
  <1>5. PromptOf(r) = [labels |-> labels, rows |-> rows, ok |-> "sign_ok", cxl |-> "sign_reject"]
    BY <1>2, <1>3, <1>4, Zenon DEF TransactionPrompt, Prompt, Static, Row, Capacity, Owner, Destination
  <1>6. Titles(r) = {"Confirm DAO", "Deposit Amount", "Fee", "Cell Owner"}
    BY DEF Titles
  <1>7. Tells(r, <<"copy_string", "Deposit">>, "Confirm DAO")
    BY DEF Tells, Generate, Pointed, Meaning, Text, Static, NULL, IsOutputs, DestinationCallback
  <1>8. Tells(r, <<"frac_ckb_to_string", "dao_amount">>, "Deposit Amount")
    BY DEF Tells, Generate, Pointed, Meaning, Text, Static, NULL, IsOutputs, DestinationCallback
  <1>9. Tells(r, <<"frac_ckb_to_string", "total_fee">>, "Fee")
    BY DEF Tells, Generate, Pointed, Meaning, Text, Static, NULL, IsOutputs, DestinationCallback
  <1>10. Tells(r, <<"sighash_address", "dao_cell_owner">>, "Cell Owner")
    BY DEF Tells, Generate, Pointed, Meaning, Text, Static, NULL, IsOutputs, DestinationCallback
  <1>11. Len(labels) = 4 /\ labels[1] = "Confirm DAO" /\ labels[2] = "Deposit Amount" /\ labels[3] = "Fee" /\ labels[4] = "Cell Owner"
    BY ONLY <1>3
  <1>12. Len(rows) = 4
    BY ONLY <1>4
  <1>13. rows[1] = <<"copy_string", "Deposit">>
    BY ONLY <1>4
  <1>14. rows[2] = <<"frac_ckb_to_string", "dao_amount">>
    BY ONLY <1>4
  <1>15. rows[3] = <<"frac_ckb_to_string", "total_fee">>
    BY ONLY <1>4
  <1>16. rows[4] = <<"sighash_address", "dao_cell_owner">>
    BY ONLY <1>4
  <1>17. Complete(r, labels, rows)
    BY ONLY <1>6, <1>7, <1>8, <1>9, <1>10, <1>11, <1>12, <1>13, <1>14, <1>15, <1>16, FourTold, Zenon
  <1>18. /\ PromptOf(r).labels = labels /\ PromptOf(r).rows = rows
         /\ PromptOf(r).ok = "sign_ok" /\ PromptOf(r).cxl = "sign_reject"
    BY ONLY <1>5
  <1> QED BY <1>17, <1>18, Zenon DEF Answers

(* The prompt of a DAO prepare (apdu_sign.c). *)
LEMMA PrepareRows ==
    ASSUME NEW r, r.kind = "Prepare"
    PROVE  Answers(r, "sign_ok", "sign_reject")
  <1>1. r.kind \notin {"Public Key", "Extended Public Key", "Account"} /\ r.kind \notin {"Message", "Message Hash"}
    OBVIOUS
  <1>2. PromptOf(r) = TransactionPrompt("Prepare", r.data)
    BY <1>1, Zenon DEF PromptOf
  <1>3. PICK labels : labels = <<"Confirm DAO", "Deposit Amount", "Fee", "Cell Owner">>
    OBVIOUS
  <1>4. PICK rows : rows = <<<<"copy_string", "Prepare">>, <<"frac_ckb_to_string", "dao_amount">>, <<"frac_ckb_to_string", "total_fee">>, <<"sighash_address", "dao_cell_owner">>>>
    OBVIOUS
  <1>5. PromptOf(r) = [labels |-> labels, rows |-> rows, ok |-> "sign_ok", cxl |-> "sign_reject"]
    BY <1>2, <1>3, <1>4, Zenon DEF TransactionPrompt, Prompt, Static, Row, Capacity, Owner, Destination
  <1>6. Titles(r) = {"Confirm DAO", "Deposit Amount", "Fee", "Cell Owner"}
    BY DEF Titles
  <1>7. Tells(r, <<"copy_string", "Prepare">>, "Confirm DAO")
    BY DEF Tells, Generate, Pointed, Meaning, Text, Static, NULL, IsOutputs, DestinationCallback
  <1>8. Tells(r, <<"frac_ckb_to_string", "dao_amount">>, "Deposit Amount")
    BY DEF Tells, Generate, Pointed, Meaning, Text, Static, NULL, IsOutputs, DestinationCallback
  <1>9. Tells(r, <<"frac_ckb_to_string", "total_fee">>, "Fee")
    BY DEF Tells, Generate, Pointed, Meaning, Text, Static, NULL, IsOutputs, DestinationCallback
  <1>10. Tells(r, <<"sighash_address", "dao_cell_owner">>, "Cell Owner")
    BY DEF Tells, Generate, Pointed, Meaning, Text, Static, NULL, IsOutputs, DestinationCallback
  <1>11. Len(labels) = 4 /\ labels[1] = "Confirm DAO" /\ labels[2] = "Deposit Amount" /\ labels[3] = "Fee" /\ labels[4] = "Cell Owner"
    BY ONLY <1>3
  <1>12. Len(rows) = 4
    BY ONLY <1>4
  <1>13. rows[1] = <<"copy_string", "Prepare">>
    BY ONLY <1>4
  <1>14. rows[2] = <<"frac_ckb_to_string", "dao_amount">>
    BY ONLY <1>4
  <1>15. rows[3] = <<"frac_ckb_to_string", "total_fee">>
    BY ONLY <1>4
  <1>16. rows[4] = <<"sighash_address", "dao_cell_owner">>
    BY ONLY <1>4
  <1>17. Complete(r, labels, rows)
    BY ONLY <1>6, <1>7, <1>8, <1>9, <1>10, <1>11, <1>12, <1>13, <1>14, <1>15, <1>16, FourTold, Zenon
  <1>18. /\ PromptOf(r).labels = labels /\ PromptOf(r).rows = rows
         /\ PromptOf(r).ok = "sign_ok" /\ PromptOf(r).cxl = "sign_reject"
    BY ONLY <1>5
  <1> QED BY <1>17, <1>18, Zenon DEF Answers

(* The prompt of a DAO withdrawal (apdu_sign.c). *)
LEMMA WithdrawalRows ==
    ASSUME NEW r, r.kind = "Withdrawal"
    PROVE  Answers(r, "sign_ok", "sign_reject")
  <1>1. r.kind \notin {"Public Key", "Extended Public Key", "Account"} /\ r.kind \notin {"Message", "Message Hash"}
    OBVIOUS
  <1>2. PromptOf(r) = TransactionPrompt("Withdrawal", r.data)
    BY <1>1, Zenon DEF PromptOf
  <1>3. PICK labels : labels = <<"Confirm DAO", "Deposit Amount", "Compensation", "Cell Owner">>
    OBVIOUS
  <1>4. PICK rows : rows = <<<<"copy_string", "Withdrawal">>, <<"frac_ckb_to_string", "dao_amount">>, <<"frac_ckb_to_string", "total_fee">>, <<"sighash_address", "dao_cell_owner">>>>
    OBVIOUS
  <1>5. PromptOf(r) = [labels |-> labels, rows |-> rows, ok |-> "sign_ok", cxl |-> "sign_reject"]
    BY <1>2, <1>3, <1>4, Zenon DEF TransactionPrompt, Prompt, Static, Row, Capacity, Owner, Destination
  <1>6. Titles(r) = {"Confirm DAO", "Deposit Amount", "Compensation", "Cell Owner"}
    BY DEF Titles
  <1>7. Tells(r, <<"copy_string", "Withdrawal">>, "Confirm DAO")
    BY DEF Tells, Generate, Pointed, Meaning, Text, Static, NULL, IsOutputs, DestinationCallback
  <1>8. Tells(r, <<"frac_ckb_to_string", "dao_amount">>, "Deposit Amount")
    BY DEF Tells, Generate, Pointed, Meaning, Text, Static, NULL, IsOutputs, DestinationCallback
  <1>9. Tells(r, <<"frac_ckb_to_string", "total_fee">>, "Compensation")
    BY DEF Tells, Generate, Pointed, Meaning, Text, Static, NULL, IsOutputs, DestinationCallback
  <1>10. Tells(r, <<"sighash_address", "dao_cell_owner">>, "Cell Owner")
    BY DEF Tells, Generate, Pointed, Meaning, Text, Static, NULL, IsOutputs, DestinationCallback
  <1>11. Len(labels) = 4 /\ labels[1] = "Confirm DAO" /\ labels[2] = "Deposit Amount" /\ labels[3] = "Compensation" /\ labels[4] = "Cell Owner"
    BY ONLY <1>3
  <1>12. Len(rows) = 4
    BY ONLY <1>4
  <1>13. rows[1] = <<"copy_string", "Withdrawal">>
    BY ONLY <1>4
  <1>14. rows[2] = <<"frac_ckb_to_string", "dao_amount">>
    BY ONLY <1>4
  <1>15. rows[3] = <<"frac_ckb_to_string", "total_fee">>
    BY ONLY <1>4
  <1>16. rows[4] = <<"sighash_address", "dao_cell_owner">>
    BY ONLY <1>4
  <1>17. Complete(r, labels, rows)
    BY ONLY <1>6, <1>7, <1>8, <1>9, <1>10, <1>11, <1>12, <1>13, <1>14, <1>15, <1>16, FourTold, Zenon
  <1>18. /\ PromptOf(r).labels = labels /\ PromptOf(r).rows = rows
         /\ PromptOf(r).ok = "sign_ok" /\ PromptOf(r).cxl = "sign_reject"
    BY ONLY <1>5
  <1> QED BY <1>17, <1>18, Zenon DEF Answers

(* The callback of the answer yes is that of the request.                  *)
OkOf(r) ==
    CASE r.kind = "Public Key" -> "pubkey_ok"
      [] r.kind = "Extended Public Key" -> "ext_pubkey_ok"
      [] r.kind = "Account" -> "account_import_ok"
      [] r.kind = "Message" -> "sign_message_ok"
      [] r.kind = "Message Hash" -> "sign_message_hash_ok"
      [] OTHER -> "sign_ok"
Refusals == {"delay_reject", "sign_reject"}

(* Every handler but the review of outputs hands over a complete prompt and *)
(* its own two callbacks (apdu_pubkey.c, apdu_account_import.c, apdu_sign.c). *)
LEMMA HandlerPrompts ==
    ASSUME NEW r, r.kind \in Kinds, ~IsOutputs(r)
    PROVE  /\ Complete(r, PromptOf(r).labels, PromptOf(r).rows)
           /\ PromptOf(r).ok = OkOf(r) /\ PromptOf(r).cxl \in Refusals
  <1>1. CASE r.kind = "Public Key"
    <2>1. OkOf(r) = "pubkey_ok"
      BY <1>1 DEF OkOf
    <2> QED BY <1>1, <2>1, PublicKeyRows DEF Answers, Refusals
  <1>2. CASE r.kind = "Extended Public Key"
    <2>1. OkOf(r) = "ext_pubkey_ok"
      BY <1>2 DEF OkOf
    <2> QED BY <1>2, <2>1, ExtendedKeyRows DEF Answers, Refusals
  <1>3. CASE r.kind = "Account"
    <2>1. OkOf(r) = "account_import_ok"
      BY <1>3 DEF OkOf
    <2> QED BY <1>3, <2>1, AccountRows DEF Answers, Refusals
  <1>4. CASE r.kind = "Message"
    <2>1. OkOf(r) = "sign_message_ok"
      BY <1>4 DEF OkOf
    <2> QED BY <1>4, <2>1, MessageRows DEF Answers, Refusals
  <1>5. CASE r.kind = "Message Hash"
    <2>1. OkOf(r) = "sign_message_hash_ok"
      BY <1>5 DEF OkOf
    <2> QED BY <1>5, <2>1, MessageHashRows DEF Answers, Refusals
  <1>6. CASE r.kind \in {"Transaction", "Self-Transfer", "Multi-Input Transaction", "Deposit",
                         "Prepare", "Withdrawal"}
    <2>1. OkOf(r) = "sign_ok"
      BY <1>6 DEF OkOf
    <2> QED BY <1>6, <2>1, ContractTransferRows, TransferRows, SelfTransferRows, MultiInputRows,
               DepositRows, PrepareRows, WithdrawalRows DEF Answers, Refusals
  <1> QED BY <1>1, <1>2, <1>3, <1>4, <1>5, <1>6 DEF Kinds, IsOutputs

-----------------------------------------------------------------------------
(* The rows of a request, by their number from 0.                          *)

TitleOf(r, n) ==
    IF ~IsOutputs(r) THEN <<PromptOf(r).labels[n + 1]>>
    ELSE IF n = 0 THEN <<"Confirm">> ELSE IF n = 1 THEN <<"Amount">> ELSE IF n = 2 THEN <<"Fee">>
    ELSE OutputTitle(n - 2, Len(r.data.outputs))
TextOf(r, n) ==
    IF ~IsOutputs(r) THEN Generate(PromptOf(r).rows[n + 1][1], r.data, PromptOf(r).rows[n + 1][2])
    ELSE IF n = 0 THEN Static("Transaction")
    ELSE IF n = 1 THEN Text("frac_ckb_to_string", r.data.amount.snd)
    ELSE IF n = 2 THEN Text("frac_ckb_to_string", r.data.total_fee)
    ELSE OutputRow(r.data.outputs[n - 2])
Rows(r) == 0 .. RowCount(r) - 1

(* A request has a row at least and a screen for each of its rows          *)
(* (ui_common.c:61, ui_bagl.c:203).                                        *)
LEMMA RowsFit ==
    ASSUME NEW r \in Requests
    PROVE  RowCount(r) \in 1 .. MAX_SCREEN_COUNT
  <1>1. CASE IsOutputs(r)
    <2>1. Len(r.data.outputs) \in 0 .. MAX_SCREEN_COUNT - 3
      BY <1>1, RequestsAssumption, Zenon DEF IsOutputs
    <2>2. RowCount(r) = 3 + Len(r.data.outputs)
      BY <1>1, Zenon DEF RowCount
    <2> QED BY <2>1, <2>2, ScreensAssumption
  <1>2. CASE ~IsOutputs(r)
    <2>1. PICK labels : labels = PromptOf(r).labels
      OBVIOUS
    <2>2. PICK rows : rows = PromptOf(r).rows
      OBVIOUS
    <2>3. Complete(r, labels, rows)
      BY <1>2, <2>1, <2>2, RequestsAssumption, HandlerPrompts, Zenon
    <2>4. Len(labels) \in 1 .. 6
      BY <2>3, Zenon DEF Complete
    <2>5. RowCount(r) = Len(labels)
      BY <1>2, <2>1, Zenon DEF RowCount
    <2> QED BY <2>4, <2>5, ScreensAssumption
  <1> QED BY <1>1, <1>2

(* A row that is written is not the sign of a thrown error.                *)
LEMMA RowsWritten ==
    ASSUME NEW r, NEW n
    PROVE  TextOf(r, n) # Thrown
  BY DEF TextOf, Thrown, Generate, Text, Static, OutputRow

(* What the user is told are the rows, no less and no more.                *)
LEMMA ToldAreRows ==
    ASSUME NEW r \in Requests
    PROVE  /\ \A n \in Rows(r) : <<TitleOf(r, n), TextOf(r, n)>> \in Told(r)
           /\ \A row \in Told(r) : \E n \in Rows(r) : row[1] = TitleOf(r, n)
  <1>0. r.kind \in Kinds
    BY RequestsAssumption
  <1>1. CASE IsOutputs(r)
    <2>0. /\ DOMAIN r.data.outputs = 1 .. Len(r.data.outputs)
          /\ Len(r.data.outputs) \in 0 .. MAX_SCREEN_COUNT - 3
      BY <1>1, RequestsAssumption, Zenon DEF IsOutputs
    <2>1. DOMAIN r.data.outputs = 1 .. Len(r.data.outputs) /\ Len(r.data.outputs) \in Nat
      BY <2>0, ScreensAssumption
    <2>2. Rows(r) = 0 .. Len(r.data.outputs) + 2
      BY <1>1, <2>1 DEF Rows, RowCount
    <2>3. Titles(r) = {"Confirm", "Amount", "Fee"}
      BY <1>1 DEF IsOutputs, Titles
    <2>4. /\ Meaning(r, "Confirm") = Static("Transaction")
          /\ Meaning(r, "Amount") = Text("frac_ckb_to_string", r.data.amount.snd)
          /\ Meaning(r, "Fee") = Text("frac_ckb_to_string", r.data.total_fee)
      BY <1>1 DEF Meaning, IsOutputs
    <2>5. /\ <<<<"Confirm">>, Static("Transaction")>> \in Told(r)
          /\ <<<<"Amount">>, Text("frac_ckb_to_string", r.data.amount.snd)>> \in Told(r)
          /\ <<<<"Fee">>, Text("frac_ckb_to_string", r.data.total_fee)>> \in Told(r)
      BY <2>3, <2>4, Zenon DEF Told
    <2>6. \A i \in 1 .. Len(r.data.outputs) :
             <<OutputTitle(i, Len(r.data.outputs)), OutputRow(r.data.outputs[i])>> \in Told(r)
      BY <1>1, <2>1, Zenon DEF Told
    <2>7. ASSUME NEW n \in Rows(r)
          PROVE  <<TitleOf(r, n), TextOf(r, n)>> \in Told(r)
      <3>1. CASE n = 0
        BY <1>1, <2>5, <3>1, Zenon DEF TitleOf, TextOf
      <3>2. CASE n = 1
        <4>1. TitleOf(r, n) = <<"Amount">> /\ TextOf(r, n) = Text("frac_ckb_to_string", r.data.amount.snd)
          BY <1>1, <3>2 DEF TitleOf, TextOf
        <4> QED BY <4>1, <2>5, Zenon
      <3>3. CASE n = 2
        <4>1. TitleOf(r, n) = <<"Fee">> /\ TextOf(r, n) = Text("frac_ckb_to_string", r.data.total_fee)
          BY <1>1, <3>3 DEF TitleOf, TextOf
        <4> QED BY <4>1, <2>5, Zenon
      <3>4. CASE n \notin {0, 1, 2}
        <4>1. n - 2 \in 1 .. Len(r.data.outputs)
          BY <2>1, <2>2, <3>4
        <4>2. /\ TitleOf(r, n) = OutputTitle(n - 2, Len(r.data.outputs))
              /\ TextOf(r, n) = OutputRow(r.data.outputs[n - 2])
          BY <1>1, <3>4, Zenon DEF TitleOf, TextOf
        <4> QED BY <4>1, <4>2, <2>6, Zenon
      <3> QED BY <3>1, <3>2, <3>3, <3>4
    <2>8. ASSUME NEW row \in Told(r)
          PROVE  \E n \in Rows(r) : row[1] = TitleOf(r, n)
      <3>1. CASE \E title \in Titles(r) : row = <<<<title>>, Meaning(r, title)>>
        <4>1. PICK title \in Titles(r) : row = <<<<title>>, Meaning(r, title)>>
          BY <3>1
        <4>2. row[1] = <<title>>
          BY <4>1
        <4>3. 0 \in Rows(r) /\ 1 \in Rows(r) /\ 2 \in Rows(r)
          BY <2>1, <2>2
        <4>4. TitleOf(r, 0) = <<"Confirm">> /\ TitleOf(r, 1) = <<"Amount">> /\ TitleOf(r, 2) = <<"Fee">>
          BY <1>1 DEF TitleOf
        <4> QED BY <2>3, <4>2, <4>3, <4>4, Zenon
      <3>2. CASE \E i \in DOMAIN r.data.outputs :
                    row = <<OutputTitle(i, Len(r.data.outputs)), OutputRow(r.data.outputs[i])>>
        <4>1. PICK i \in 1 .. Len(r.data.outputs) :
                 row = <<OutputTitle(i, Len(r.data.outputs)), OutputRow(r.data.outputs[i])>>
          BY <2>1, <3>2, Zenon
        <4>2. row[1] = OutputTitle(i, Len(r.data.outputs))
          BY <4>1
        <4>3. i + 2 \in Rows(r) /\ i + 2 \notin {0, 1, 2} /\ (i + 2) - 2 = i
          BY <2>1, <2>2
        <4>4. TitleOf(r, i + 2) = OutputTitle(i, Len(r.data.outputs))
          BY <1>1, <4>3, Zenon DEF TitleOf
        <4> QED BY <4>2, <4>3, <4>4, Zenon
      <3> QED BY <1>1, <3>1, <3>2, Zenon DEF Told
    <2> QED BY <2>7, <2>8
  <1>2. CASE ~IsOutputs(r)
    <2>1. PICK labels : labels = PromptOf(r).labels
      OBVIOUS
    <2>2. PICK rows : rows = PromptOf(r).rows
      OBVIOUS
    <2>3. Complete(r, labels, rows)
      BY <1>0, <1>2, <2>1, <2>2, HandlerPrompts, Zenon
    <2>4. Rows(r) = 0 .. Len(labels) - 1 /\ Len(labels) \in Nat
      BY <1>2, <2>1, <2>3 DEF Rows, RowCount, Complete
    <2>5. Told(r) = {<<<<title>>, Meaning(r, title)>> : title \in Titles(r)}
      BY <1>2 DEF Told
    <2>6. ASSUME NEW n \in Rows(r)
          PROVE  <<TitleOf(r, n), TextOf(r, n)>> \in Told(r)
      <3>1. n + 1 \in 1 .. Len(labels)
        BY <2>4
      <3>2. labels[n + 1] \in Titles(r) /\ Generate(rows[n + 1][1], r.data, rows[n + 1][2]) = Meaning(r, labels[n + 1])
        BY <2>3, <3>1, Zenon DEF Complete, Tells
      <3>3. TitleOf(r, n) = <<labels[n + 1]>> /\ TextOf(r, n) = Meaning(r, labels[n + 1])
        BY <1>2, <2>1, <2>2, <3>2, Zenon DEF TitleOf, TextOf
      <3> QED BY <2>5, <3>2, <3>3, Zenon
    <2>7. ASSUME NEW row \in Told(r)
          PROVE  \E n \in Rows(r) : row[1] = TitleOf(r, n)
      <3>1. PICK title \in Titles(r) : row = <<<<title>>, Meaning(r, title)>>
        BY <2>5, Zenon
      <3>2. row[1] = <<title>>
        BY <3>1
      <3>3. PICK m \in 1 .. Len(labels) : labels[m] = title
        BY <2>3, Zenon DEF Complete
      <3>4. m - 1 \in Rows(r) /\ (m - 1) + 1 = m
        BY <2>4
      <3>5. TitleOf(r, m - 1) = <<title>>
        BY <1>2, <2>1, <3>3, <3>4, Zenon DEF TitleOf
      <3> QED BY <3>2, <3>4, <3>5, Zenon
    <2> QED BY <2>6, <2>7
  <1> QED BY <1>1, <1>2

-----------------------------------------------------------------------------
(* global.ui with the rows of a request registered.                        *)

UiFields == {"callbacks", "callback_data", "prompts", "switch_screen", "offset", "ok_callback",
             "cxl_callback", "active_prompt", "active_value", "tag", "value"}

ShowsRows(g, r) ==
    IF IsOutputs(r)
    THEN g.switch_screen = "multi_output_prompts_cb"
    ELSE /\ g.switch_screen = "switch_screen"
         /\ g.prompts = PromptOf(r).labels
         /\ \A n \in Rows(r) : /\ g.callbacks[n] = PromptOf(r).rows[n + 1][1]
                               /\ g.callback_data[n] = PromptOf(r).rows[n + 1][2]

(* switch_screen and multi_output_prompts_cb write the row that is asked for *)
(* into the one buffer and change nothing else (ui_common.c:52-63).        *)
LEMMA RowShown ==
    ASSUME NEW r \in Requests, NEW g, ShowsRows(g, r), NEW n \in Rows(r)
    PROVE  Show(g, r.data, n) = Active(g, TitleOf(r, n), TextOf(r, n))
  <1>1. n \in Screens /\ n \in 0 .. RowCount(r) - 1 /\ RowCount(r) \in Nat
    BY RowsFit, ScreensAssumption DEF Rows, Screens
  <1>2. CASE IsOutputs(r)
    <2>1. g.switch_screen = "multi_output_prompts_cb"
      BY <1>2, Zenon DEF ShowsRows
    <2>2. Show(g, r.data, n) = multi_output_prompts_cb(g, r.data, n)
      BY <2>1 DEF Show
    <2>3. CASE n = 0
      BY <1>2, <2>2, <2>3 DEF multi_output_prompts_cb, TitleOf, TextOf, Static, Text
    <2>4. CASE n = 1
      BY <1>2, <2>2, <2>4 DEF multi_output_prompts_cb, TitleOf, TextOf
    <2>5. CASE n = 2
      BY <1>2, <2>2, <2>5 DEF multi_output_prompts_cb, TitleOf, TextOf
    <2>6. CASE n \notin {0, 1, 2}
      <3>1. n # 0 /\ n # 1 /\ n # 2
        BY <2>6
      <3> QED BY <1>2, <2>2, <3>1 DEF multi_output_prompts_cb, TitleOf, TextOf
    <2> QED BY <2>3, <2>4, <2>5, <2>6
  <1>3. CASE ~IsOutputs(r)
    <2>1. PICK labels : labels = PromptOf(r).labels
      OBVIOUS
    <2>2. PICK rows : rows = PromptOf(r).rows
      OBVIOUS
    <2>3. Complete(r, labels, rows)
      BY <1>3, <2>1, <2>2, RequestsAssumption, HandlerPrompts, Zenon
    <2>4. RowCount(r) = Len(labels)
      BY <1>3, <2>1, Zenon DEF RowCount
    <2>5. n + 1 \in 1 .. Len(labels) /\ ~(n >= Len(labels))
      BY <1>1, <2>4
    <2>6. rows[n + 1][1] # NULL
      BY <2>3, <2>5, Zenon DEF Complete, Tells
    <2>7. /\ g.switch_screen = "switch_screen" /\ g.prompts = labels
          /\ g.callbacks[n] = rows[n + 1][1] /\ g.callback_data[n] = rows[n + 1][2]
      BY <1>3, <2>1, <2>2, Zenon DEF ShowsRows
    <2>8. Show(g, r.data, n) = switch_screen(g, r.data, n)
      BY <2>7, Zenon DEF Show
    <2>9. switch_screen(g, r.data, n)
            = Active(g, <<g.prompts[n + 1]>>, Generate(g.callbacks[n], r.data, g.callback_data[n]))
      BY <1>1, <2>5, <2>6, <2>7, Zenon DEF switch_screen
    <2>10. /\ TitleOf(r, n) = <<labels[n + 1]>>
           /\ TextOf(r, n) = Generate(rows[n + 1][1], r.data, rows[n + 1][2])
      BY <1>3, <2>1, <2>2, Zenon DEF TitleOf, TextOf
    <2> QED BY <2>7, <2>8, <2>9, <2>10, Zenon
  <1> QED BY <1>2, <1>3

(* The fields of global.ui after a row is written.                         *)
LEMMA ActiveFields ==
    ASSUME NEW g, DOMAIN g = UiFields, NEW title, NEW text
    PROVE  /\ DOMAIN Active(g, title, text) = UiFields
           /\ Active(g, title, text).active_prompt = title /\ Active(g, title, text).active_value = text
           /\ \A f \in UiFields \ {"active_prompt", "active_value"} : Active(g, title, text)[f] = g[f]
  BY DEF Active, UiFields

(* Writing a row disturbs no row that is still to be shown.                *)
LEMMA ActiveShows ==
    ASSUME NEW g, DOMAIN g = UiFields, NEW title, NEW text, NEW r, ShowsRows(g, r)
    PROVE  ShowsRows(Active(g, title, text), r)
  <1>1. PICK h : h = Active(g, title, text)
    OBVIOUS
  <1>2. \A f \in UiFields \ {"active_prompt", "active_value"} : h[f] = g[f]
    <2>1. \A f \in UiFields \ {"active_prompt", "active_value"} : Active(g, title, text)[f] = g[f]
      BY ActiveFields
    <2> QED BY <1>1, <2>1, Zenon
  <1>3. /\ h.switch_screen = g.switch_screen /\ h.prompts = g.prompts
        /\ h.callbacks = g.callbacks /\ h.callback_data = g.callback_data
    BY <1>2 DEF UiFields
  <1>4. ShowsRows(h, r)
    BY <1>3, Zenon DEF ShowsRows
  <1> QED BY <1>1, <1>4

(* None of the rows of a request throws, wherever it starts and ends       *)
(* (ui_prompt_debug).                                                      *)
LEMMA AllWritten ==
    ASSUME NEW r \in Requests, NEW g, DOMAIN g = UiFields, ShowsRows(g, r), NEW rows \in SUBSET Rows(r)
    PROVE  /\ Written(g, r.data, rows) = rows
           /\ \A n \in rows : ~Threw(Show(g, r.data, n))
  <1>1. ASSUME NEW n \in rows
        PROVE  ~Threw(Show(g, r.data, n))
    <2>1. n \in Rows(r)
      OBVIOUS
    <2>2. Show(g, r.data, n) = Active(g, TitleOf(r, n), TextOf(r, n))
      BY <2>1, RowShown, Zenon
    <2>3. Active(g, TitleOf(r, n), TextOf(r, n)).active_value = TextOf(r, n)
      BY ActiveFields
    <2>4. Show(g, r.data, n).active_value = TextOf(r, n)
      BY <2>2, <2>3, Zenon
    <2> QED BY <2>4, RowsWritten, Zenon DEF Threw
  <1> QED BY <1>1, Zenon DEF Written

(* What register_ui_callbacks leaves in place, the rows shown depend on.   *)
LEMMA SameRows ==
    ASSUME NEW r, NEW g, ShowsRows(g, r), NEW h,
           h.switch_screen = g.switch_screen, h.prompts = g.prompts,
           h.callbacks = g.callbacks, h.callback_data = g.callback_data
    PROVE  ShowsRows(h, r)
  BY Zenon DEF ShowsRows

(* A handler registers each of its rows with what it is to write           *)
(* (register_ui_callback).                                                 *)
LEMMA RowsRegistered ==
    ASSUME NEW r \in Requests, ~IsOutputs(r), NEW g, DOMAIN g = UiFields, NEW h,
           h = [register_ui_callbacks(g, PromptOf(r).rows) EXCEPT
                  !.prompts = PromptOf(r).labels, !.switch_screen = "switch_screen"]
    PROVE  DOMAIN h = UiFields /\ ShowsRows(h, r)
  <1>1. PICK labels : labels = PromptOf(r).labels
    OBVIOUS
  <1>2. PICK rows : rows = PromptOf(r).rows
    OBVIOUS
  <1>3. Complete(r, labels, rows)
    BY <1>1, <1>2, RequestsAssumption, HandlerPrompts, Zenon
  <1>4. RowCount(r) = Len(labels) /\ Len(rows) = Len(labels)
    BY <1>1, <1>3, Zenon DEF RowCount, Complete
  <1>5. PICK callbacks : callbacks = [w \in Screens |-> IF Registered(w, rows) THEN rows[w + 1][1]
                                                        ELSE g.callbacks[w]]
    OBVIOUS
  <1>6. PICK callback_data : callback_data = [w \in Screens |-> IF Registered(w, rows) THEN rows[w + 1][2]
                                                                ELSE g.callback_data[w]]
    OBVIOUS
  <1>7. register_ui_callbacks(g, rows) = [g EXCEPT !.callbacks = callbacks, !.callback_data = callback_data]
    BY <1>5, <1>6, Zenon DEF register_ui_callbacks
  <1>8. h = [[g EXCEPT !.callbacks = callbacks, !.callback_data = callback_data] EXCEPT
                !.prompts = labels, !.switch_screen = "switch_screen"]
    BY <1>1, <1>2, <1>7, Zenon
  <1>9. /\ DOMAIN h = UiFields /\ h.callbacks = callbacks /\ h.callback_data = callback_data
        /\ h.prompts = labels /\ h.switch_screen = "switch_screen"
    BY <1>8 DEF UiFields
  <1>10. ASSUME NEW n \in Rows(r)
         PROVE  callbacks[n] = rows[n + 1][1] /\ callback_data[n] = rows[n + 1][2]
    <2>1. n \in Screens /\ n < Len(rows)
      BY <1>4, RowsFit, ScreensAssumption DEF Rows, Screens
    <2> QED BY <1>5, <1>6, <2>1, Zenon DEF Registered
  <1> QED BY <1>1, <1>2, <1>9, <1>10, Zenon DEF ShowsRows

(* The review of outputs registers its own function for all of them.       *)
LEMMA OutputsRegistered ==
    ASSUME NEW r \in Requests, IsOutputs(r), NEW g, DOMAIN g = UiFields, NEW h,
           h = [g EXCEPT !.switch_screen = "multi_output_prompts_cb"]
    PROVE  DOMAIN h = UiFields /\ ShowsRows(h, r)
  <1>1. DOMAIN h = UiFields /\ h.switch_screen = "multi_output_prompts_cb"
    BY DEF UiFields
  <1> QED BY <1>1, Zenon DEF ShowsRows

(* The offset of the first screen is set before the rows are written.      *)
LEMMA OffsetSet ==
    ASSUME NEW r, NEW g, DOMAIN g = UiFields, ShowsRows(g, r), NEW offset, NEW h,
           h = [g EXCEPT !.offset = offset]
    PROVE  DOMAIN h = UiFields /\ ShowsRows(h, r) /\ h.offset = offset
  <1>1. /\ DOMAIN h = UiFields /\ h.offset = offset
        /\ h.switch_screen = g.switch_screen /\ h.prompts = g.prompts
        /\ h.callbacks = g.callbacks /\ h.callback_data = g.callback_data
    BY DEF UiFields
  <1> QED BY <1>1, SameRows, Zenon

(* The two callbacks of the answers are stored (ui_prompt_with_cb).        *)
Answered(g, ok, cxl) == [g EXCEPT !.ok_callback = ok, !.cxl_callback = cxl]

LEMMA AnswersSet ==
    ASSUME NEW r, NEW g, DOMAIN g = UiFields, ShowsRows(g, r), NEW ok, NEW cxl
    PROVE  /\ DOMAIN Answered(g, ok, cxl) = UiFields /\ ShowsRows(Answered(g, ok, cxl), r)
           /\ Answered(g, ok, cxl).offset = g.offset
           /\ Answered(g, ok, cxl).ok_callback = ok /\ Answered(g, ok, cxl).cxl_callback = cxl
  <1>1. PICK h : h = Answered(g, ok, cxl)
    OBVIOUS
  <1>2. /\ DOMAIN h = UiFields /\ h.offset = g.offset
        /\ h.ok_callback = ok /\ h.cxl_callback = cxl
        /\ h.switch_screen = g.switch_screen /\ h.prompts = g.prompts
        /\ h.callbacks = g.callbacks /\ h.callback_data = g.callback_data
    BY <1>1 DEF Answered, UiFields
  <1>3. ShowsRows(h, r)
    BY <1>2, SameRows, Zenon
  <1> QED BY <1>1, <1>2, <1>3, Zenon

(* The fields of global.ui that a row on the screen leaves alone.          *)
Kept(g, h) == h.offset = g.offset /\ h.ok_callback = g.ok_callback /\ h.cxl_callback = g.cxl_callback

(* A row on the screen: its title and text are in the buffer.              *)
LEMMA RowOnScreen ==
    ASSUME NEW r \in Requests, NEW g, DOMAIN g = UiFields, ShowsRows(g, r), NEW n \in Rows(r), NEW h,
           h = Show(g, r.data, n)
    PROVE  /\ DOMAIN h = UiFields /\ ShowsRows(h, r) /\ Kept(g, h)
           /\ h.active_prompt = TitleOf(r, n) /\ h.active_value = TextOf(r, n)
  <1>1. PICK title, text : title = TitleOf(r, n) /\ text = TextOf(r, n)
    OBVIOUS
  <1>2. h = Active(g, title, text)
    BY <1>1, RowShown, Zenon
  <1>3. ShowsRows(Active(g, title, text), r)
    BY ActiveShows, Zenon
  <1>4. /\ DOMAIN h = UiFields /\ h.active_prompt = title /\ h.active_value = text
        /\ h.offset = g.offset /\ h.ok_callback = g.ok_callback /\ h.cxl_callback = g.cxl_callback
    BY <1>2 DEF Active, UiFields
  <1> QED BY <1>1, <1>2, <1>3, <1>4, Zenon DEF Kept

(* The last of some rows is one of them.                                   *)
LEMMA LastRow ==
    ASSUME NEW rows, NEW last \in rows, \A n \in rows : n <= last
    PROVE  Last(rows) \in rows
  BY Zenon DEF Last

(* The rows of a page, first to last.                                      *)
LEMMA PageRows ==
    ASSUME NEW r \in Requests, NEW first \in Rows(r)
    PROVE  /\ first \in Page(first, RowCount(r))
           /\ Page(first, RowCount(r)) \in SUBSET Rows(r)
           /\ \E last \in Page(first, RowCount(r)) : \A n \in Page(first, RowCount(r)) : n <= last
           /\ \A n \in Rows(r) : n >= first /\ n <= first + PairsPerPage - 1
                                    => n \in Page(first, RowCount(r))
  <1>1. RowCount(r) \in Nat /\ PairsPerPage \in Nat \ {0}
    BY RowsFit, ScreensAssumption, PageAssumption
  <1>2. first \in 0 .. RowCount(r) - 1
    BY DEF Rows
  <1>3. first \in Page(first, RowCount(r)) /\ Page(first, RowCount(r)) \in SUBSET Rows(r)
    BY <1>1, <1>2 DEF Page, Rows
  <1>4. CASE first + PairsPerPage - 1 < RowCount(r)
    <2>1. first + PairsPerPage - 1 \in Page(first, RowCount(r))
      BY <1>1, <1>2, <1>4 DEF Page
    <2>2. \A n \in Page(first, RowCount(r)) : n <= first + PairsPerPage - 1
      BY <1>1, <1>2 DEF Page
    <2>3. \A n \in Rows(r) : n >= first /\ n <= first + PairsPerPage - 1 => n \in Page(first, RowCount(r))
      BY <1>1, <1>2 DEF Page, Rows
    <2> QED BY <1>3, <2>1, <2>2, <2>3
  <1>5. CASE ~(first + PairsPerPage - 1 < RowCount(r))
    <2>1. RowCount(r) - 1 \in Page(first, RowCount(r))
      BY <1>1, <1>2, <1>5 DEF Page
    <2>2. \A n \in Page(first, RowCount(r)) : n <= RowCount(r) - 1
      BY <1>1, <1>2 DEF Page
    <2>3. \A n \in Rows(r) : n >= first /\ n <= first + PairsPerPage - 1 => n \in Page(first, RowCount(r))
      BY <1>1, <1>2 DEF Page, Rows
    <2> QED BY <1>3, <2>1, <2>2, <2>3
  <1> QED BY <1>4, <1>5

(* A page shows its own rows, each with its title and text, although all   *)
(* were written into the one buffer (get_pair, ui_nbgl.c).                 *)
PageShown(r, g, first) ==
    \A n \in Page(first, RowCount(r)) : g.tag[Buffer(n)] = TitleOf(r, n) /\ g.value[Buffer(n)] = TextOf(r, n)

LEMMA PageOnScreen ==
    ASSUME NEW r \in Requests, NEW g, DOMAIN g = UiFields, ShowsRows(g, r), NEW first \in Rows(r), NEW h,
           h = get_pair(g, r.data, Written(g, r.data, Page(first, RowCount(r))))
    PROVE  /\ DOMAIN h = UiFields /\ ShowsRows(h, r) /\ Kept(g, h)
           /\ ~Threw(h) /\ PageShown(r, h, first)
  <1> DEFINE row(n) == Show(g, r.data, n)
             copies(w) == {n \in Page(first, RowCount(r)) : Buffer(n) = w}
  <1>1. PICK page : page = Page(first, RowCount(r))
    OBVIOUS
  <1>2. page \in SUBSET Rows(r) /\ \E last \in page : \A n \in page : n <= last
    BY <1>1, PageRows, Zenon
  <1>3. /\ Written(g, r.data, page) = page
        /\ \A n \in page : ~Threw(Show(g, r.data, n))
    BY <1>2, AllWritten, Zenon
  <1>4. {n \in page : ~Threw(row(n))} = page
    BY <1>3, Zenon
  <1>5. PICK tag : tag = [w \in Screens |-> IF copies(w) = {} THEN g.tag[w] ELSE row(Last(copies(w))).active_prompt]
    OBVIOUS
  <1>6. PICK value : value = [w \in Screens |-> IF copies(w) = {} THEN g.value[w] ELSE row(Last(copies(w))).active_value]
    OBVIOUS
  <1>7. PICK last : last = Last(page)
    OBVIOUS
  <1>8. last \in Rows(r) /\ last \in page
    BY <1>2, <1>7, LastRow, Zenon
  <1>9. PICK k : k = row(last)
    OBVIOUS
  <1>10. h = [k EXCEPT !.tag = tag, !.value = value]
    BY <1>1, <1>3, <1>4, <1>5, <1>6, <1>7, <1>9, Zenon DEF get_pair
  <1>11. /\ DOMAIN k = UiFields /\ ShowsRows(k, r) /\ Kept(g, k) /\ k.active_value = TextOf(r, last)
    BY <1>8, <1>9, RowOnScreen, Zenon
  <1>12. /\ DOMAIN h = UiFields /\ h.tag = tag /\ h.value = value /\ h.active_value = k.active_value
         /\ h.offset = k.offset /\ h.ok_callback = k.ok_callback /\ h.cxl_callback = k.cxl_callback
         /\ h.switch_screen = k.switch_screen /\ h.prompts = k.prompts
         /\ h.callbacks = k.callbacks /\ h.callback_data = k.callback_data
    BY ONLY <1>10, <1>11 DEF UiFields
  <1>13. ShowsRows(h, r)
    BY <1>11, <1>12, SameRows, Zenon
  <1>14. Kept(g, h) /\ ~Threw(h)
    BY <1>11, <1>12, RowsWritten, Zenon DEF Kept, Threw
  <1>15. ASSUME NEW n \in page
         PROVE  tag[Buffer(n)] = TitleOf(r, n) /\ value[Buffer(n)] = TextOf(r, n)
    <2>1. n \in Screens /\ n \in Rows(r) /\ n \in Int
      BY <1>2, RowsFit, ScreensAssumption DEF Rows, Screens
    <2>2. copies(n) = {n}
      BY <1>1, Zenon DEF Buffer
    <2>3. Last({n}) = n
      BY <2>1 DEF Last
    <2>4. copies(n) # {} /\ Last(copies(n)) = n
      BY <2>2, <2>3, Zenon
    <2>5. tag[n] = row(n).active_prompt /\ value[n] = row(n).active_value
      BY <1>5, <1>6, <2>1, <2>4, Zenon
    <2>6. row(n).active_prompt = TitleOf(r, n) /\ row(n).active_value = TextOf(r, n)
      BY <2>1, RowOnScreen, Zenon
    <2> QED BY <2>5, <2>6, Zenon DEF Buffer
  <1> QED BY <1>1, <1>12, <1>13, <1>14, <1>15, Zenon DEF PageShown

-----------------------------------------------------------------------------
(* A request on the screen: the rows are registered, the callbacks are its *)
(* own, the screen shows the rows it stands for, and the user has seen all *)
(* of the rows up to there.                                                *)

Prepared(r, g) ==
    /\ DOMAIN g = UiFields /\ ShowsRows(g, r)
    /\ g.offset = MAX_SCREEN_COUNT - RowCount(r)
    /\ g.ok_callback = OkOf(r) /\ g.cxl_callback \in Refusals

Covered(r, shown, last) ==
    /\ shown \subseteq {TitleOf(r, n) : n \in Rows(r)}
    /\ \A n \in Rows(r) : n <= last => TitleOf(r, n) \in shown

Walking(r, g, s, shown) ==
    /\ display = "BAGL" /\ s.flow = "prompts"
    /\ s.step \in g.offset .. AcceptStep
    /\ s.step \in Screens => /\ g.active_prompt = TitleOf(r, s.step - g.offset)
                             /\ g.active_value = TextOf(r, s.step - g.offset)
    /\ Covered(r, shown, s.step - g.offset)

Paging(r, g, s, shown) ==
    /\ display = "NBGL" /\ s.flow = "review"
    /\ s.step \in Rows(r) /\ PageShown(r, g, s.step)
    /\ Covered(r, shown, s.step + PairsPerPage - 1)

Confirming(r, s, shown) ==
    /\ display = "NBGL" /\ s.flow = "confirm" /\ s.step \in Int
    /\ Covered(r, shown, RowCount(r))

Reviewing(r, g, s, shown) ==
    /\ Prepared(r, g) /\ s = [flow |-> s.flow, step |-> s.step]
    /\ Walking(r, g, s, shown) \/ Paging(r, g, s, shown) \/ Confirming(r, s, shown)

(* One more row on the screen.                                             *)
LEMMA OneMore ==
    ASSUME NEW r \in Requests, NEW n \in Rows(r), NEW before, NEW last \in Int,
           Covered(r, before, last), n <= last + 1
    PROVE  Covered(r, before \cup {TitleOf(r, n)}, n)
  <1>1. ASSUME NEW m \in Rows(r), m <= n
        PROVE  TitleOf(r, m) \in before \cup {TitleOf(r, n)}
    <2>1. m = n \/ m <= last
      BY <1>1, RowsFit, ScreensAssumption DEF Rows
    <2> QED BY <2>1, Zenon DEF Covered
  <1> QED BY <1>1, Zenon DEF Covered

(* A step of the flow puts its row on the screen (ui_bagl.c).              *)
LEMMA StepShown ==
    ASSUME NEW r \in Requests, NEW g, Prepared(r, g), display = "BAGL",
           NEW step \in Screens, step >= g.offset,
           NEW before, NEW last \in Int, Covered(r, before, last), step - g.offset <= last + 1,
           NEW h, h = Show(g, r.data, step - g.offset),
           NEW s, s = [flow |-> "prompts", step |-> step],
           NEW shown, shown = before \cup {h.active_prompt}
    PROVE  Reviewing(r, h, s, shown)
  <1>1. PICK n : n = step - g.offset
    OBVIOUS
  <1>2. n \in Rows(r)
    BY <1>1, RowsFit, ScreensAssumption DEF Prepared, Rows, Screens
  <1>3. /\ DOMAIN h = UiFields /\ ShowsRows(h, r) /\ Kept(g, h)
        /\ h.active_prompt = TitleOf(r, n) /\ h.active_value = TextOf(r, n)
    <2>1. DOMAIN g = UiFields /\ ShowsRows(g, r) /\ h = Show(g, r.data, n)
      BY <1>1, Zenon DEF Prepared
    <2> QED BY <1>2, <2>1, RowOnScreen, Zenon
  <1>4. Prepared(r, h) /\ h.offset = g.offset
    BY <1>3, Zenon DEF Prepared, Kept
  <1>5. Covered(r, shown, n)
    BY <1>1, <1>2, <1>3, OneMore, Zenon
  <1>6. s.flow = "prompts" /\ s.step = step /\ s = [flow |-> s.flow, step |-> s.step]
    OBVIOUS
  <1>7. step \in g.offset .. AcceptStep
    BY RowsFit, ScreensAssumption DEF Prepared, Screens, AcceptStep
  <1>8. Walking(r, h, s, shown)
    BY <1>1, <1>3, <1>4, <1>5, <1>6, <1>7, Zenon DEF Walking
  <1> QED BY <1>4, <1>6, <1>8, Zenon DEF Reviewing

(* A page of rows on the screen (ui_nbgl.c).                               *)
LEMMA PageCovered ==
    ASSUME NEW r \in Requests, NEW first \in Rows(r), NEW before, NEW last \in Int,
           Covered(r, before, last), first <= last + 1
    PROVE  Covered(r, before \cup {TitleOf(r, n) : n \in Page(first, RowCount(r))}, first + PairsPerPage - 1)
  <1>1. PICK page : page = Page(first, RowCount(r))
    OBVIOUS
  <1>2. /\ page \in SUBSET Rows(r)
        /\ \A n \in Rows(r) : n >= first /\ n <= first + PairsPerPage - 1 => n \in page
    BY <1>1, PageRows, Zenon
  <1>3. ASSUME NEW m \in Rows(r), m <= first + PairsPerPage - 1
        PROVE  TitleOf(r, m) \in before \cup {TitleOf(r, n) : n \in page}
    <2>1. m >= first \/ m <= last
      BY RowsFit, ScreensAssumption DEF Rows
    <2> QED BY <1>2, <1>3, <2>1, Zenon DEF Covered
  <1> QED BY <1>1, <1>2, <1>3, Zenon DEF Covered

LEMMA PageReviewed ==
    ASSUME NEW r \in Requests, NEW g, Prepared(r, g), display = "NBGL", NEW first \in Rows(r),
           NEW before, NEW last \in Int, Covered(r, before, last), first <= last + 1,
           ShowPage(g, r.data, first, RowCount(r), before)
    PROVE  \E h, s, shown : /\ ui' = h /\ screen' = s /\ seen' = shown
                            /\ Reviewing(r, h, s, shown) /\ s.flow = "review" /\ shown # {}
  <1>1. PICK h : h = get_pair(g, r.data, Written(g, r.data, Page(first, RowCount(r))))
    OBVIOUS
  <1>2. /\ DOMAIN h = UiFields /\ ShowsRows(h, r) /\ Kept(g, h)
        /\ ~Threw(h) /\ PageShown(r, h, first)
    <2>1. DOMAIN g = UiFields /\ ShowsRows(g, r)
      BY Zenon DEF Prepared
    <2> QED BY <1>1, <2>1, PageOnScreen, Zenon
  <1>3. /\ ui' = h /\ screen' = [flow |-> "review", step |-> first]
        /\ seen' = before \cup {h.tag[Buffer(n)] : n \in Page(first, RowCount(r))}
    BY <1>1, <1>2, Zenon DEF ShowPage
  <1>4. PICK s : s = [flow |-> "review", step |-> first]
    OBVIOUS
  <1>5. PICK shown : shown = before \cup {TitleOf(r, n) : n \in Page(first, RowCount(r))}
    OBVIOUS
  <1>6. {h.tag[Buffer(n)] : n \in Page(first, RowCount(r))} = {TitleOf(r, n) : n \in Page(first, RowCount(r))}
    BY <1>2, Zenon DEF PageShown
  <1>7. seen' = shown
    BY <1>3, <1>5, <1>6, Zenon
  <1>8. Covered(r, shown, first + PairsPerPage - 1)
    BY <1>5, PageCovered, Zenon
  <1>9. s.flow = "review" /\ s.step = first /\ s = [flow |-> s.flow, step |-> s.step]
    BY <1>4
  <1>10. Paging(r, h, s, shown)
    BY <1>2, <1>8, <1>9, Zenon DEF Paging
  <1>11. Prepared(r, h)
    BY <1>2, Zenon DEF Prepared, Kept
  <1>12. Reviewing(r, h, s, shown)
    BY <1>9, <1>10, <1>11, Zenon DEF Reviewing
  <1>13. shown # {}
    BY <1>5, PageRows, Zenon
  <1>14. ui' = h /\ screen' = s
    BY <1>3, <1>4, Zenon
  <1> QED BY <1>7, <1>9, <1>12, <1>13, <1>14, Zenon

(* ui_prompt_with_cb brings a request to the screen: neither the limit of  *)
(* the flow nor a row that throws keeps it away (ui_bagl.c, ui_nbgl.c).    *)
LEMMA PromptShown ==
    ASSUME NEW r \in Requests, NEW g, DOMAIN g = UiFields, ShowsRows(g, r),
           NEW ok, ok = OkOf(r), NEW cxl \in Refusals, display \in {"BAGL", "NBGL"},
           ui_prompt_with_cb(g, r.data, RowCount(r), ok, cxl)
    PROVE  \E h, s, shown : /\ ui' = h /\ screen' = s /\ seen' = shown
                            /\ Reviewing(r, h, s, shown) /\ s.flow \in {"prompts", "review"} /\ shown # {}
  <1>1. RowCount(r) \in Nat /\ RowCount(r) >= 1 /\ RowCount(r) <= MAX_SCREEN_COUNT /\ MAX_SCREEN_COUNT \in Nat
    BY RowsFit, ScreensAssumption
  <1>2. 0 \in Rows(r) /\ 0 .. RowCount(r) - 1 = Rows(r)
    BY <1>1 DEF Rows
  <1>3. PICK placed : placed = [g EXCEPT !.offset = Offset(RowCount(r))]
    OBVIOUS
  <1>4. Offset(RowCount(r)) = MAX_SCREEN_COUNT - RowCount(r)
    BY DEF Offset
  <1>5. /\ DOMAIN placed = UiFields /\ ShowsRows(placed, r)
        /\ placed.offset = MAX_SCREEN_COUNT - RowCount(r)
    BY <1>3, <1>4, OffsetSet
  <1>6. Covered(r, {}, -1)
    BY <1>1 DEF Covered, Rows
  <1>7. CASE display = "NBGL"
    <2>1. PICK h : h = Answered(placed, ok, cxl)
      OBVIOUS
    <2>2. Prepared(r, h)
      <3>1. /\ DOMAIN Answered(placed, ok, cxl) = UiFields /\ ShowsRows(Answered(placed, ok, cxl), r)
            /\ Answered(placed, ok, cxl).offset = placed.offset
            /\ Answered(placed, ok, cxl).ok_callback = ok /\ Answered(placed, ok, cxl).cxl_callback = cxl
        BY <1>5, AnswersSet
      <3> QED BY <1>5, <2>1, <3>1, Zenon DEF Prepared
    <2>3. ShowPage(h, r.data, 0, RowCount(r), {})
      BY <1>3, <1>7, <2>1, Zenon DEF ui_prompt_with_cb, Answered
    <2>4. 0 <= -1 + 1 /\ -1 \in Int
      OBVIOUS
    <2> QED BY <1>2, <1>6, <1>7, <2>2, <2>3, <2>4, PageReviewed, Zenon
  <1>8. CASE display = "BAGL"
    <2>1. PICK debugged : debugged = Debugged(placed, r.data, RowCount(r))
      OBVIOUS
    <2>2. PICK last : last = Last(Rows(r))
      OBVIOUS
    <2>3. last \in Rows(r)
      <3>1. RowCount(r) - 1 \in Rows(r) /\ \A n \in Rows(r) : n <= RowCount(r) - 1
        BY <1>1 DEF Rows
      <3> QED BY <2>2, <3>1, LastRow, Zenon
    <2>4. Written(placed, r.data, Rows(r)) = Rows(r)
      BY <1>5, AllWritten, Zenon
    <2>5. debugged = Show(placed, r.data, last)
      BY <1>2, <2>1, <2>2, <2>4, Zenon DEF Debugged
    <2>6. /\ DOMAIN debugged = UiFields /\ ShowsRows(debugged, r) /\ Kept(placed, debugged)
          /\ debugged.active_value = TextOf(r, last)
      BY <1>5, <2>3, <2>5, RowOnScreen, Zenon
    <2>7. ~Threw(debugged)
      BY <2>6, RowsWritten, Zenon DEF Threw
    <2>8. ~TooMany(RowCount(r))
      BY <1>1 DEF TooMany
    <2>9. PICK k : k = Answered(debugged, ok, cxl)
      OBVIOUS
    <2>10. PICK offset : offset = debugged.offset
      OBVIOUS
    <2>11. ShowStep(k, r.data, offset, {})
      BY <1>3, <1>8, <2>1, <2>7, <2>8, <2>9, <2>10, Zenon DEF ui_prompt_with_cb, Answered
    <2>12. Prepared(r, k) /\ k.offset = offset
      <3>1. /\ DOMAIN Answered(debugged, ok, cxl) = UiFields /\ ShowsRows(Answered(debugged, ok, cxl), r)
            /\ Answered(debugged, ok, cxl).offset = debugged.offset
            /\ Answered(debugged, ok, cxl).ok_callback = ok /\ Answered(debugged, ok, cxl).cxl_callback = cxl
        BY <2>6, AnswersSet
      <3> QED BY <1>5, <2>6, <2>9, <2>10, <3>1, Zenon DEF Prepared, Kept
    <2>13. offset = MAX_SCREEN_COUNT - RowCount(r)
      BY <2>12, Zenon DEF Prepared
    <2>14. offset \in Screens /\ offset >= k.offset /\ offset - k.offset = 0
      BY <1>1, <2>12, <2>13 DEF Screens
    <2>15. PICK h : h = Show(k, r.data, offset - k.offset)
      OBVIOUS
    <2>16. PICK s : s = [flow |-> "prompts", step |-> offset]
      OBVIOUS
    <2>17. PICK shown : shown = {} \cup {h.active_prompt}
      OBVIOUS
    <2>18. ui' = h /\ screen' = s /\ seen' = shown
      BY <2>11, <2>15, <2>16, <2>17, Zenon DEF ShowStep
    <2>19. -1 \in Int /\ offset - k.offset <= -1 + 1
      BY <2>14
    <2>20. Reviewing(r, h, s, shown)
      BY <1>6, <1>8, <2>12, <2>14, <2>15, <2>16, <2>17, <2>19, StepShown, Zenon
    <2>21. s.flow = "prompts" /\ shown # {}
      BY <2>16, <2>17
    <2> QED BY <2>18, <2>20, <2>21, Zenon
  <1> QED BY <1>7, <1>8

(* What a handler does to ask the user.                                    *)
LEMMA RequestShown ==
    ASSUME NEW r \in Requests, Request(r), DOMAIN ui = UiFields, display \in {"BAGL", "NBGL"}
    PROVE  \E h, s, shown : /\ ui' = h /\ screen' = s /\ seen' = shown
                            /\ Reviewing(r, h, s, shown) /\ s.flow \in {"prompts", "review"} /\ shown # {}
  <1>1. PICK g : g = ui
    OBVIOUS
  <1>2. CASE IsOutputs(r)
    <2>1. PICK h : h = [g EXCEPT !.switch_screen = "multi_output_prompts_cb"]
      OBVIOUS
    <2>2. DOMAIN h = UiFields /\ ShowsRows(h, r)
      BY <1>1, <1>2, <2>1, OutputsRegistered, Zenon
    <2>3. ui_prompt_with_cb(h, r.data, RowCount(r), "sign_ok", "sign_reject")
      BY <1>1, <1>2, <2>1, Zenon DEF Request
    <2>4. "sign_ok" = OkOf(r) /\ "sign_reject" \in Refusals
      BY <1>2 DEF OkOf, Refusals, IsOutputs
    <2> QED BY <2>2, <2>3, <2>4, PromptShown, Zenon
  <1>3. CASE ~IsOutputs(r)
    <2>1. PICK h : h = [register_ui_callbacks(g, PromptOf(r).rows) EXCEPT
                          !.prompts = PromptOf(r).labels, !.switch_screen = "switch_screen"]
      OBVIOUS
    <2>2. DOMAIN h = UiFields /\ ShowsRows(h, r)
      BY <1>1, <1>3, <2>1, RowsRegistered, Zenon
    <2>3. PICK ok, cxl : ok = PromptOf(r).ok /\ cxl = PromptOf(r).cxl
      OBVIOUS
    <2>4. ui_prompt_with_cb(h, r.data, RowCount(r), ok, cxl)
      BY <1>1, <1>3, <2>1, <2>3, Zenon DEF Request
    <2>5. ok = OkOf(r) /\ cxl \in Refusals
      BY <1>3, <2>3, RequestsAssumption, HandlerPrompts, Zenon
    <2> QED BY <2>2, <2>4, <2>5, PromptShown, Zenon
  <1> QED BY <1>2, <1>3

(* The rows of a request stay as they are while the settings do: contract  *)
(* data decides of a row of a transfer (apdu_sign.c).                      *)
LEMMA RowsStay ==
    ASSUME NEW r, N_data' = N_data
    PROVE  /\ RowCount(r)' = RowCount(r) /\ Rows(r)' = Rows(r)
           /\ PromptOf(r)' = PromptOf(r) /\ Told(r)' = Told(r)
           /\ \A n : TitleOf(r, n)' = TitleOf(r, n) /\ TextOf(r, n)' = TextOf(r, n)
  <1>1. TransactionPrompt(r.kind, r.data)' = TransactionPrompt(r.kind, r.data)
    BY Zenon DEF TransactionPrompt
  <1>2. PromptOf(r)' = PromptOf(r)
    BY <1>1, Zenon DEF PromptOf
  <1>3. RowCount(r)' = RowCount(r)
    BY <1>2, Zenon DEF RowCount
  <1>4. Rows(r)' = Rows(r)
    BY <1>3, Zenon DEF Rows
  <1>5. Titles(r)' = Titles(r)
    BY Zenon DEF Titles
  <1>6. Told(r)' = Told(r)
    BY <1>5, Zenon DEF Told
  <1>7. ASSUME NEW n
        PROVE  TitleOf(r, n)' = TitleOf(r, n) /\ TextOf(r, n)' = TextOf(r, n)
    BY <1>2, Zenon DEF TitleOf, TextOf
  <1> QED BY <1>2, <1>3, <1>4, <1>6, <1>7, Zenon

LEMMA ReviewingStays ==
    ASSUME NEW r, NEW g, NEW s, NEW shown, N_data' = N_data, display' = display, Reviewing(r, g, s, shown)
    PROVE  Reviewing(r, g, s, shown)'
  <1>1. /\ RowCount(r)' = RowCount(r) /\ Rows(r)' = Rows(r) /\ PromptOf(r)' = PromptOf(r)
        /\ \A n : TitleOf(r, n)' = TitleOf(r, n) /\ TextOf(r, n)' = TextOf(r, n)
    BY RowsStay, Zenon
  <1>2. \A last : Covered(r, shown, last)' = Covered(r, shown, last)
    BY <1>1, Zenon DEF Covered
  <1>3. ShowsRows(g, r)' = ShowsRows(g, r)
    BY <1>1, Zenon DEF ShowsRows
  <1>4. Prepared(r, g)' = Prepared(r, g)
    BY <1>1, <1>3, Zenon DEF Prepared
  <1>5. PageShown(r, g, s.step)' = PageShown(r, g, s.step)
    BY <1>1, Zenon DEF PageShown
  <1>6. Walking(r, g, s, shown)' = Walking(r, g, s, shown)
    BY <1>1, <1>2, Zenon DEF Walking
  <1>7. Paging(r, g, s, shown)' = Paging(r, g, s, shown)
    BY <1>1, <1>2, <1>5, Zenon DEF Paging
  <1>8. Confirming(r, s, shown)' = Confirming(r, s, shown)
    BY <1>1, <1>2, Zenon DEF Confirming
  <1> QED BY <1>4, <1>6, <1>7, <1>8, Zenon DEF Reviewing

-----------------------------------------------------------------------------
(* The invariant.                                                          *)

Typed ==
    /\ display \in {"BAGL", "NBGL"}
    /\ DOMAIN ui = UiFields
    /\ screen = [flow |-> screen.flow, step |-> screen.step]
    /\ screen.flow \in {"menu", "config", "status", "prompts", "review", "confirm"}

Asked(r) == request = r /\ memory = r.data /\ Reviewing(r, ui, screen, seen)

PromptsInv == Typed /\ (Ready \/ \E r \in Requests : Asked(r))

LEMMA PromptsInit == Init => PromptsInv
  <1> SUFFICES ASSUME Init PROVE PromptsInv
    OBVIOUS
  <1>1. screen = [flow |-> "menu", step |-> 0]
    BY Zenon DEF Init, Menu
  <1>2. screen.flow = "menu" /\ screen.step = 0
    BY <1>1
  <1>3. DOMAIN ui = UiFields
    BY DEF Init, UiFields
  <1>4. display \in {"BAGL", "NBGL"}
    BY Zenon DEF Init
  <1> QED BY <1>1, <1>2, <1>3, <1>4 DEF PromptsInv, Typed, Ready

(* A handler asks.                                                         *)
LEMMA RequestStep ==
    ASSUME PromptsInv, NEW r \in Requests, Request(r)
    PROVE  PromptsInv' /\ screen'.flow \in {"prompts", "review"} /\ seen' # {}
  <1>1. DOMAIN ui = UiFields /\ display \in {"BAGL", "NBGL"}
    BY Zenon DEF PromptsInv, Typed
  <1>2. PICK h, s, shown : /\ ui' = h /\ screen' = s /\ seen' = shown
                           /\ Reviewing(r, h, s, shown) /\ s.flow \in {"prompts", "review"} /\ shown # {}
    BY <1>1, RequestShown, Zenon
  <1>3. request' = r /\ memory' = r.data /\ N_data' = N_data /\ display' = display
    BY Zenon DEF Request
  <1>4. Reviewing(r, h, s, shown)'
    BY <1>2, <1>3, ReviewingStays, Zenon
  <1>5. Asked(r)'
    BY <1>2, <1>3, <1>4, Zenon DEF Asked
  <1>6. s = [flow |-> s.flow, step |-> s.step] /\ DOMAIN h = UiFields
    BY <1>2, Zenon DEF Reviewing, Prepared
  <1>7. Typed'
    BY <1>1, <1>2, <1>3, <1>6 DEF Typed
  <1> QED BY <1>2, <1>5, <1>7, Zenon DEF PromptsInv

(* What holds of the next state holds of the request that stays.           *)
LEMMA AskedOn ==
    ASSUME PromptsInv, NEW r \in Requests, Asked(r), NEW h, NEW s, NEW shown,
           ui' = h, screen' = s, seen' = shown, Reviewing(r, h, s, shown),
           s.flow \in {"prompts", "review", "confirm"},
           UNCHANGED <<display, N_data, memory, request>>
    PROVE  PromptsInv'
  <1>1. request' = r /\ memory' = r.data
    BY DEF Asked
  <1>2. Reviewing(r, h, s, shown)'
    BY ReviewingStays, Zenon
  <1>3. Asked(r)'
    BY <1>1, <1>2, Zenon DEF Asked
  <1>4. s = [flow |-> s.flow, step |-> s.step] /\ DOMAIN h = UiFields
    BY Zenon DEF Reviewing, Prepared
  <1>5. Typed'
    BY <1>4 DEF Typed, PromptsInv
  <1> QED BY <1>3, <1>5, Zenon DEF PromptsInv

(* Forward or back in the flow of BAGL.                                    *)
LEMMA TurnStep ==
    ASSUME PromptsInv, NEW step, Turn(step)
    PROVE  PromptsInv'
  <1>1. screen.flow = "prompts" /\ ~Ready
    BY DEF Turn, Ready
  <1>2. PICK r \in Requests : Asked(r)
    BY <1>1, Zenon DEF PromptsInv
  <1>3. PICK g, old, before : g = ui /\ old = screen /\ before = seen
    OBVIOUS
  <1>4. Reviewing(r, g, old, before)
    BY <1>2, <1>3, Zenon DEF Asked
  <1>5. Walking(r, g, old, before) /\ Prepared(r, g) /\ old = [flow |-> old.flow, step |-> old.step]
    BY <1>1, <1>3, <1>4 DEF Reviewing, Paging, Confirming
  <1>6. PICK m : m = old.step
    OBVIOUS
  <1>7. PICK offset : offset = g.offset
    OBVIOUS
  <1>8. /\ RowCount(r) \in Nat /\ RowCount(r) <= MAX_SCREEN_COUNT /\ MAX_SCREEN_COUNT \in Nat
        /\ offset = MAX_SCREEN_COUNT - RowCount(r) /\ m \in offset .. AcceptStep
    BY <1>5, <1>6, <1>7, RowsFit, ScreensAssumption DEF Prepared, Walking
  <1>9. step \in {m - 1, m + 1} \cap (offset .. AcceptStep)
    BY <1>3, <1>6, <1>7, Zenon DEF Turn
  <1>10. Covered(r, before, m - offset)
    BY <1>5, <1>6, <1>7, Zenon DEF Walking
  <1>11. UNCHANGED <<display, N_data, memory, request>> /\ display = "BAGL"
    BY <1>5, Zenon DEF Turn, Walking
  <1>12. CASE step \in Screens
    <2>1. PICK h : h = Show(g, r.data, step - offset)
      OBVIOUS
    <2>2. PICK s : s = [flow |-> "prompts", step |-> step]
      OBVIOUS
    <2>3. PICK shown : shown = before \cup {h.active_prompt}
      OBVIOUS
    <2>4. ui' = h /\ screen' = s /\ seen' = shown
      BY <1>2, <1>3, <1>7, <1>12, <2>1, <2>2, <2>3, Zenon DEF Turn, ShowStep, Asked
    <2>5. m - offset \in Int /\ step - offset <= (m - offset) + 1 /\ step >= offset
      BY <1>8, <1>9 DEF AcceptStep
    <2>6. Reviewing(r, h, s, shown)
      BY <1>5, <1>7, <1>10, <1>11, <1>12, <2>1, <2>2, <2>3, <2>5, StepShown, Zenon
    <2>7. s.flow \in {"prompts", "review", "confirm"}
      BY <2>2
    <2> QED BY <1>2, <1>11, <2>4, <2>6, <2>7, AskedOn, Zenon
  <1>13. CASE step \notin Screens
    <2>1. PICK s : s = [flow |-> "prompts", step |-> step]
      OBVIOUS
    <2>2. s.flow = "prompts" /\ s.step = step /\ s = [flow |-> s.flow, step |-> s.step]
      BY <2>1
    <2>3. screen' = [old EXCEPT !.step = step] /\ ui' = g /\ seen' = before
      BY <1>3, <1>13, Zenon DEF Turn
    <2>4. screen' = s
      BY <1>1, <1>3, <1>5, <2>1, <2>3
    <2>5. ASSUME NEW n \in Rows(r)
          PROVE  n <= m - offset
      BY <1>8, <1>9, <1>13 DEF Rows, Screens, AcceptStep
    <2>6. Covered(r, before, step - offset)
      BY <1>10, <2>5, Zenon DEF Covered
    <2>7. Walking(r, g, s, before)
      BY <1>7, <1>9, <1>11, <1>13, <2>2, <2>6, Zenon DEF Walking
    <2>8. Reviewing(r, g, s, before)
      BY <1>5, <2>2, <2>7, Zenon DEF Reviewing
    <2>9. s.flow \in {"prompts", "review", "confirm"}
      BY <2>2
    <2> QED BY <1>2, <1>11, <2>3, <2>4, <2>8, <2>9, AskedOn, Zenon
  <1> QED BY <1>12, <1>13

(* Forward or back in the pages of NBGL.                                   *)
LEMMA TurnPageStep ==
    ASSUME PromptsInv, NEW first \in Int, TurnPage(first)
    PROVE  PromptsInv'
  <1>1. screen.flow \in {"review", "confirm"} /\ ~Ready
    BY DEF TurnPage, Ready
  <1>2. PICK r \in Requests : Asked(r)
    BY <1>1, Zenon DEF PromptsInv
  <1>3. PICK g, old, before : g = ui /\ old = screen /\ before = seen
    OBVIOUS
  <1>4. Reviewing(r, g, old, before)
    BY <1>2, <1>3, Zenon DEF Asked
  <1>5. /\ Paging(r, g, old, before) \/ Confirming(r, old, before)
        /\ Prepared(r, g) /\ old = [flow |-> old.flow, step |-> old.step]
    BY <1>1, <1>3, <1>4 DEF Reviewing, Walking
  <1>6. PICK m : m = old.step
    OBVIOUS
  <1>7. RowCount(r) \in Nat /\ PairsPerPage \in Nat \ {0} /\ first >= 0
    BY RowsFit, ScreensAssumption, PageAssumption DEF TurnPage
  <1>8. UNCHANGED <<display, N_data, memory, request>> /\ display = "NBGL"
    BY <1>5, Zenon DEF TurnPage, Paging, Confirming
  <1>9. first \in {m - PairsPerPage, m + PairsPerPage}
    BY <1>3, <1>6, Zenon DEF TurnPage
  <1>10. m \in Int /\ \E last \in Int : Covered(r, before, last) /\ m + PairsPerPage <= last + 1
    <2>1. CASE Paging(r, g, old, before)
      <3>1. m \in 0 .. RowCount(r) - 1 /\ Covered(r, before, m + PairsPerPage - 1)
        BY <1>6, <2>1, Zenon DEF Paging, Rows
      <3> QED BY <1>7, <3>1
    <2>2. CASE Confirming(r, old, before)
      <3>1. m \in Int /\ Covered(r, before, RowCount(r))
        BY <1>6, <2>2, Zenon DEF Confirming
      <3>2. \A n \in Rows(r) : n <= RowCount(r)
        BY <1>7 DEF Rows
      <3>3. Covered(r, before, m + PairsPerPage - 1)
        BY <3>1, <3>2, Zenon DEF Covered
      <3> QED BY <1>7, <3>1, <3>3
    <2> QED BY <1>5, <2>1, <2>2
  <1>11. PICK last \in Int : Covered(r, before, last) /\ m + PairsPerPage <= last + 1
    BY <1>10
  <1>12. first <= last + 1
    BY <1>7, <1>9, <1>10, <1>11
  <1>13. CASE first < RowCount(r)
    <2>1. ShowPage(g, r.data, first, RowCount(r), before)
      BY <1>2, <1>3, <1>13, Zenon DEF TurnPage, Asked
    <2>2. first \in Rows(r)
      BY <1>7, <1>13 DEF Rows
    <2>3. PICK h, s, shown : /\ ui' = h /\ screen' = s /\ seen' = shown
                             /\ Reviewing(r, h, s, shown) /\ s.flow = "review" /\ shown # {}
      BY <1>5, <1>8, <1>11, <1>12, <2>1, <2>2, PageReviewed, Zenon
    <2>4. s.flow \in {"prompts", "review", "confirm"}
      BY <2>3
    <2> QED BY <1>2, <1>8, <2>3, <2>4, AskedOn, Zenon
  <1>14. CASE ~(first < RowCount(r))
    <2>1. PICK s : s = [flow |-> "confirm", step |-> first]
      OBVIOUS
    <2>2. s.flow = "confirm" /\ s.step = first /\ s = [flow |-> s.flow, step |-> s.step]
      BY <2>1
    <2>3. ui' = g /\ screen' = s /\ seen' = before
      BY <1>2, <1>3, <1>14, <2>1, Zenon DEF TurnPage, Asked
    <2>4. ASSUME NEW n \in Rows(r)
          PROVE  n <= last
      BY <1>7, <1>12, <1>14 DEF Rows
    <2>5. Covered(r, before, RowCount(r))
      BY <1>11, <2>4, Zenon DEF Covered
    <2>6. Reviewing(r, g, s, before)
      BY <1>5, <1>8, <2>2, <2>5, Zenon DEF Reviewing, Confirming
    <2>7. s.flow \in {"prompts", "review", "confirm"}
      BY <2>2
    <2> QED BY <1>2, <1>8, <2>3, <2>6, <2>7, AskedOn, Zenon
  <1> QED BY <1>13, <1>14

(* Nobody is asked any more.                                               *)
LEMMA ReadyOn ==
    ASSUME Typed, Ready', UNCHANGED <<display, ui>>,
           screen' = [flow |-> screen'.flow, step |-> screen'.step]
    PROVE  PromptsInv'
  BY DEF PromptsInv, Typed, Ready

(* An answer on either kind of device: the menu, or the status, comes.     *)
LEMMA AnswerStep ==
    ASSUME PromptsInv, NEW accepted \in BOOLEAN, prompt_response(accepted) \/ reviewChoice(accepted)
    PROVE  PromptsInv'
  <1>1. UNCHANGED <<display, ui>>
    BY DEF prompt_response, reviewChoice
  <1>2. screen' = [flow |-> "menu", step |-> 0] \/ screen' = [flow |-> "status", step |-> 0]
    BY DEF prompt_response, reviewChoice, Menu
  <1>3. Ready' /\ screen' = [flow |-> screen'.flow, step |-> screen'.step]
    BY <1>2 DEF Ready
  <1> QED BY <1>1, <1>3, ReadyOn DEF PromptsInv

(* A switch of a setting leaves the screen where it is.                    *)
LEMMA SwitchStep ==
    ASSUME PromptsInv, NEW i \in Settings, Switch(i)
    PROVE  PromptsInv'
  <1>1. UNCHANGED <<display, ui, screen>>
    BY DEF Switch
  <1>2. Ready
    <2>1. screen = [flow |-> "config", step |-> i] \/ screen.flow = "menu"
      BY Zenon DEF Switch
    <2> QED BY <2>1 DEF Ready
  <1>3. Ready' /\ screen' = [flow |-> screen'.flow, step |-> screen'.step]
    BY <1>1, <1>2 DEF Ready, PromptsInv, Typed
  <1> QED BY <1>1, <1>3, ReadyOn DEF PromptsInv

(* The menu, the settings and the end of the status.                       *)
LEMMA MenuStep ==
    ASSUME PromptsInv, Configure \/ ui_initial_screen
    PROVE  PromptsInv'
  <1>1. UNCHANGED <<display, ui>>
    BY DEF Configure, ui_initial_screen
  <1>2. PICK step : step = screen.step + 1
    OBVIOUS
  <1>3. \/ screen' = [flow |-> "menu", step |-> 0] \/ screen' = [flow |-> "config", step |-> 0]
        \/ screen' = [flow |-> "config", step |-> step]
    <2>1. screen = [flow |-> screen.flow, step |-> screen.step]
      BY DEF PromptsInv, Typed
    <2> QED BY <1>2, <2>1 DEF Configure, ui_initial_screen, Menu
  <1>4. Ready' /\ screen' = [flow |-> screen'.flow, step |-> screen'.step]
    BY <1>3 DEF Ready
  <1> QED BY <1>1, <1>4, ReadyOn DEF PromptsInv

(* Every step of Prompts.                                                  *)
LEMMA PromptsNext == PromptsInv /\ [Next]_vars => PromptsInv'
  <1> SUFFICES ASSUME PromptsInv, [Next]_vars PROVE PromptsInv'
    OBVIOUS
  <1>1. ASSUME NEW r \in Requests, Request(r) PROVE PromptsInv'
    BY <1>1, RequestStep, Zenon
  <1>2. ASSUME NEW step \in 0 .. AcceptStep, Turn(step) PROVE PromptsInv'
    BY <1>2, TurnStep, Zenon
  <1>3. ASSUME NEW first \in 0 .. MAX_SCREEN_COUNT + PairsPerPage, TurnPage(first) PROVE PromptsInv'
    <2>1. first \in Int
      OBVIOUS
    <2> QED BY <1>3, <2>1, TurnPageStep, Zenon
  <1>4. ASSUME NEW accepted \in BOOLEAN, prompt_response(accepted) \/ reviewChoice(accepted) PROVE PromptsInv'
    BY <1>4, AnswerStep, Zenon
  <1>5. ASSUME NEW i \in Settings, Switch(i) PROVE PromptsInv'
    BY <1>5, SwitchStep, Zenon
  <1>6. ASSUME Configure \/ ui_initial_screen PROVE PromptsInv'
    BY <1>6, MenuStep, Zenon
  <1>7. ASSUME UNCHANGED vars PROVE PromptsInv'
    <2>1. UNCHANGED <<display, N_data, memory, request, ui, screen, seen>>
      BY <1>7 DEF vars, history
    <2>2. CASE Ready
      BY <2>1, <2>2 DEF PromptsInv, Typed, Ready
    <2>3. CASE ~Ready
      <3>1. PICK r \in Requests : Asked(r)
        BY <2>3, Zenon DEF PromptsInv
      <3>2. PICK g, s, shown : g = ui /\ s = screen /\ shown = seen
        OBVIOUS
      <3>3. Reviewing(r, g, s, shown) /\ ui' = g /\ screen' = s /\ seen' = shown
        BY <2>1, <3>1, <3>2, Zenon DEF Asked
      <3>4. s.flow \in {"prompts", "review", "confirm"}
        BY <2>3, <3>2 DEF Ready, PromptsInv, Typed
      <3> QED BY <2>1, <3>1, <3>3, <3>4, AskedOn, Zenon
    <2> QED BY <2>2, <2>3
  <1> QED BY <1>1, <1>2, <1>3, <1>4, <1>5, <1>6, <1>7, Zenon DEF Next

LEMMA PromptsAlways == Spec => []PromptsInv
  BY PromptsInit, PromptsNext, PTL DEF Spec

-----------------------------------------------------------------------------
(* The theorems.                                                           *)

(* On both kinds of device every row on the screen, the one row of the flow *)
(* or the rows of a page, is a row of the request that is asked for and    *)
(* tells its datum: nothing an earlier prompt has registered, labelled or  *)
(* left in a buffer is ever shown (ui_common.c:54).                        *)
THEOREM ShowsRequestedRows == Spec => []RowsTellData
  <1>1. PromptsInv => RowsTellData
    <2> SUFFICES ASSUME PromptsInv PROVE RowsTellData
      OBVIOUS
    <2>1. CASE Ready
      <3>1. OnScreen = {}
        BY <2>1 DEF Ready, OnScreen
      <3> QED BY <3>1 DEF RowsTellData
    <2>2. CASE ~Ready
      <3>1. PICK r \in Requests : Asked(r)
        BY <2>2, Zenon DEF PromptsInv
      <3>2. PICK g, s, shown : g = ui /\ s = screen /\ shown = seen
        OBVIOUS
      <3>3. request = r /\ Reviewing(r, g, s, shown)
        BY <3>1, <3>2, Zenon DEF Asked
      <3>4. \A n \in Rows(r) : <<TitleOf(r, n), TextOf(r, n)>> \in Told(r)
        BY ToldAreRows, Zenon
      <3>5. CASE Walking(r, g, s, shown)
        <4>1. s.flow = "prompts" /\ g.offset = MAX_SCREEN_COUNT - RowCount(r) /\ s.step \in g.offset .. AcceptStep
          BY <3>3, <3>5, Zenon DEF Walking, Reviewing, Prepared
        <4>2. CASE s.step \in Screens
          <5>1. PICK n : n = s.step - g.offset
            OBVIOUS
          <5>2. n \in Rows(r)
            BY <4>1, <4>2, <5>1, RowsFit, ScreensAssumption DEF Rows, Screens
          <5>3. g.active_prompt = TitleOf(r, n) /\ g.active_value = TextOf(r, n)
            BY <3>5, <4>2, <5>1, Zenon DEF Walking
          <5>4. OnScreen = {<<g.active_prompt, g.active_value>>}
            BY <3>2, <4>1, <4>2, Zenon DEF OnScreen
          <5> QED BY <3>3, <3>4, <5>2, <5>3, <5>4, Zenon DEF RowsTellData
        <4>3. CASE s.step \notin Screens
          <5>1. OnScreen = {}
            BY <3>2, <4>1, <4>3 DEF OnScreen
          <5> QED BY <5>1 DEF RowsTellData
        <4> QED BY <4>2, <4>3
      <3>6. CASE Paging(r, g, s, shown)
        <4>1. s.flow = "review" /\ s.step \in Rows(r) /\ PageShown(r, g, s.step)
          BY <3>6, Zenon DEF Paging
        <4>2. OnScreen = {<<g.tag[Buffer(n)], g.value[Buffer(n)]>> : n \in Page(s.step, RowCount(r))}
          BY <3>2, <3>3, <4>1 DEF OnScreen
        <4>3. PICK first : first = s.step
          OBVIOUS
        <4>4. Page(first, RowCount(r)) \in SUBSET Rows(r)
          BY <4>1, <4>3, PageRows, Zenon
        <4> QED BY <3>3, <3>4, <4>1, <4>2, <4>3, <4>4, Zenon DEF RowsTellData, PageShown
      <3>7. CASE Confirming(r, s, shown)
        <4>1. OnScreen = {}
          BY <3>2, <3>7 DEF OnScreen, Confirming
        <4> QED BY <4>1 DEF RowsTellData
      <3> QED BY <3>3, <3>5, <3>6, <3>7, Zenon DEF Reviewing
    <2> QED BY <2>1, <2>2
  <1> QED BY <1>1, PromptsAlways, PTL

(* Every request of a handler comes to the screen with a row: it has a     *)
(* screen for each row and a function for each (ui_common.c:55, 61,        *)
(* ui_bagl.c:203), whatever was asked before.                              *)
THEOREM BringsRequestsToTheScreen == Spec => RequestsAreShown
  <1>1. PromptsInv /\ [Next]_vars =>
          [requests' # requests => screen'.flow \in {"prompts", "review"} /\ seen' # {}]_vars
    <2> SUFFICES ASSUME PromptsInv, [Next]_vars, requests' # requests
                 PROVE  screen'.flow \in {"prompts", "review"} /\ seen' # {}
      BY Zenon
    <2>1. \E r \in Requests : Request(r)
      <3>1. CASE UNCHANGED vars
        BY <3>1 DEF vars
      <3>2. CASE Next
        BY <3>2, Zenon DEF Next, Turn, TurnPage, prompt_response, reviewChoice, Switch, Configure, ui_initial_screen
      <3> QED BY <3>1, <3>2
    <2> QED BY <2>1, RequestStep, Zenon
  <1> QED BY <1>1, PromptsAlways, PTL DEF Spec, RequestsAreShown

(* The user accepts only after every row of the request, and then its own  *)
(* callback is called: of a signature, a key or an account (ui_bagl.c,     *)
(* ui_nbgl.c).                                                             *)
THEOREM AcceptsAfterAllRows == Spec => AcceptedAfterAllRows
  <1> DEFINE Accepted ==
        answer' # answer /\ answer' \notin {"none", "delay_reject", "sign_reject"} =>
            seen = {row[1] : row \in Told(request)} /\ answer' = OkOf(request)
  <1>1. ASSUME PromptsInv, [Next]_vars
        PROVE  Accepted
    <2> SUFFICES ASSUME answer' # answer, answer' \notin {"none", "delay_reject", "sign_reject"}
                 PROVE  seen = {row[1] : row \in Told(request)} /\ answer' = OkOf(request)
      OBVIOUS
    <2>1. PICK accepted \in BOOLEAN : prompt_response(accepted) \/ reviewChoice(accepted)
      <3>1. CASE UNCHANGED vars
        BY <3>1 DEF vars, history
      <3>2. CASE Next
        BY <1>1, <3>2, Zenon DEF Next, Request, Turn, TurnPage, Switch, Configure, ui_initial_screen, history
      <3> QED BY <1>1, <3>1, <3>2
    <2>2. screen.flow \in {"prompts", "review", "confirm"}
      BY <2>1 DEF prompt_response, reviewChoice
    <2>3. PICK r \in Requests : Asked(r)
      BY <1>1, <2>2 DEF PromptsInv, Ready
    <2>4. PICK g, s, shown : g = ui /\ s = screen /\ shown = seen
      OBVIOUS
    <2>5. request = r /\ Reviewing(r, g, s, shown)
      BY <2>3, <2>4, Zenon DEF Asked
    <2>6. answer' = IF accepted THEN g.ok_callback ELSE g.cxl_callback
      BY <2>1, <2>4, Zenon DEF prompt_response, reviewChoice, Answer
    <2>7. g.ok_callback = OkOf(r) /\ g.cxl_callback \in {"delay_reject", "sign_reject"}
      BY <2>5, Zenon DEF Reviewing, Prepared, Refusals
    <2>8. accepted = TRUE /\ answer' = OkOf(r)
      BY <2>6, <2>7
    <2>9. \A n \in Rows(r) : TitleOf(r, n) \in shown
      <3>1. RowCount(r) \in Nat /\ MAX_SCREEN_COUNT \in Nat
        BY RowsFit, ScreensAssumption
      <3>2. CASE prompt_response(accepted)
        <4>1. s.flow = "prompts" /\ s.step = MAX_SCREEN_COUNT + 1
          BY <2>4, <2>8, <3>2 DEF prompt_response, AcceptStep
        <4>2. g.offset = MAX_SCREEN_COUNT - RowCount(r)
          BY <2>5, Zenon DEF Reviewing, Prepared
        <4>3. Covered(r, shown, s.step - g.offset)
          BY <2>5, <4>1 DEF Reviewing, Walking, Paging, Confirming
        <4>4. \A n \in Rows(r) : n <= s.step - g.offset
          BY <3>1, <4>1, <4>2 DEF Rows
        <4> QED BY <4>3, <4>4, Zenon DEF Covered
      <3>3. CASE reviewChoice(accepted)
        <4>1. s.flow = "confirm"
          BY <2>4, <2>8, <3>3 DEF reviewChoice
        <4>2. Covered(r, shown, RowCount(r))
          BY <2>5, <4>1 DEF Reviewing, Walking, Paging, Confirming
        <4>3. \A n \in Rows(r) : n <= RowCount(r)
          BY <3>1 DEF Rows
        <4> QED BY <4>2, <4>3, Zenon DEF Covered
      <3> QED BY <2>1, <3>2, <3>3
    <2>10. shown \subseteq {TitleOf(r, n) : n \in Rows(r)}
      BY <2>5, Zenon DEF Reviewing, Walking, Paging, Confirming, Covered
    <2>11. {row[1] : row \in Told(r)} = {TitleOf(r, n) : n \in Rows(r)}
      <3>1. ASSUME NEW n \in Rows(r)
            PROVE  TitleOf(r, n) \in {row[1] : row \in Told(r)}
        <4>1. <<TitleOf(r, n), TextOf(r, n)>> \in Told(r)
          BY ToldAreRows, Zenon
        <4>2. <<TitleOf(r, n), TextOf(r, n)>>[1] = TitleOf(r, n)
          OBVIOUS
        <4> QED BY <4>1, <4>2, Zenon
      <3>2. \A row \in Told(r) : \E n \in Rows(r) : row[1] = TitleOf(r, n)
        BY ToldAreRows, Zenon
      <3> QED BY <3>1, <3>2, Zenon
    <2> QED BY <2>4, <2>5, <2>8, <2>9, <2>10, <2>11, Zenon
  <1>2. PromptsInv /\ [Next]_vars => [Accepted]_vars
    BY <1>1
  <1> QED BY <1>2, PromptsAlways, PTL DEF Spec, AcceptedAfterAllRows, OkOf

-----------------------------------------------------------------------------
(* The settings and what the menu says of them.                            *)

MenuTexts == {"testnet", "mainnet", "On", "Off"}

SettingsTyped ==
    /\ N_data \in [address_type : {"MAINNET", "TESTNET"}, sign_hash_type : {"ON", "OFF"},
                   contract_data_type : {"ALLOW", "DISALLOW"}, menu : [Settings -> MenuTexts]]
    /\ switches \in [Settings -> BOOLEAN]
    /\ screen.flow = "config" => display = "BAGL"

SettingsInv == PromptsInv /\ SettingsTyped /\ SettingsTold

(* Each setting and its text are written together (switch_network,         *)
(* switch_sign_hash, switch_contract_data).                                *)
Text0(d) == d.menu[0] = IF d.address_type = "TESTNET" THEN "testnet" ELSE "mainnet"
Text1(d) == d.menu[1] = IF d.sign_hash_type = "ON" THEN "On" ELSE "Off"
Text2(d) == d.menu[2] = IF d.contract_data_type = "ALLOW" THEN "On" ELSE "Off"

Stored == [address_type : {"MAINNET", "TESTNET"}, sign_hash_type : {"ON", "OFF"},
           contract_data_type : {"ALLOW", "DISALLOW"}, menu : [Settings -> MenuTexts]]

LEMMA TypeWritten ==
    ASSUME NEW d \in Stored, NEW i \in Settings, NEW on \in BOOLEAN, NEW e, e = WithType(d, i, on)
    PROVE  /\ e \in Stored /\ e.menu = d.menu
           /\ e.address_type = IF i = 0 THEN (IF on THEN "TESTNET" ELSE "MAINNET") ELSE d.address_type
           /\ e.sign_hash_type = IF i = 1 THEN (IF on THEN "ON" ELSE "OFF") ELSE d.sign_hash_type
           /\ e.contract_data_type = IF i = 2 THEN (IF on THEN "ALLOW" ELSE "DISALLOW") ELSE d.contract_data_type
  <1>1. CASE i = 0
    <2>1. e = [d EXCEPT !.address_type = IF on THEN "TESTNET" ELSE "MAINNET"]
      BY <1>1 DEF WithType
    <2> QED BY <1>1, <2>1 DEF Stored
  <1>2. CASE i = 1
    <2>1. e = [d EXCEPT !.sign_hash_type = IF on THEN "ON" ELSE "OFF"]
      BY <1>2 DEF WithType
    <2> QED BY <1>2, <2>1 DEF Stored
  <1>3. CASE i = 2
    <2>1. e = [d EXCEPT !.contract_data_type = IF on THEN "ALLOW" ELSE "DISALLOW"]
      BY <1>3 DEF WithType
    <2> QED BY <1>3, <2>1 DEF Stored
  <1> QED BY <1>1, <1>2, <1>3 DEF Settings

LEMMA PromptWritten ==
    ASSUME NEW d \in Stored, NEW i \in Settings, NEW on \in BOOLEAN, NEW e, e = WithPrompt(d, i, on)
    PROVE  /\ e \in Stored /\ e.address_type = d.address_type
           /\ e.sign_hash_type = d.sign_hash_type /\ e.contract_data_type = d.contract_data_type
           /\ e.menu[i] = IF i = 0 THEN (IF on THEN "testnet" ELSE "mainnet") ELSE (IF on THEN "On" ELSE "Off")
           /\ \A j \in Settings : j # i => e.menu[j] = d.menu[j]
  <1>1. PICK text : text = IF i = 0 THEN (IF on THEN "testnet" ELSE "mainnet")
                                      ELSE (IF on THEN "On" ELSE "Off")
    OBVIOUS
  <1>2. text \in MenuTexts
    BY <1>1, Zenon DEF MenuTexts
  <1>3. e = [d EXCEPT !.menu = [d.menu EXCEPT ![i] = text]]
    BY <1>1 DEF WithPrompt
  <1>4. /\ e \in Stored /\ e.address_type = d.address_type
        /\ e.sign_hash_type = d.sign_hash_type /\ e.contract_data_type = d.contract_data_type
        /\ e.menu[i] = text /\ \A j \in Settings : j # i => e.menu[j] = d.menu[j]
    BY ONLY <1>2, <1>3, d \in Stored, i \in Settings DEF Stored
  <1> QED BY <1>1, <1>4, Zenon

LEMMA SettingsStep == SettingsInv /\ [Next]_vars => SettingsInv'
  <1> SUFFICES ASSUME SettingsInv, [Next]_vars PROVE SettingsTyped' /\ SettingsTold'
    BY PromptsNext DEF SettingsInv
  <1>1. PICK d, b : d = N_data /\ b = switches
    OBVIOUS
  <1>2. d \in Stored /\ b \in [Settings -> BOOLEAN] /\ display \in {"BAGL", "NBGL"}
    BY <1>1 DEF SettingsInv, SettingsTyped, Stored, PromptsInv, Typed
  <1>3. Settings = {0, 1, 2}
    BY DEF Settings
  <1>4. /\ display = "BAGL" => Text0(d) /\ Text1(d) /\ Text2(d)
        /\ display = "NBGL" => /\ b[0] = (d.address_type = "TESTNET")
                               /\ b[1] = (d.sign_hash_type = "ON")
                               /\ b[2] = (d.contract_data_type = "ALLOW")
    BY <1>1, <1>3 DEF SettingsInv, SettingsTold, On, Text0, Text1, Text2
  <1>5. ASSUME NEW e \in Stored, NEW c \in [Settings -> BOOLEAN], N_data' = e, switches' = c,
               display' = display, screen'.flow = "config" => display = "BAGL",
               display = "BAGL" => Text0(e) /\ Text1(e) /\ Text2(e),
               display = "NBGL" => /\ c[0] = (e.address_type = "TESTNET")
                                   /\ c[1] = (e.sign_hash_type = "ON")
                                   /\ c[2] = (e.contract_data_type = "ALLOW")
        PROVE  SettingsTyped' /\ SettingsTold'
    <2>1. SettingsTyped'
      BY <1>5 DEF SettingsTyped, Stored
    <2>2. SettingsTold'
      BY <1>2, <1>3, <1>5 DEF SettingsTold, On, Text0, Text1, Text2
    <2> QED BY <2>1, <2>2
  <1>6. CASE \E i \in Settings : Switch(i)
    <2>1. PICK i \in Settings : Switch(i)
      BY <1>6
    <2>2. PICK on \in BOOLEAN : on = ~On(i)
      BY Zenon
    <2>3. PICK e : e = WithType(d, i, on)
      OBVIOUS
    <2>4. PICK f : f = WithPrompt(e, i, on)
      OBVIOUS
    <2>5. /\ e \in Stored /\ e.menu = d.menu
          /\ e.address_type = IF i = 0 THEN (IF on THEN "TESTNET" ELSE "MAINNET") ELSE d.address_type
          /\ e.sign_hash_type = IF i = 1 THEN (IF on THEN "ON" ELSE "OFF") ELSE d.sign_hash_type
          /\ e.contract_data_type = IF i = 2 THEN (IF on THEN "ALLOW" ELSE "DISALLOW") ELSE d.contract_data_type
      BY <1>2, <2>3, TypeWritten
    <2>6. /\ f \in Stored /\ f.address_type = e.address_type
          /\ f.sign_hash_type = e.sign_hash_type /\ f.contract_data_type = e.contract_data_type
          /\ f.menu[i] = IF i = 0 THEN (IF on THEN "testnet" ELSE "mainnet") ELSE (IF on THEN "On" ELSE "Off")
          /\ \A j \in Settings : j # i => f.menu[j] = e.menu[j]
      BY <2>4, <2>5, PromptWritten
    <2>7. display' = display /\ screen' = screen
      BY <2>1 DEF Switch
    <2>8. CASE /\ screen = [flow |-> "config", step |-> i]
               /\ N_data' = WithPrompt(WithType(N_data, i, ~On(i)), i, ~On(i))
               /\ UNCHANGED switches
      <3>1. N_data' = f /\ switches' = b
        BY <1>1, <2>2, <2>3, <2>4, <2>8, Zenon
      <3>2. display = "BAGL" /\ screen'.flow = "config"
        BY <2>7, <2>8 DEF SettingsInv, SettingsTyped
      <3>3. Text0(f)
        BY <1>3, <1>4, <2>5, <2>6, <3>2 DEF Text0
      <3>4. Text1(f)
        BY <1>3, <1>4, <2>5, <2>6, <3>2 DEF Text1
      <3>5. Text2(f)
        BY <1>3, <1>4, <2>5, <2>6, <3>2 DEF Text2
      <3> QED BY <1>2, <1>5, <2>6, <2>7, <3>1, <3>2, <3>3, <3>4, <3>5
    <2>9. CASE /\ display = "NBGL" /\ screen.flow = "menu"
               /\ N_data' = WithType(N_data, i, ~On(i))
               /\ switches' = [switches EXCEPT ![i] = ~On(i)]
      <3>1. PICK c : c = [b EXCEPT ![i] = on]
        OBVIOUS
      <3>2. N_data' = e /\ switches' = c
        BY <1>1, <2>2, <2>3, <2>9, <3>1, Zenon
      <3>3. c \in [Settings -> BOOLEAN] /\ c[i] = on /\ \A j \in Settings : j # i => c[j] = b[j]
        BY <1>2, <3>1
      <3>4. /\ c[0] = (e.address_type = "TESTNET")
            /\ c[1] = (e.sign_hash_type = "ON")
            /\ c[2] = (e.contract_data_type = "ALLOW")
        BY <1>3, <1>4, <2>5, <2>9, <3>3
      <3>5. screen'.flow # "config" /\ display # "BAGL"
        BY <2>7, <2>9
      <3> QED BY <1>5, <2>5, <2>7, <3>2, <3>3, <3>4, <3>5
    <2> QED BY <2>1, <2>8, <2>9, Zenon DEF Switch
  <1>7. CASE ui_initial_screen
    <2>1. PICK c : c = [i \in Settings |-> On(i)]
      OBVIOUS
    <2>2. N_data' = d /\ switches' = c /\ display' = display /\ screen' = [flow |-> "menu", step |-> 0]
      BY <1>1, <1>7, <2>1, Zenon DEF ui_initial_screen, Menu
    <2>3. c \in [Settings -> BOOLEAN]
      BY <2>1, Zenon DEF On
    <2>4. c[0] = On(0) /\ c[1] = On(1) /\ c[2] = On(2)
      BY <1>3, <2>1
    <2>5. /\ c[0] = (d.address_type = "TESTNET")
          /\ c[1] = (d.sign_hash_type = "ON")
          /\ c[2] = (d.contract_data_type = "ALLOW")
      BY <1>1, <2>4 DEF On
    <2> QED BY <1>2, <1>4, <1>5, <2>2, <2>3, <2>5
  <1>8. CASE UNCHANGED <<display, N_data, switches>> /\ (screen'.flow = "config" => display = "BAGL")
    BY <1>1, <1>2, <1>4, <1>5, <1>8
  <1>9. CASE \E r \in Requests : Request(r)
    <2>1. screen'.flow # "config"
      BY <1>9, RequestStep DEF SettingsInv
    <2> QED BY <1>8, <1>9, <2>1 DEF Request
  <1>10. CASE Configure
    BY <1>8, <1>10 DEF Configure
  <1>11. CASE UNCHANGED vars
    BY <1>8, <1>11 DEF vars, SettingsInv, SettingsTyped
  <1>12. CASE \E step \in 0 .. AcceptStep : Turn(step)
    <2>1. PICK step : Turn(step)
      BY <1>12
    <2>2. screen.flow = "prompts" /\ screen = [flow |-> screen.flow, step |-> screen.step]
      BY <2>1 DEF Turn, SettingsInv, PromptsInv, Typed
    <2>3. screen'.flow # "config"
      BY <2>1, <2>2 DEF Turn, ShowStep
    <2> QED BY <1>8, <2>1, <2>3 DEF Turn
  <1>13. CASE \E first \in 0 .. MAX_SCREEN_COUNT + PairsPerPage : TurnPage(first)
    <2>1. PICK first : TurnPage(first)
      BY <1>13
    <2>2. screen' = screen \/ \E step : screen' \in {[flow |-> "review", step |-> step], [flow |-> "confirm", step |-> step]}
      BY <2>1, Zenon DEF TurnPage, ShowPage, Throws
    <2>3. screen'.flow # "config"
      BY <2>1, <2>2 DEF TurnPage
    <2> QED BY <1>8, <2>1, <2>3 DEF TurnPage
  <1>14. CASE \E accepted \in BOOLEAN : prompt_response(accepted) \/ reviewChoice(accepted)
    <2>1. screen'.flow # "config"
      BY <1>14 DEF prompt_response, reviewChoice, Menu
    <2> QED BY <1>8, <1>14, <2>1 DEF prompt_response, reviewChoice
  <1> QED BY <1>6, <1>7, <1>9, <1>10, <1>11, <1>12, <1>13, <1>14, Zenon DEF Next

(* What the menu or the settings page says of each setting is what is      *)
(* stored, after any switches on either kind of device.                    *)
THEOREM TellsTheSettings == Spec => []SettingsTold
  <1>1. Init => SettingsInv
    <2> SUFFICES ASSUME Init PROVE SettingsTyped /\ SettingsTold
      BY PromptsInit DEF SettingsInv
    <2>1. screen.flow = "menu"
      BY DEF Init, Menu
    <2>2. SettingsTyped
      <3>1. PICK menu : menu = [i \in Settings |-> IF i = 0 THEN "mainnet" ELSE "Off"]
        OBVIOUS
      <3>2. menu \in [Settings -> MenuTexts]
        BY <3>1 DEF MenuTexts
      <3>3. N_data = [address_type |-> "MAINNET", sign_hash_type |-> "OFF",
                      contract_data_type |-> "DISALLOW", menu |-> menu]
        BY <3>1, Zenon DEF Init
      <3>4. N_data \in [address_type : {"MAINNET", "TESTNET"}, sign_hash_type : {"ON", "OFF"},
                        contract_data_type : {"ALLOW", "DISALLOW"}, menu : [Settings -> MenuTexts]]
        BY ONLY <3>2, <3>3
      <3>5. switches \in [Settings -> BOOLEAN]
        BY DEF Init
      <3> QED BY <2>1, <3>4, <3>5 DEF SettingsTyped
    <2>3. SettingsTold
      BY DEF Init, SettingsTold, Settings, On
    <2> QED BY <2>2, <2>3
  <1>2. SettingsInv => SettingsTold
    BY DEF SettingsInv
  <1> QED BY <1>1, <1>2, SettingsStep, PTL DEF Spec

=============================================================================
